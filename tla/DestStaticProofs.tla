-------------------------- MODULE DestStaticProofs --------------------------
(***************************************************************************)
(* The safety properties of the destinations with a list of servers from   *)
(* the configuration, for any number of servers: DestRoundRobin with its   *)
(* quarantine, and the two ordered ones of DestOrdered.                    *)
(*                                                                         *)
(* The quarantine: the acceptor only appends what is not there and the     *)
(* manager thread alone erases, one element of its copy after the other,   *)
(* so that the rest of the copy stays in the quarantine.  The position:    *)
(* within a call, the servers behind it have all been seen quarantined or  *)
(* failing, going round the end of the list.  The ordered destinations     *)
(* walk over the same list with the same position.                         *)
(***************************************************************************)
EXTENDS DestStatic, FiniteSetTheorems, TLAPS

Distinct(s) == \A a, b \in DOMAIN s : s[a] = s[b] => a = b

\* The n servers before pos, going round the list, are all in S.
Behind(pos, n, S) ==
  \A s \in Index : (s < pos /\ s + n >= pos) \/ s + n >= pos + NumServers => s \in S

\* quarantined_ and what the manager thread has left of its copy.
Quarantine ==
  /\ Distinct(quarantined_)
  /\ Distinct(cpy)
  /\ mgr \in {"probe", "erase"} =>
       \A j \in DOMAIN cpy : j >= k => cpy[j] \in Elements(quarantined_)
  /\ mgr = "erase" => k <= Len(cpy)

\* The walk of get_server_socket() over the list.
Walk ==
  /\ call = "next" => Behind(current_pos_, i, bad)
  /\ call \in {"check", "try", "quarantine"} =>
       /\ i < NumServers
       /\ current_pos_ = Advance(server_pos)
       /\ Behind(server_pos, i, bad)
  /\ call = "quarantine" => server_pos \in bad
  /\ NonePassedOver

\* The inductive invariant.
IInv == TypeOK /\ Quarantine /\ Walk

\* Going one place on, around the end of the list as well, adds that place.
LEMMA BehindAdvance ==
  ASSUME NEW pos \in Index, NEW n \in 0..(NumServers - 1), NEW S, Behind(pos, n, S)
  PROVE  /\ Advance(pos) \in Index
         /\ Behind(Advance(pos), n + 1, S \cup {pos})
BY NumServersAssumption DEF Behind, Advance, Index

\* The round is complete after as many steps as there are servers.
LEMMA BehindAll ==
  ASSUME NEW pos \in Index, NEW S \in SUBSET Index, Behind(pos, NumServers, S)
  PROVE  S = Index
<1>1. \A s \in Index : s \in S
  BY NumServersAssumption DEF Behind, Index
<1>2. QED BY <1>1

\* A quarantine of different servers that is as long as the list is the list:
\* "if (quarantined_.size() == destinations_.size())".
LEMMA FullQuarantine ==
  ASSUME NEW q \in Seq(Index), Distinct(q), Len(q) = NumServers
  PROVE  Elements(q) = Index
<1>1. q \in [1..NumServers -> Index] /\ DOMAIN q = 1..NumServers
  OBVIOUS
<1>2. q \in Injection(1..NumServers, Index)
  BY <1>1 DEF Distinct, Injection, IsInjective
<1>3. /\ IsFiniteSet(1..NumServers) /\ Cardinality(1..NumServers) = NumServers
      /\ IsFiniteSet(Index) /\ Cardinality(Index) = NumServers
  BY NumServersAssumption, FS_Interval DEF Index
<1>4. q \in Surjection(1..NumServers, Index)
  BY <1>2, <1>3, FS_Injection
<1>5. \A s \in Index : \E j \in DOMAIN q : q[j] = s
  BY <1>1, <1>4 DEF Surjection
<1>6. QED BY <1>1, <1>5 DEF Elements

\* Appending a server that is not in the quarantine.
LEMMA AppendDistinct ==
  ASSUME NEW q \in Seq(Index), Distinct(q), NEW s \in Index, s \notin Elements(q)
  PROVE  /\ Append(q, s) \in Seq(Index)
         /\ Distinct(Append(q, s))
         /\ Elements(Append(q, s)) = Elements(q) \cup {s}
<1>1. /\ Append(q, s) \in Seq(Index)
      /\ DOMAIN Append(q, s) = 1..(Len(q) + 1) /\ DOMAIN q = 1..Len(q)
      /\ \A j \in 1..Len(q) : Append(q, s)[j] = q[j]
      /\ Append(q, s)[Len(q) + 1] = s
      /\ Len(q) \in Nat
  OBVIOUS
<1>2. \A j \in DOMAIN q : q[j] # s
  BY DEF Elements
<1>3. Distinct(Append(q, s))
  BY <1>1, <1>2 DEF Distinct
<1>4. Elements(Append(q, s)) = Elements(q) \cup {s}
  <2>1. \A x \in Elements(Append(q, s)) : x \in Elements(q) \cup {s}
    BY <1>1 DEF Elements
  <2>2. \A x \in Elements(q) \cup {s} : x \in Elements(Append(q, s))
    BY <1>1 DEF Elements
  <2>3. QED BY <2>1, <2>2
<1>5. QED BY <1>1, <1>3, <1>4

\* erase(std::remove()) takes out that element and leaves the others.
LEMMA WithoutElement ==
  ASSUME NEW q \in Seq(Index), Distinct(q), NEW j \in DOMAIN q
  PROVE  /\ Without(q, j) \in Seq(Index)
         /\ Distinct(Without(q, j))
         /\ \A s \in Elements(q) : s # q[j] => s \in Elements(Without(q, j))
<1>1. Len(q) \in Nat /\ DOMAIN q = 1..Len(q) /\ j \in 1..Len(q)
      /\ \A n \in 1..Len(q) : q[n] \in Index
  OBVIOUS
<1> DEFINE w == Without(q, j)
<1>2. /\ DOMAIN w = 1..(Len(q) - 1)
      /\ \A n \in 1..(Len(q) - 1) : w[n] = (IF n < j THEN q[n] ELSE q[n + 1])
  BY DEF Without
<1>3. w \in [1..(Len(q) - 1) -> Index]
  BY <1>1 DEF Without
<1>4. w \in Seq(Index)
  BY <1>1, <1>3
<1> HIDE DEF w
<1>5. Distinct(w)
  BY <1>1, <1>2 DEF Distinct
<1>6. ASSUME NEW n \in 1..Len(q), q[n] # q[j] PROVE q[n] \in Elements(w)
  <2>1. CASE n < j
    <3>1. n \in DOMAIN w /\ w[n] = q[n]
      BY <1>1, <1>2, <2>1
    <3>2. QED BY <3>1 DEF Elements
  <2>2. CASE n > j
    <3>1. n - 1 \in DOMAIN w /\ w[n - 1] = q[n]
      BY <1>1, <1>2, <2>2
    <3>2. QED BY <3>1 DEF Elements
  <2>3. QED BY <1>1, <1>6, <2>1, <2>2
<1>7. \A s \in Elements(q) : s # q[j] => s \in Elements(w)
  BY <1>1, <1>6 DEF Elements
<1>8. QED BY <1>4, <1>5, <1>7 DEF w

\* What both step lemmas know of add_to_quarantine().
LEMMA AddToQuarantineGrows ==
  ASSUME TypeOK, Distinct(quarantined_), AddToQuarantine
  PROVE  /\ quarantined_' \in Seq(Index)
         /\ Distinct(quarantined_')
         /\ Elements(quarantined_) \subseteq Elements(quarantined_')
<1>1. CASE IsQuarantined(server_pos)
  BY <1>1 DEF AddToQuarantine, TypeOK
<1>2. CASE ~IsQuarantined(server_pos)
  <2>1. quarantined_' = Append(quarantined_, server_pos)
    BY <1>2 DEF AddToQuarantine
  <2>2. QED BY <1>2, <2>1, AppendDistinct DEF TypeOK, IsQuarantined
<1>3. QED BY <1>1, <1>2

\* Every step of either thread keeps the types.
LEMMA TypeStep == IInv /\ [Next]_vars => TypeOK'
<1> SUFFICES ASSUME IInv, [Next]_vars PROVE TypeOK'
  OBVIOUS
<1> USE NumServersAssumption DEF IInv, TypeOK, CallStates, MgrStates, callVars, mgrVars
<1>1. CASE /\ \E s \in Index : ServerChanges(s)
           /\ UNCHANGED <<callVars, quarantined_, stopping_, mgrVars>>
  BY <1>1 DEF ServerChanges
<1>2. CASE Call BY <1>2 DEF Call
<1>3. CASE GetNextServer BY <1>3 DEF GetNextServer, Advance, Index
<1>4. CASE OutOfServers BY <1>4 DEF OutOfServers
<1>5. CASE CheckQuarantined
  <2>1. i' \in 0..NumServers /\ bad' \subseteq Index /\ call' \in CallStates
    <3>1. CASE IsQuarantined(server_pos)
      BY <1>5, <3>1 DEF CheckQuarantined, Walk
    <3>2. CASE ~IsQuarantined(server_pos)
      BY <1>5, <3>2 DEF CheckQuarantined
    <3>3. QED BY <3>1, <3>2
  <2>2. QED BY <1>5, <2>1 DEF CheckQuarantined
<1>6. CASE TrySucceeds BY <1>6 DEF TrySucceeds
<1>7. CASE TryFails BY <1>7 DEF TryFails
<1>8. CASE AddToQuarantine
  <2>1. quarantined_' \in Seq(Index)
    BY <1>8, AddToQuarantineGrows DEF Quarantine
  <2>2. Elements(quarantined_') \subseteq Index
    BY <2>1 DEF Elements
  <2>3. QED BY <1>8, <2>1, <2>2 DEF AddToQuarantine, Walk
<1>9. CASE TryOutOfDescriptors BY <1>9 DEF TryOutOfDescriptors
<1>10. CASE Start BY <1>10 DEF Start
<1>11. CASE ManagerLoop BY <1>11 DEF ManagerLoop
<1>12. CASE ManagerWakes BY <1>12 DEF ManagerWakes
<1>13. CASE CopyQuarantine BY <1>13 DEF CopyQuarantine
<1>14. CASE Probe
  <2>1. << >> \in Seq(Index)
    OBVIOUS
  <2>2. cpy' \in Seq(Index) /\ k' \in Nat \ {0} /\ mgr' \in MgrStates
    <3>1. CASE k > Len(cpy) \/ stopping_
      <4>1. cpy' = << >> /\ k' = 1 /\ mgr' = "sleep"
        BY <1>14, <3>1 DEF Probe
      <4>2. 1 \in Nat \ {0} /\ "sleep" \in MgrStates
        OBVIOUS
      <4>3. QED BY <2>1, <4>1, <4>2, Zenon
    <3>2. CASE ~(k > Len(cpy) \/ stopping_)
      BY <1>14, <3>2 DEF Probe
    <3>3. QED BY <3>1, <3>2
  <2>3. QED BY <1>14, <2>2 DEF Probe
<1>15. CASE Unquarantine
  <2>1. PICK j \in DOMAIN quarantined_ : quarantined_' = Without(quarantined_, j)
    BY <1>15 DEF Unquarantine
  <2>2. quarantined_' \in Seq(Index)
    BY <2>1, WithoutElement DEF Quarantine
  <2>3. QED BY <1>15, <2>2 DEF Unquarantine
<1>16. CASE ManagerSleeps BY <1>16 DEF ManagerSleeps
<1>17. CASE Stop BY <1>17 DEF Stop
<1>18. CASE UNCHANGED vars BY <1>18 DEF vars
<1>19. QED
  BY <1>1, <1>2, <1>3, <1>4, <1>5, <1>6, <1>7, <1>8, <1>9, <1>10, <1>11, <1>12,
     <1>13, <1>14, <1>15, <1>16, <1>17, <1>18 DEF Next, Acceptor, Manager

\* The acceptor adds to the quarantine while the manager works on its copy; the
\* manager takes out what it has just looked at.
LEMMA QuarantineStep == TypeOK /\ Quarantine /\ [Next]_vars => Quarantine'
<1> SUFFICES ASSUME TypeOK, Quarantine, [Next]_vars PROVE Quarantine'
  OBVIOUS
<1> USE DEF callVars, mgrVars
<1>1. CASE UNCHANGED <<quarantined_, mgrVars>>
  BY <1>1 DEF Quarantine, Distinct, Elements
<1>2. CASE AddToQuarantine
  BY <1>2, AddToQuarantineGrows DEF AddToQuarantine, Quarantine
<1>3. CASE \/ Start \/ ManagerLoop \/ ManagerWakes \/ ManagerSleeps
  BY <1>3 DEF Start, ManagerLoop, ManagerWakes, ManagerSleeps, Quarantine
<1>4. CASE CopyQuarantine
  <2>1. \A j \in DOMAIN quarantined_ : quarantined_[j] \in Elements(quarantined_)
    BY DEF Elements
  <2>2. QED BY <1>4, <2>1 DEF CopyQuarantine, Quarantine
<1>5. CASE Probe
  <2>1. Distinct(<< >>)
    BY DEF Distinct
  <2>2. CASE k > Len(cpy) \/ stopping_
    BY <1>5, <2>1, <2>2 DEF Probe, Quarantine
  <2>3. CASE ~(k > Len(cpy) \/ stopping_)
    BY <1>5, <2>3 DEF Probe, Quarantine, TypeOK
  <2>4. QED BY <2>2, <2>3
<1>6. CASE Unquarantine
  <2>1. PICK j \in DOMAIN quarantined_ :
          /\ quarantined_[j] = cpy[k]
          /\ quarantined_' = Without(quarantined_, j)
    BY <1>6 DEF Unquarantine
  <2>2. k \in DOMAIN cpy /\ k \in Nat /\ DOMAIN cpy \subseteq Nat
    BY <1>6 DEF Unquarantine, Quarantine, TypeOK
  <2>3. Distinct(quarantined_')
        /\ \A s \in Elements(quarantined_) : s # cpy[k] => s \in Elements(quarantined_')
    BY <2>1, WithoutElement DEF TypeOK, Quarantine
  <2>4. ASSUME NEW n \in DOMAIN cpy, n >= k + 1 PROVE cpy[n] \in Elements(quarantined_')
    <3>1. cpy[n] # cpy[k]
      BY <2>2, <2>4 DEF Quarantine, Distinct
    <3>2. cpy[n] \in Elements(quarantined_)
      BY <1>6, <2>2, <2>4 DEF Unquarantine, Quarantine
    <3>3. QED BY <2>3, <3>1, <3>2
  <2>5. QED BY <1>6, <2>3, <2>4 DEF Unquarantine, Quarantine
<1>7. QED
  BY <1>1, <1>2, <1>3, <1>4, <1>5, <1>6
  DEF Next, Acceptor, Manager, ServerChanges, Call, GetNextServer, OutOfServers,
      CheckQuarantined, TrySucceeds, TryFails, TryOutOfDescriptors, Stop, vars

\* The position moves on once for every server that the call gives up on.
LEMMA WalkStep == IInv /\ [Next]_vars => Walk'
<1> SUFFICES ASSUME IInv, [Next]_vars PROVE Walk'
  OBVIOUS
<1> USE NumServersAssumption DEF callVars, mgrVars
<1>1. CASE UNCHANGED callVars
  BY <1>1 DEF IInv, Walk, Behind, Advance, NonePassedOver
<1>2. CASE Call
  <2>1. Behind(current_pos_, 0, {})
    BY DEF IInv, TypeOK, Behind, Index
  <2>2. QED BY <1>2, <2>1 DEF Call, Walk, NonePassedOver
<1>3. CASE GetNextServer
  BY <1>3 DEF GetNextServer, IInv, TypeOK, Walk, Advance, NonePassedOver
<1>4. CASE OutOfServers
  BY <1>4, BehindAll DEF OutOfServers, IInv, TypeOK, Walk, NonePassedOver
<1>5. CASE CheckQuarantined
  <2>1. i \in 0..(NumServers - 1) /\ server_pos \in Index /\ current_pos_ = Advance(server_pos)
        /\ Behind(server_pos, i, bad)
    BY <1>5 DEF CheckQuarantined, IInv, TypeOK, Walk
  <2>2. Behind(current_pos_, i + 1, bad \cup {server_pos})
    BY <2>1, BehindAdvance
  <2>3. CASE IsQuarantined(server_pos)
    <3>1. call' = "next" /\ i' = i + 1 /\ bad' = bad \cup {server_pos}
          /\ current_pos_' = current_pos_
      BY <1>5, <2>3 DEF CheckQuarantined
    <3>2. Behind(current_pos_, i, bad)'
      BY <2>2, <3>1 DEF Behind
    <3>3. QED BY <3>1, <3>2 DEF Walk, NonePassedOver
  <2>4. CASE ~IsQuarantined(server_pos)
    <3>1. call' = "try" /\ UNCHANGED <<i, bad, current_pos_, server_pos>>
      BY <1>5, <2>4 DEF CheckQuarantined
    <3>2. Behind(server_pos, i, bad)' /\ (current_pos_ = Advance(server_pos))'
      BY <2>1, <3>1 DEF Behind, Advance
    <3>3. QED BY <2>1, <3>1, <3>2 DEF Walk, NonePassedOver
  <2>5. QED BY <2>3, <2>4
<1>6. CASE TrySucceeds BY <1>6 DEF TrySucceeds, Walk, NonePassedOver
<1>7. CASE TryFails
  <2>1. Behind(server_pos, i, bad \cup {server_pos})
    BY <1>7 DEF TryFails, IInv, Walk, Behind
  <2>2. QED BY <1>7, <2>1 DEF TryFails, IInv, Walk, NonePassedOver
<1>8. CASE AddToQuarantine
  <2>1. quarantined_' \in Seq(Index) /\ Distinct(quarantined_')
    BY <1>8, AddToQuarantineGrows DEF IInv, Quarantine
  <2>2. CASE Len(quarantined_') = NumServers
    <3>1. bad' = Index
      BY <1>8, <2>1, <2>2, FullQuarantine DEF AddToQuarantine, IInv, TypeOK
    <3>2. QED BY <1>8, <2>2, <3>1 DEF AddToQuarantine, Walk, NonePassedOver
  <2>3. CASE Len(quarantined_') # NumServers
    <3>1. i \in 0..(NumServers - 1) /\ server_pos \in Index /\ current_pos_ = Advance(server_pos)
          /\ Behind(server_pos, i, bad) /\ server_pos \in bad
      BY <1>8 DEF AddToQuarantine, IInv, TypeOK, Walk
    <3>2. Behind(current_pos_, i + 1, bad \cup {server_pos}) /\ bad \cup {server_pos} = bad
      BY <3>1, BehindAdvance
    <3>3. QED BY <1>8, <2>3, <3>2 DEF AddToQuarantine, Walk, NonePassedOver
  <2>4. QED BY <2>2, <2>3
<1>9. CASE TryOutOfDescriptors BY <1>9 DEF TryOutOfDescriptors, Walk, NonePassedOver
<1>10. QED
  BY <1>1, <1>2, <1>3, <1>4, <1>5, <1>6, <1>7, <1>8, <1>9
  DEF Next, Acceptor, Manager, ServerChanges, Start, ManagerLoop, ManagerWakes,
      CopyQuarantine, Probe, Unquarantine, ManagerSleeps, Stop, vars

\* A destination that was not asked yet, its manager thread not started.
LEMMA Initially == Init => IInv
<1> SUFFICES ASSUME Init PROVE IInv
  OBVIOUS
<1>1. TypeOK
  <2>1. 0 \in Index /\ 0 \in 0..NumServers /\ 1 \in Nat \ {0}
    BY NumServersAssumption DEF Index
  <2>2. << >> \in Seq(Index)
    OBVIOUS
  <2>3. {} \subseteq Index /\ FALSE \in BOOLEAN
    OBVIOUS
  <2>4. "idle" \in CallStates /\ "unborn" \in MgrStates
    BY DEF CallStates, MgrStates
  <2>5. QED BY <2>1, <2>2, <2>3, <2>4, Zenon DEF Init, TypeOK
<1>2. Quarantine /\ Walk
  BY DEF Init, Quarantine, Walk, Distinct, NonePassedOver
<1>3. QED BY <1>1, <1>2 DEF IInv

\* The quarantine and the walk stay as described, whatever the interleaving of
\* the acceptor and the manager thread.
LEMMA Inductive == IInv /\ [Next]_vars => IInv'
BY TypeStep, QuarantineStep, WalkStep DEF IInv

(***************************************************************************)
(* DestFirstAvailable and DestNextAvailable.  What is behind the position  *)
(* has failed: for DestNextAvailable ever, for DestFirstAvailable in this  *)
(* call.                                                                   *)
(***************************************************************************)

\* DestFirstAvailable: the i servers before the position failed in this call.
Round ==
  strategy = "first-available" =>
    /\ current_pos_ \in Index
    /\ call = "try" => Behind(current_pos_, i, bad)
    /\ call = "exhausted" => bad = Index

\* DestNextAvailable: whatever failed is before the position, or, within a
\* call, before the loop counter that will become the position.
Passed ==
  strategy = "next-available" =>
    /\ call = "try" => \A s \in abandoned : s < i
    /\ call # "try" => \A s \in abandoned : s < current_pos_
    /\ call = "served" => served = current_pos_

\* The inductive invariant.
OrderedInv == OrderedTypeOK /\ Round /\ Passed

\* An ordered destination that was not asked yet.
LEMMA OrderedInitially == OrderedInit => OrderedInv
BY NumServersAssumption DEF OrderedInit, OrderedInv, OrderedTypeOK, Round, Passed, Index

\* Every step of a call and every change of a server keeps the invariant.
LEMMA OrderedInductive == OrderedInv /\ [OrderedNext]_orderedVars => OrderedInv'
<1> SUFFICES ASSUME OrderedInv, [OrderedNext]_orderedVars PROVE OrderedInv'
  OBVIOUS
<1> USE NumServersAssumption DEF OrderedInv, OrderedTypeOK
<1>1. CASE /\ \E s \in Index : ServerChanges(s)
           /\ UNCHANGED <<strategy, current_pos_, call, i, served, bad, abandoned>>
  BY <1>1 DEF ServerChanges, Round, Passed, Behind
<1>2. CASE OrderedCall
  <2>1. Behind(current_pos_', i', bad') \/ strategy # "first-available"
    BY <1>2 DEF OrderedCall, Behind, Round, Index
  <2>2. QED BY <1>2, <2>1 DEF OrderedCall, Round, Passed
<1>3. CASE Connected
  <2>1. Target \in Index
    BY <1>3 DEF Connected, Target, Round, Index
  <2>2. OrderedTypeOK' /\ Round'
    BY <1>3, <2>1 DEF Connected, Round, Index
  <2>3. Passed'
    BY <1>3 DEF Connected, Passed, Target
  <2>4. QED BY <2>2, <2>3
<1>4. CASE Refused
  <2>1. Target \in Index
    BY <1>4 DEF Refused, Target, Round, Index
  <2>2. CASE strategy = "first-available"
    <3>1. i \in 0..(NumServers - 1) /\ Target = current_pos_ /\ current_pos_ \in Index
      BY <1>4, <2>2 DEF Refused, Target, Round
    <3>2. /\ Advance(current_pos_) \in Index
          /\ Behind(Advance(current_pos_), i + 1, bad \cup {current_pos_})
      BY <1>4, <2>2, <3>1, BehindAdvance DEF Refused, Round
    <3>3. QED BY <1>4, <2>1, <2>2, <3>1, <3>2 DEF Refused, Round, Passed, Index
  <2>3. CASE strategy = "next-available"
    BY <1>4, <2>1, <2>3 DEF Refused, Target, Round, Passed, Index
  <2>4. QED BY <2>2, <2>3
<1>5. CASE GiveUp
  <2>1. CASE strategy = "first-available"
    <3>1. bad = Index
      BY <1>5, <2>1, BehindAll DEF GiveUp, Round
    <3>2. QED BY <1>5, <2>1, <3>1 DEF GiveUp, Round, Passed
  <2>2. CASE strategy = "next-available"
    BY <1>5, <2>2 DEF GiveUp, Round, Passed, Index
  <2>3. QED BY <2>1, <2>2
<1>6. CASE UNCHANGED orderedVars
  BY <1>6 DEF orderedVars, Round, Passed, Behind
<1>7. QED BY <1>1, <1>2, <1>3, <1>4, <1>5, <1>6 DEF OrderedNext

(***************************************************************************)
(* The three strategies together.                                          *)
(***************************************************************************)

\* The invariant of the strategy; without a manager thread the quarantine is
\* empty.
StaticInv ==
  IF strategy = "round-robin" THEN IInv
  ELSE OrderedInv /\ mgr = "unborn" /\ quarantined_ = << >>

\* A destination of either class keeps its invariant.
LEMMA StaticInvariance == StaticSpec => []StaticInv
<1>1. StaticInit => StaticInv
  <2>1. OrderedInit => strategy # "round-robin"
    BY DEF OrderedInit
  <2>2. QED BY <2>1, Initially, OrderedInitially DEF StaticInit, StaticInv
<1>2. StaticInv /\ [StaticNext]_staticVars => StaticInv'
  <2>1. SUFFICES ASSUME StaticInv, [StaticNext]_staticVars PROVE StaticInv'
    OBVIOUS
  <2>2. CASE strategy = "round-robin" /\ Next /\ UNCHANGED <<strategy, served, abandoned>>
    BY <2>1, <2>2, Inductive DEF StaticInv
  <2>3. CASE strategy # "round-robin" /\ OrderedNext /\ UNCHANGED quarantineVars
    <3>1. UNCHANGED strategy
      BY <2>3 DEF OrderedNext, OrderedCall, Connected, Refused, GiveUp
    <3>2. OrderedInv'
      BY <2>1, <2>3, OrderedInductive DEF StaticInv
    <3>3. QED BY <2>1, <2>3, <3>1, <3>2 DEF StaticInv, quarantineVars, mgrVars
  <2>4. CASE UNCHANGED staticVars
    <3>1. UNCHANGED vars /\ UNCHANGED orderedVars
      BY <2>4 DEF staticVars
    <3>2. UNCHANGED <<strategy, mgr, quarantined_>>
      BY <3>1 DEF vars, orderedVars, mgrVars
    <3>3. QED BY <2>1, <3>1, <3>2, Inductive, OrderedInductive DEF StaticInv
  <2>5. QED BY <2>1, <2>2, <2>3, <2>4 DEF StaticNext
<1>3. QED BY <1>1, <1>2, PTL DEF StaticSpec

\* cleanup_quarantine(): the element it erases is there, for any number of
\* servers and whatever the acceptor adds between the copy and the erase; and no
\* server is in the quarantine twice.
THEOREM CopyStillQuarantinedAlways == StaticSpec => []CopyStillQuarantined
<1>1. StaticInv => CopyStillQuarantined
  BY DEF StaticInv, IInv, Quarantine, Distinct, CopyStillQuarantined
<1>2. QED BY StaticInvariance, <1>1, PTL

\* DestRoundRobin::get_server_socket(): it gives up only when every destination
\* was quarantined or refused a connection during the call.
THEOREM NonePassedOverAlways == StaticSpec => []NonePassedOver
<1>1. StaticInv => NonePassedOver
  BY DEF StaticInv, IInv, Walk, OrderedInv, OrderedTypeOK, NonePassedOver
<1>2. QED BY StaticInvariance, <1>1, PTL

\* dest_next_available.cc and dest_first_available.cc, for any number of
\* destinations: DestNextAvailable never hands out a server that failed before,
\* and DestFirstAvailable gives up only after every server failed in this call.
THEOREM FailedNeverReturnsAlways == StaticSpec => []FailedNeverReturns
<1>1. OrderedInv => FailedNeverReturns
  BY NumServersAssumption
  DEF OrderedInv, OrderedTypeOK, Round, Passed, FailedNeverReturns, Index
<1>2. StaticInv => FailedNeverReturns
  BY <1>1 DEF StaticInv, FailedNeverReturns
<1>3. QED BY StaticInvariance, <1>2, PTL
=============================================================================
