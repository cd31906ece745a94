----------------------- MODULE DestMetadataCacheProofs -----------------------
(***************************************************************************)
(* Proofs about the metadata-cache destination for any number of instances:*)
(* the position fits the list and takes every place in turn, connections   *)
(* are not ended by the table they were made from and are where the        *)
(* options want them.                                                      *)
(***************************************************************************)
EXTENDS DestMetadataCache, FiniteSetTheorems, TLAPS

\* What the constructor leaves in the members.
Configs ==
  [role : {"primary", "secondary", "primary_and_secondary"},
   strategy : {"first-available", "round-robin", "round-robin-with-fallback"},
   promoted : BOOLEAN, unavailable : BOOLEAN]

\* first-available never moves the position, and so stays at the first place.
Position ==
  /\ current_pos_ \in Nat
  /\ next_up \in Nat
  /\ size \in Nat
  /\ config.strategy = "first-available" => current_pos_ = 0
  /\ IndexValid

\* The index that was chosen d calls ago when the position is pos now and the
\* list has n places.
Earlier(pos, n, d) == IF pos >= d THEN pos - d ELSE (pos + n) - d

\* The choices s, of which the last left the position pos, are consecutive
\* places of a list of length n.
InTurn(s, pos, n) ==
  /\ pos < n
  /\ Len(s) <= n
  /\ \A k \in 1 .. Len(s) : s[k] = Earlier(pos, n, (Len(s) + 1) - k)

\* The last choices from the present list are consecutive places of it.
Turns ==
  /\ recent \in Seq(Nat)
  /\ config.strategy # "first-available" /\ recent # <<>> =>
       InTurn(recent, current_pos_, Cardinality(Available(mode, TRUE)))

\* The members and the promise come from the same accepted options.
Matching ==
  \E o \in Options : Accepted(o) /\ config = Configured(o) /\ asked = AskedFor(o)

\* Connections and table: what a call chose from the present table it offers,
\* and so does what was made from it; a section that is notified of the table
\* has the connections it may keep, apart from the late ones.
Linked ==
  /\ ha \subseteq Instances
  /\ ~stale => chosen \subseteq Available(mode, TRUE)
  /\ fresh \subseteq Available(mode, TRUE)
  /\ FreshAreKept
  /\ md_reachable /\ ~pending => conns \subseteq Available(mode, FALSE)

\* The inductive invariant.
IInv ==
  /\ TypeOK
  /\ config \in Configs
  /\ Matching
  /\ Position
  /\ Turns
  /\ Linked

\* get_available() returns finitely many instances.
LEMMA AvailableFinite ==
  ASSUME ha \subseteq Instances, NEW m, NEW b
  PROVE  /\ IsFiniteSet(Available(m, b))
         /\ Cardinality(Available(m, b)) \in Nat
         /\ Cardinality(Available(m, b)) <= NumInstances
         /\ Available(m, b) # {} => Cardinality(Available(m, b)) > 0
<1>1. IsFiniteSet(Instances) /\ Cardinality(Instances) = NumInstances
  BY InstancesAssumption, FS_Interval DEF Instances
<1>2. Available(m, b) \in SUBSET Instances
  BY DEF Available
<1>3. IsFiniteSet(Available(m, b)) /\ Cardinality(Available(m, b)) <= NumInstances
  BY <1>1, <1>2, FS_Subset
<1>4. Cardinality(Available(m, b)) \in Nat
  BY <1>3, FS_CardinalityType
<1>5. Available(m, b) # {} => Cardinality(Available(m, b)) > 0
  BY <1>3, <1>4, FS_EmptySet
<1>6. QED
  BY <1>3, <1>4, <1>5

\* get_next_server() returns a place of a list that is not empty and leaves a
\* position that first-available does not move.
LEMMA NextServer ==
  ASSUME Position, config \in Configs, NEW n \in Nat, n > 0
  PROVE  /\ NextUp(n) \in Nat
         /\ NextUp(n) < n
         /\ NextPos(n) \in Nat
         /\ NextPos(n) < n
         /\ config.strategy = "first-available" => NextPos(n) = 0
  BY DEF Position, NextUp, NextPos, Configs

\* What is available for new connections is available for existing ones.
LEMMA NewWithinExisting ==
  ASSUME NEW m
  PROVE  Available(m, TRUE) \subseteq Available(m, FALSE)
  BY DEF Available, PrimaryFallback, KeepsPromoted

\* What get_available() returns suits what the options asked for.
LEMMA AvailableRole ==
  ASSUME Matching, NEW m, NEW b \in BOOLEAN, NEW i \in Available(m, b)
  PROVE  \/ m[i] \in asked.modes
         \/ /\ m[i] = "RW"
            /\ \/ ~b /\ asked.stay
               \/ asked.fallback /\ \A j \in Instances : m[j] # "RO"
<1>1. PICK o \in Options : Accepted(o) /\ config = Configured(o) /\ asked = AskedFor(o)
  BY DEF Matching
<1>2. /\ config.role = Role(o) /\ config.strategy = Strategy(o)
      /\ config.promoted <=> o.disconnect_on_promoted_to_primary = "yes"
      /\ asked.fallback <=> o.strategy = "round-robin-with-fallback"
      /\ asked.stay <=> o.role = "secondary" /\ o.disconnect_on_promoted_to_primary # "yes"
  BY <1>1 DEF Configured, AskedFor
<1>3. /\ o.role = "primary" => asked.modes = {"RW"} /\ Role(o) = "primary"
      /\ o.role = "secondary" /\ o.allow_primary_reads # "yes" =>
           asked.modes = {"RO"} /\ Role(o) = "secondary"
      /\ o.role = "secondary" /\ o.allow_primary_reads = "yes" => asked.modes = {"RW", "RO"}
      /\ o.role = "primary_and_secondary" =>
           asked.modes = {"RW", "RO"} /\ Role(o) = "primary_and_secondary"
  BY <1>1 DEF AskedFor, Accepted, Role, Options
<1>4. m[i] \in {"RW", "RO"}
  BY DEF Available
<1>5. CASE o.role = "primary"
  BY <1>2, <1>3, <1>5 DEF Available
<1>6. CASE o.role = "secondary" /\ o.allow_primary_reads # "yes"
  <2>1. m[i] = "RO" \/ (m[i] = "RW" /\ PrimaryFallback(m, b))
    BY <1>2, <1>3, <1>6 DEF Available
  <2>2. PrimaryFallback(m, b) =>
          \/ ~b /\ asked.stay
          \/ asked.fallback /\ \A j \in Instances : m[j] # "RO"
    BY <1>2, <1>3, <1>6 DEF PrimaryFallback, KeepsPromoted, Strategy
  <2>3. QED
    BY <1>3, <1>6, <2>1, <2>2
<1>7. CASE o.role = "secondary" /\ o.allow_primary_reads = "yes"
  BY <1>3, <1>4, <1>7
<1>8. CASE o.role = "primary_and_secondary"
  BY <1>3, <1>4, <1>8
<1>9. QED
  BY <1>5, <1>6, <1>7, <1>8 DEF Options

\* The constructor establishes the invariant for every accepted configuration.
LEMMA InitIInv == Init => IInv
<1> SUFFICES ASSUME Init PROVE IInv
  OBVIOUS
<1>1. PICK o \in Options : Accepted(o) /\ config = Configured(o) /\ asked = AskedFor(o)
  BY DEF Init
<1>2. config \in Configs
  BY <1>1 DEF Configured, Configs, Options, Accepted, Role, Strategy
<1>3. Position
  BY DEF Init, Position, IndexValid
<1>4. Linked
  BY DEF Init, Linked, FreshAreKept
<1>5. Turns
  BY DEF Init, Turns
<1>6. TypeOK
  <2>1. mode \in [Instances -> Modes]
    BY DEF Init, Modes
  <2>2. 0 \in 0 .. NumInstances - 1 /\ 0 \in 0 .. NumInstances
    BY InstancesAssumption
  <2>3. config.strategy \in {"first-available", "round-robin", "round-robin-with-fallback"}
    BY <1>2 DEF Configs
  <2>4. <<>> \in Seq(Nat)
    OBVIOUS
  <2>5. QED
    BY <2>1, <2>2, <2>3, <2>4 DEF Init, TypeOK
<1>7. Matching
  BY DEF Init, Matching
<1>8. QED
  BY <1>2, <1>3, <1>4, <1>5, <1>6, <1>7 DEF IInv

\* A call moves the position whether its connect succeeds or not.
LEMMA PositionKept == IInv /\ [Next]_vars => Position'
<1> SUFFICES ASSUME IInv, [Next]_vars PROVE Position'
  OBVIOUS
<1>1. ASSUME NEW n \in Nat, n > 0, next_up' = NextUp(n), size' = n,
             current_pos_' = NextPos(n), config' = config
      PROVE  Position'
  <2>1. NextUp(n) \in Nat /\ NextUp(n) < n /\ NextPos(n) \in Nat
    BY <1>1, NextServer DEF IInv
  <2>2. config.strategy = "first-available" => NextPos(n) = 0
    BY <1>1, NextServer DEF IInv
  <2>3. QED
    BY <1>1, <2>1, <2>2 DEF Position, IndexValid
<1>2. CASE GetNextServer
  <2> DEFINE n == Cardinality(Available(mode, TRUE))
  <2>1. n \in Nat /\ n > 0
    BY <1>2, AvailableFinite DEF GetNextServer, IInv, Linked
  <2> HIDE DEF n
  <2>2. /\ next_up' = NextUp(n) /\ size' = n
        /\ current_pos_' = NextPos(n) /\ config' = config
    BY <1>2 DEF GetNextServer, optionVars, n
  <2>3. QED
    BY <1>1, <2>1, <2>2
<1>3. ASSUME UNCHANGED <<config, current_pos_, next_up, size>>
      PROVE  Position'
  BY <1>3 DEF IInv, Position, IndexValid
<1>4. QED
  BY <1>2, <1>3
  DEF Next, vars, optionVars, callVars, Connected, ConnectFails, ConnectionEnds,
      TableChanges, OnInstancesChange

\* Connections come from the list for new ones and stay while in the other.
LEMMA LinkedKept == IInv /\ [Next]_vars => Linked'
<1> SUFFICES ASSUME IInv, [Next]_vars PROVE Linked'
  OBVIOUS
<1>1. Linked /\ Available(mode, TRUE) \subseteq Available(mode, FALSE)
  BY NewWithinExisting DEF IInv
<1>2. ASSUME UNCHANGED <<config, ha, mode>>
      PROVE  /\ Available(mode, TRUE)' = Available(mode, TRUE)
             /\ Available(mode, FALSE)' = Available(mode, FALSE)
  BY <1>2 DEF Available, PrimaryFallback, KeepsPromoted
<1> USE DEF Linked, FreshAreKept, optionVars, tableVars, callVars, connVars
<1>3. CASE GetNextServer
  <2>1. chosen' \subseteq Available(mode, TRUE)
    BY <1>3 DEF GetNextServer, Place
  <2>2. QED
    BY <1>1, <1>2, <1>3, <2>1 DEF GetNextServer
<1>4. CASE Connected
  <2>1. UNCHANGED <<config, ha, mode, md_reachable, pending>> /\ chosen' = {}
    BY <1>4 DEF Connected
  <2>2. CASE stale /\ ~pending
    <3>1. UNCHANGED <<conns, fresh>>
      BY <1>4, <2>2 DEF Connected
    <3>2. QED
      BY <1>1, <1>2, <2>1, <3>1
  <2>3. CASE stale /\ pending
    <3>1. conns' = conns \cup chosen /\ fresh' = fresh
      BY <1>4, <2>3 DEF Connected
    <3>2. QED
      BY <1>1, <1>2, <2>1, <2>3, <3>1
  <2>4. CASE ~stale
    <3>1. conns' = conns \cup chosen /\ fresh' = fresh \cup chosen
      BY <1>4, <2>4 DEF Connected
    <3>2. chosen \subseteq Available(mode, TRUE)
      BY <1>1, <2>4
    <3>3. QED
      BY <1>1, <1>2, <2>1, <3>1, <3>2
  <2>5. QED
    BY <2>2, <2>3, <2>4
<1>5. CASE ConnectFails
  BY <1>1, <1>2, <1>5 DEF ConnectFails
<1>6. ASSUME NEW i \in Instances, ConnectionEnds(i)
      PROVE  Linked'
  BY <1>1, <1>2, <1>6 DEF ConnectionEnds
<1>7. ASSUME NEW m \in [Instances -> Modes], NEW reachable \in BOOLEAN,
             TableChanges(m, reachable)
      PROVE  Linked'
  <2>1. /\ ha' = ha /\ pending' = TRUE /\ fresh' = {} /\ chosen' = chosen
        /\ stale' = (chosen # {})
    BY <1>7 DEF TableChanges
  <2>2. QED
    BY <1>1, <2>1
<1>8. CASE OnInstancesChange
  <2>1. UNCHANGED <<config, ha, mode, md_reachable, chosen, stale, fresh>>
    BY <1>8 DEF OnInstancesChange
  <2>2. fresh \subseteq conns'
    BY <1>1, <1>8 DEF OnInstancesChange
  <2>3. md_reachable => conns' \subseteq Available(mode, FALSE)
    BY <1>8 DEF OnInstancesChange
  <2>4. QED
    BY <1>1, <1>2, <2>1, <2>2, <2>3
<1>9. CASE UNCHANGED vars
  BY <1>1, <1>2, <1>9 DEF vars
<1>10. QED
  BY <1>3, <1>4, <1>5, <1>6, <1>7, <1>8, <1>9 DEF Next

\* The last n choices after another one.
Window(s, n, up) == Append(IF Len(s) = n THEN Tail(s) ELSE s, up)

\* t ends with up, before which stand the last choices of s.
Extends(t, s, n, up) ==
  /\ t \in Seq(Nat)
  /\ Len(t) \in 1 .. n
  /\ Len(t) <= Len(s) + 1
  /\ t[Len(t)] = up
  /\ \A k \in 1 .. Len(t) - 1 : t[k] = s[(k + 1 + Len(s)) - Len(t)]

\* Forgetting the oldest of n choices and appending another one.
LEMMA Shift ==
  ASSUME NEW n \in Nat, n > 0, NEW s \in Seq(Nat), NEW up \in Nat,
         Len(s) <= n, NEW t, t = Window(s, n, up)
  PROVE  Extends(t, s, n, up)
<1>1. CASE Len(s) = n
  <2> DEFINE r == Tail(s)
  <2>1. /\ r \in Seq(Nat) /\ Len(r) = n - 1
        /\ \A k \in 1 .. n - 1 : r[k] = s[k + 1]
    BY <1>1
  <2> HIDE DEF r
  <2>2. /\ Append(r, up) \in Seq(Nat) /\ Len(Append(r, up)) = n
        /\ Append(r, up)[n] = up
        /\ \A k \in 1 .. n - 1 : Append(r, up)[k] = s[k + 1]
    BY <2>1
  <2>3. t = Append(r, up)
    BY <1>1 DEF r, Window
  <2>4. \A k \in 1 .. n - 1 : (k + 1 + Len(s)) - n = k + 1
    BY <1>1
  <2>5. t \in Seq(Nat) /\ Len(t) = n /\ t[n] = up
    BY <2>2, <2>3
  <2>6. \A k \in 1 .. n - 1 : t[k] = s[(k + 1 + Len(s)) - n]
    BY <2>2, <2>3, <2>4
  <2>7. QED
    BY <1>1, <2>5, <2>6 DEF Extends
<1>2. CASE Len(s) # n
  <2>1. /\ Append(s, up) \in Seq(Nat) /\ Len(Append(s, up)) = Len(s) + 1
        /\ Append(s, up)[Len(s) + 1] = up
        /\ \A k \in 1 .. Len(s) : Append(s, up)[k] = s[k]
    OBVIOUS
  <2>2. t = Append(s, up)
    BY <1>2 DEF Window
  <2>3. Len(t) = Len(s) + 1 /\ Len(s) \in 0 .. n - 1
    BY <1>2, <2>1, <2>2
  <2>4. \A k \in 1 .. Len(t) - 1 : (k + 1 + Len(s)) - Len(t) = k /\ k \in 1 .. Len(s)
    BY <2>3
  <2>5. \A k \in 1 .. Len(t) - 1 : t[k] = s[(k + 1 + Len(s)) - Len(t)]
    BY <2>1, <2>2, <2>4
  <2>6. t \in Seq(Nat) /\ t[Len(t)] = up
    BY <2>1, <2>2
  <2>7. QED
    BY <2>3, <2>5, <2>6 DEF Extends
<1>3. QED
  BY <1>1, <1>2

\* One call appends the place after the last one.
LEMMA NextTurn ==
  ASSUME NEW n \in Nat, n > 0, NEW s \in Seq(Nat), NEW pos \in Nat,
         NEW up \in Nat, up < n, NEW t, Extends(t, s, n, up),
         s # <<>> => InTurn(s, pos, n) /\ up = pos
  PROVE  InTurn(t, IF up + 1 >= n THEN 0 ELSE up + 1, n)
<1> DEFINE pos2 == IF up + 1 >= n THEN 0 ELSE up + 1
<1>1. pos2 \in Nat /\ pos2 < n
  OBVIOUS
<1>2. Earlier(pos2, n, 1) = up
  BY DEF Earlier
<1>3. \A d \in 1 .. n - 1 : Earlier(pos2, n, d + 1) = Earlier(up, n, d)
  BY DEF Earlier
<1> HIDE DEF pos2
<1> USE DEF Extends
<1>4. ASSUME NEW k \in 1 .. Len(t)
      PROVE  t[k] = Earlier(pos2, n, (Len(t) + 1) - k)
  <2>1. CASE k = Len(t)
    <3>1. (Len(t) + 1) - k = 1
      BY <2>1
    <3>2. QED
      BY <1>2, <2>1, <3>1
  <2>2. CASE k # Len(t)
    <3> DEFINE j == (k + 1 + Len(s)) - Len(t)
               d == Len(t) - k
    <3>1. /\ k \in 1 .. Len(t) - 1 /\ d \in 1 .. n - 1
          /\ (Len(t) + 1) - k = d + 1 /\ (Len(s) + 1) - j = d
      BY <2>2
    <3>2. j \in 1 .. Len(s) /\ s # <<>>
      <4>1. Len(s) \in Nat /\ j <= Len(s) /\ j \in Int
        BY <3>1
      <4>2. j >= 1
        BY <3>1
      <4>3. QED
        BY <4>1, <4>2
    <3>3. t[k] = s[j]
      BY <3>1
    <3> HIDE DEF j, d
    <3>4. s[j] = Earlier(up, n, d)
      BY <3>1, <3>2 DEF InTurn
    <3>5. QED
      BY <1>3, <3>1, <3>3, <3>4
  <2>3. QED
    BY <2>1, <2>2
<1>5. QED
  BY <1>1, <1>4 DEF InTurn, pos2

\* Calls append; a change of the list starts over.
LEMMA TurnsKept == IInv /\ [Next]_vars => Turns'
<1> SUFFICES ASSUME IInv, [Next]_vars PROVE Turns'
  OBVIOUS
<1> DEFINE n == Cardinality(Available(mode, TRUE))
<1>1. ASSUME UNCHANGED <<config, ha, mode>>
      PROVE  Available(mode, TRUE)' = Available(mode, TRUE)
  BY <1>1 DEF Available, PrimaryFallback, KeepsPromoted
<1>2. CASE GetNextServer
  <2>1. n \in Nat /\ n > 0
    BY <1>2, AvailableFinite DEF GetNextServer, IInv, Linked
  <2>2. UNCHANGED <<config, ha, mode>> /\ current_pos_' = NextPos(n)
        /\ recent' = Append(IF Len(recent) = n THEN Tail(recent) ELSE recent, NextUp(n))
    BY <1>2 DEF GetNextServer, optionVars, tableVars
  <2>3. n' = n
    BY <1>1, <2>2
  <2>4. /\ recent \in Seq(Nat) /\ current_pos_ \in Nat /\ config \in Configs
    BY DEF IInv, Turns, Position
  <2>5. NextUp(n) \in Nat /\ NextUp(n) < n
    BY <2>1, NextServer DEF IInv
  <2> HIDE DEF n
  <2>6. recent' \in Seq(Nat)
    <3>1. Len(recent) = n => Tail(recent) \in Seq(Nat)
      BY <2>1, <2>4
    <3>2. QED
      BY <2>2, <2>4, <2>5, <3>1
  <2>7. ASSUME config.strategy # "first-available"
        PROVE  InTurn(recent', current_pos_', n)
    <3>1. recent # <<>> => InTurn(recent, current_pos_, n)
      BY <2>7 DEF IInv, Turns, n
    <3>2. recent # <<>> => NextUp(n) = current_pos_
      BY <3>1, <2>1, <2>4 DEF InTurn, NextUp
    <3>3. Len(recent) <= n
      BY <3>1, <2>1, <2>4 DEF InTurn
    <3>4. current_pos_' = IF NextUp(n) + 1 >= n THEN 0 ELSE NextUp(n) + 1
      BY <2>2, <2>7 DEF NextPos
    <3>5. Extends(recent', recent, n, NextUp(n))
      <4>1. recent' = Window(recent, n, NextUp(n))
        BY <2>2 DEF Window
      <4>2. QED
        BY <2>1, <2>4, <2>5, <3>3, <4>1, Shift
    <3>6. InTurn(recent', IF NextUp(n) + 1 >= n THEN 0 ELSE NextUp(n) + 1, n)
      BY <2>1, <2>4, <2>5, <3>1, <3>2, <3>5, NextTurn
    <3>7. QED
      BY <3>4, <3>6
  <2>8. QED
    BY <2>2, <2>3, <2>6, <2>7 DEF Turns, n
<1>3. ASSUME UNCHANGED <<config, recent, current_pos_>>,
             Available(mode, TRUE)' = Available(mode, TRUE)
      PROVE  Turns'
  BY <1>3 DEF IInv, Turns
<1>4. ASSUME NEW m \in [Instances -> Modes], NEW reachable \in BOOLEAN,
             TableChanges(m, reachable)
      PROVE  Turns'
  <2>1. Available(mode, TRUE)' = Available(m, TRUE)
    BY <1>4 DEF TableChanges, optionVars, Available, PrimaryFallback, KeepsPromoted
  <2>2. CASE Available(m, TRUE) = Available(mode, TRUE)
    BY <1>3, <1>4, <2>1, <2>2 DEF TableChanges, optionVars
  <2>3. CASE Available(m, TRUE) # Available(mode, TRUE)
    <3>1. recent' = <<>>
      BY <1>4, <2>3 DEF TableChanges
    <3>2. QED
      BY <3>1 DEF Turns
  <2>4. QED
    BY <2>2, <2>3
<1>5. ASSUME UNCHANGED <<config, ha, mode, recent, current_pos_>>
      PROVE  Turns'
  BY <1>1, <1>3, <1>5
<1>6. QED
  BY <1>2, <1>4, <1>5
  DEF Next, vars, optionVars, tableVars, callVars, Connected, ConnectFails,
      ConnectionEnds, OnInstancesChange

\* The position and the index stay below the number of instances.
LEMMA TypeKept == IInv /\ [Next]_vars => TypeOK'
<1> SUFFICES ASSUME IInv, [Next]_vars PROVE TypeOK'
  OBVIOUS
<1> DEFINE n == Cardinality(Available(mode, TRUE))
<1>1. TypeOK /\ recent' \in Seq(Nat)
  BY TurnsKept DEF IInv, Turns
<1>2. n \in Nat /\ n <= NumInstances /\ (Available(mode, TRUE) # {} => n > 0)
  BY AvailableFinite DEF IInv, Linked
<1> USE DEF optionVars, tableVars, callVars, connVars
<1>3. CASE GetNextServer
  <2>1. n > 0
    BY <1>2, <1>3 DEF GetNextServer
  <2>2. NextUp(n) \in Nat /\ NextUp(n) < n /\ NextPos(n) \in Nat /\ NextPos(n) < n
    BY <1>2, <2>1, NextServer DEF IInv
  <2>3. chosen' \subseteq Instances
    BY <1>1, <1>3 DEF GetNextServer, Place, Available, TypeOK
  <2> HIDE DEF n
  <2>4. /\ next_up' = NextUp(n) /\ size' = n /\ current_pos_' = NextPos(n) /\ stale' = FALSE
        /\ UNCHANGED <<config, ha, mode, md_reachable, pending, conns, late, fresh>>
    BY <1>3 DEF GetNextServer, n
  <2>5. /\ NextUp(n) \in 0 .. NumInstances - 1 /\ NextPos(n) \in 0 .. NumInstances - 1
        /\ n \in 0 .. NumInstances
    BY <1>2, <2>2, InstancesAssumption
  <2>6. QED
    BY <1>1, <2>3, <2>4, <2>5 DEF TypeOK
<1>4. CASE Connected \/ ConnectFails
  <2>1. conns' \subseteq Instances /\ late' \subseteq Instances /\ fresh' \subseteq Instances
    BY <1>1, <1>4 DEF Connected, ConnectFails, TypeOK
  <2>2. QED
    BY <1>1, <1>4, <2>1 DEF Connected, ConnectFails, TypeOK
<1>5. ASSUME NEW i \in Instances, ConnectionEnds(i)
      PROVE  TypeOK'
  <2>1. conns' \subseteq Instances /\ late' \subseteq Instances /\ fresh' \subseteq Instances
    BY <1>1, <1>5 DEF ConnectionEnds, TypeOK
  <2>2. QED
    BY <1>1, <1>5, <2>1 DEF ConnectionEnds, TypeOK
<1>6. ASSUME NEW m \in [Instances -> Modes], NEW reachable \in BOOLEAN,
             TableChanges(m, reachable)
      PROVE  TypeOK'
  BY <1>1, <1>6 DEF TableChanges, TypeOK
<1>7. CASE OnInstancesChange
  <2>1. conns' \subseteq Instances /\ late' \subseteq Instances
    BY <1>1, <1>7 DEF OnInstancesChange, TypeOK
  <2>2. QED
    BY <1>1, <1>7, <2>1 DEF OnInstancesChange, TypeOK
<1>8. CASE UNCHANGED vars
  BY <1>1, <1>8 DEF vars, TypeOK
<1>9. QED
  BY <1>3, <1>4, <1>5, <1>6, <1>7, <1>8 DEF Next

\* Calls, connects, ending connections, new tables and notifications preserve it.
LEMMA Invariance == Spec => []IInv
<1>1. IInv /\ [Next]_vars => IInv'
  <2> SUFFICES ASSUME IInv, [Next]_vars PROVE IInv'
    OBVIOUS
  <2>1. config' = config /\ asked' = asked
    BY DEF Next, vars, optionVars, GetNextServer, Connected, ConnectFails,
           ConnectionEnds, TableChanges, OnInstancesChange
  <2>2. Matching'
    BY <2>1 DEF IInv, Matching
  <2>3. QED
    BY <2>1, <2>2, TypeKept, PositionKept, TurnsKept, LinkedKept DEF IInv
<1>2. QED
  BY <1>1, InitIInv, PTL DEF Spec

\* The position kept between two calls stays below the number of instances
\* that were ever known.
THEOREM TypeCorrect == Spec => []TypeOK
<1>1. IInv => TypeOK
  BY DEF IInv
<1>2. QED
  BY <1>1, Invariance, PTL

\* However the list of available servers shrinks and grows between two calls,
\* get_next_server() returns a place of the list it was given.
THEOREM IndexValidAlways == Spec => []IndexValid
<1>1. IInv => IndexValid
  BY DEF IInv, Position
<1>2. QED
  BY <1>1, Invariance, PTL

\* Consecutive calls reach every server of an unchanged list once before any
\* of them a second time, whatever the position was when the list came up and
\* whichever connects failed.
THEOREM RoundRobinFairAlways == Spec => []RoundRobinFair
<1>1. IInv => RoundRobinFair
  <2>1. SUFFICES ASSUME IInv, config.strategy # "first-available",
                        NEW i \in DOMAIN recent, NEW j \in DOMAIN recent,
                        recent[i] = recent[j]
                 PROVE  i = j
    BY DEF RoundRobinFair
  <2> DEFINE n == Cardinality(Available(mode, TRUE))
             l == Len(recent)
  <2>2. l \in Nat /\ i \in 1 .. l /\ j \in 1 .. l /\ recent # <<>> /\ current_pos_ \in Nat
    BY <2>1 DEF IInv, Turns, Position
  <2>3. n \in Nat
    BY <2>1, AvailableFinite DEF IInv, Linked
  <2>4. /\ current_pos_ < n /\ l <= n
        /\ recent[i] = Earlier(current_pos_, n, (l + 1) - i)
        /\ recent[j] = Earlier(current_pos_, n, (l + 1) - j)
    BY <2>1, <2>2 DEF IInv, Turns, InTurn
  <2> HIDE DEF n, l
  <2>5. Earlier(current_pos_, n, (l + 1) - i) = Earlier(current_pos_, n, (l + 1) - j)
    BY <2>1, <2>4
  <2>6. QED
    BY <2>2, <2>3, <2>4, <2>5 DEF Earlier
<1>2. QED
  BY <1>1, Invariance, PTL

\* A notification never ends a connection that was made from the table it
\* announces.
THEOREM FreshAreKeptAlways == Spec => []FreshAreKept
<1>1. IInv => FreshAreKept
  BY DEF IInv, Linked
<1>2. QED
  BY <1>1, Invariance, PTL

\* Under every combination of options that the constructor accepts, the
\* connections of a section are on servers that the options as given allow,
\* apart from those a notification overtook.
THEOREM RoleRespectedAlways == Spec => []RoleRespected
<1>1. IInv => RoleRespected
  <2> SUFFICES ASSUME IInv, md_reachable, ~pending PROVE RoleRespected
    BY DEF RoleRespected
  <2>1. /\ conns \subseteq Available(mode, FALSE)
        /\ fresh \subseteq Available(mode, TRUE)
        /\ Matching
    BY DEF IInv, Linked
  <2>2. \A i \in conns : \/ mode[i] \in asked.modes
                         \/ /\ mode[i] = "RW"
                            /\ \/ asked.stay
                               \/ asked.fallback /\ \A j \in Instances : mode[j] # "RO"
    BY <2>1, AvailableRole
  <2>3. \A i \in fresh : \/ mode[i] \in asked.modes
                         \/ /\ mode[i] = "RW"
                            /\ asked.fallback /\ \A j \in Instances : mode[j] # "RO"
    BY <2>1, AvailableRole
  <2>4. QED
    BY <2>2, <2>3 DEF RoleRespected
<1>2. QED
  BY <1>1, Invariance, PTL
=============================================================================
