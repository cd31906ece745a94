------------------------ MODULE MetadataCacheProofs ------------------------
(***************************************************************************)
(* ListenersUpToDate and RetriesBounded for any number of nodes, sections  *)
(* and metadata servers.                                                   *)
(***************************************************************************)
EXTENDS MetadataCache, FiniteSetTheorems, TLAPS

\* Who has still to be told of the last change: between the change and the
\* callbacks' mutex all who listened, then those the notifier has not reached.
\* Nobody refreshes before cache_init().
Telling ==
  /\ cache = "null" => rt = "none"
  /\ stale \subseteq listeners
  /\ rt = "notify" => stale \subseteq todo
  /\ rt \notin {"erase", "lock", "notify"} => stale = {}

\* Emergency mode is called off while a changed table is announced, and then
\* once per writable member at most.
Erasing ==
  /\ left <= Cardinality(Writable(table))
  /\ rt = "erase" <=> left > 0

\* A section that will retry although emergency mode is not called off again:
\* a change took its node off the table, or its mark is already undone.
Ready(c) ==
  \/ pc[c] \in {"add", "insert", "choose"} /\ ~(snap[c] \subseteq Listed(table))
  \/ pc[c] = "mark" /\ node[c] \notin Listed(table)
  \/ pc[c] \in {"enter", "waiting"} /\ ~unreachable

\* Every retry beyond the first was paid for by a member's erase.
Paid ==
  \A c \in Clients :
    /\ spins[c] <= Cardinality(Writable(table)) - left + 1
    /\ Ready(c) => spins[c] <= Cardinality(Writable(table)) - left

\* The inductive invariant.
IInv == TypeOK /\ Telling /\ Erasing /\ Paid

\* A table has a number of writable members.
LEMMA WritableCount ==
  \A t \in Tables : /\ Writable(t) \subseteq Listed(t)
                    /\ Cardinality(Writable(t)) \in 0..Cardinality(Nodes)
                    /\ Writable(t) = {} <=> Cardinality(Writable(t)) = 0
<1> SUFFICES ASSUME NEW t \in Tables
             PROVE  /\ Writable(t) \subseteq Listed(t)
                    /\ Cardinality(Writable(t)) \in 0..Cardinality(Nodes)
                    /\ Writable(t) = {} <=> Cardinality(Writable(t)) = 0
  OBVIOUS
<1>1. Writable(t) \subseteq Listed(t) /\ Writable(t) \subseteq Nodes
  BY DEF Writable, Listed
<1>2. IsFiniteSet(Writable(t)) /\ Cardinality(Writable(t)) <= Cardinality(Nodes)
  BY <1>1, CacheAssumption, FS_Subset
<1>3. Cardinality(Writable(t)) \in Nat /\ Cardinality(Nodes) \in Nat
  BY <1>2, CacheAssumption, FS_CardinalityType
<1>4. Writable(t) = {} <=> Cardinality(Writable(t)) = 0
  BY <1>2, FS_EmptySet
<1>5. QED BY <1>1, <1>2, <1>3, <1>4

\* Every variable keeps its type, and erases are counted.
LEMMA TypeStep ==
  TypeOK /\ Telling /\ Erasing /\ [Next]_vars => TypeOK' /\ Erasing'
<1> SUFFICES ASSUME TypeOK, Telling, Erasing, [Next]_vars
             PROVE  TypeOK' /\ Erasing'
  OBVIOUS
<1> USE CacheAssumption DEF TypeOK, Erasing, Tables, rtVars, cliVars, auxVars, rtElse, cliElse
<1>0. /\ Cardinality(Nodes) \in Nat
      /\ Cardinality(Writable(table)) \in Nat
      /\ Cleared \in Tables
  <2>1. Cardinality(Nodes) \in Nat
    BY FS_CardinalityType
  <2>2. Cleared \in Tables
    BY DEF Cleared
  <2>3. QED BY <2>1, <2>2, WritableCount
<1>1. CASE CacheInit BY <1>1 DEF CacheInit, Telling
<1>2. CASE CacheStop BY <1>2 DEF CacheStop
<1>3. CASE StartThread BY <1>3 DEF StartThread
<1>4. CASE Joined BY <1>4 DEF Joined
<1>5. CASE RefreshLoop BY <1>5 DEF RefreshLoop
<1>6. CASE Apply
  <2>1. PICK temp \in Tables : \E changed \in Changes(temp) :
          IF changed
            THEN /\ table' = temp
                 /\ rt' = IF Writable(temp) = {} THEN "lock" ELSE "erase"
                 /\ left' = Cardinality(Writable(temp))
                 /\ Replaced
            ELSE rt' = "returned" /\ UNCHANGED <<table, left, auxVars>>
    BY <1>6 DEF Apply, Fetched
  <2>2. CASE UNCHANGED <<table, left, auxVars>> /\ rt' = "returned"
    BY <1>0, <1>6, <2>2 DEF Apply
  <2>3. CASE /\ table' = temp
             /\ rt' = IF Writable(temp) = {} THEN "lock" ELSE "erase"
             /\ left' = Cardinality(Writable(temp))
             /\ Replaced
    <3>1. /\ left' \in 0..Cardinality(Nodes)
          /\ Writable(temp) = {} <=> left' = 0
          /\ left' = Cardinality(Writable(table'))
      BY <2>3, WritableCount
    <3>2. QED BY <1>0, <1>6, <2>3, <3>1 DEF Apply, Replaced
  <2>4. QED BY <2>1, <2>2, <2>3
<1>7. CASE EraseUnreachable
  <2>1. left \in 0..Cardinality(Nodes) /\ left > 0 /\ left' = left - 1
    BY <1>7 DEF EraseUnreachable
  <2>2. left' \in 0..Cardinality(Nodes) /\ (left' > 0 <=> left # 1) /\ left' <= left
    BY <1>0, <2>1
  <2>3. TypeOK' /\ (rt' = "erase" <=> left' > 0)
    BY <1>7, <2>2 DEF EraseUnreachable
  <2>4. (left <= Cardinality(Writable(table)))'
    <3>1. UNCHANGED table
      BY <1>7 DEF EraseUnreachable
    <3>2. left' <= Cardinality(Writable(table))
      BY <1>0, <2>1, <2>2
    <3>3. QED BY <3>1, <3>2 DEF Writable
  <2>5. QED BY <2>3, <2>4
<1>8. CASE ClearTable
  <2>1. table' = Cleared /\ table' \in Tables /\ left' = left /\ left = 0
    BY <1>0, <1>8 DEF ClearTable
  <2>2. Cardinality(Writable(table')) >= 0
    BY <2>1, WritableCount
  <2>3. QED BY <1>0, <1>8, <2>1, <2>2 DEF ClearTable, Replaced
<1>9. CASE NotifyLock BY <1>9 DEF NotifyLock
<1>10. CASE \E l \in Clients : NotifyOne(l) BY <1>10 DEF NotifyOne
<1>11. CASE NotifyDone BY <1>11 DEF NotifyDone
<1>12. CASE ServerFails BY <1>12 DEF ServerFails
<1>13. ASSUME NEW c \in Clients,
              \/ Begin(c) \/ ApiCall(c) \/ NoPrimary(c) \/ Connected(c)
              \/ \E n \in Nodes : Refused(c, n)
       PROVE  TypeOK' /\ Erasing'
  <2>1. CASE Begin(c) BY <2>1 DEF Begin
  <2>2. CASE Lookup(c) BY <2>2 DEF Lookup, Writable
  <2>3. CASE AddListener(c) BY <2>3 DEF AddListener
  <2>4. CASE Insert(c) BY <2>4 DEF Insert
  <2>5. CASE Mark(c) BY <2>5 DEF Mark
  <2>6. CASE EnterWait(c) BY <2>6 DEF EnterWait
  <2>7. CASE Failover(c) BY <2>7 DEF Failover
  <2>8. CASE WaitTimesOut(c) BY <2>8 DEF WaitTimesOut
  <2>9. CASE NoPrimary(c) BY <2>9 DEF NoPrimary
  <2>10. CASE Connected(c) BY <2>10 DEF Connected
  <2>11. CASE \E n \in Nodes : Refused(c, n) BY <2>11 DEF Refused
  <2>12. QED
    BY <1>13, <2>1, <2>2, <2>3, <2>4, <2>5, <2>6, <2>7, <2>8, <2>9, <2>10, <2>11
    DEF ApiCall
<1>14. CASE UNCHANGED vars BY <1>14 DEF vars
<1>15. QED
  BY <1>1, <1>2, <1>3, <1>4, <1>5, <1>6, <1>7, <1>8, <1>9, <1>10, <1>11, <1>12,
     <1>13, <1>14
  DEF Next, PluginThread, RefreshThread

\* The refresh thread alone changes the table and notifies; a section may
\* subscribe meanwhile, and then knows the new table from its next lookup.
LEMMA TellingStep == TypeOK /\ Telling /\ [Next]_vars => Telling'
<1> SUFFICES ASSUME TypeOK, Telling, [Next]_vars PROVE Telling'
  OBVIOUS
<1> USE DEF TypeOK, Telling, rtVars, cliVars, auxVars, rtElse, cliElse
<1>1. CASE UNCHANGED <<cache, rt, todo, listeners, stale>> BY <1>1
<1>2. CASE CacheInit \/ StartThread \/ CacheStop \/ Joined
  BY <1>2 DEF CacheInit, StartThread, CacheStop, Joined
<1>3. CASE RefreshLoop BY <1>3 DEF RefreshLoop
<1>4. CASE Apply \/ ClearTable BY <1>4 DEF Apply, ClearTable, Replaced
<1>5. CASE EraseUnreachable BY <1>5 DEF EraseUnreachable
<1>6. CASE NotifyLock BY <1>6 DEF NotifyLock
<1>7. CASE \E l \in Clients : NotifyOne(l) BY <1>7 DEF NotifyOne
<1>8. CASE NotifyDone BY <1>8 DEF NotifyDone
<1>9. CASE \E c \in Clients : Insert(c) BY <1>9 DEF Insert
<1>10. QED
  BY <1>1, <1>2, <1>3, <1>4, <1>5, <1>6, <1>7, <1>8, <1>9
  DEF Next, PluginThread, RefreshThread, ServerFails, ApiCall,
      Begin, Lookup, AddListener, Mark, EnterWait, Failover,
      WaitTimesOut, NoPrimary, Connected, Refused, vars

\* A change of the table starts a new account; an erase may ready every section
\* and pays for that; a section readies itself only through a lookup that a
\* change overtook, because a mark of a listed node turns emergency mode on.
LEMMA PaidStep == TypeOK /\ Telling /\ Erasing /\ Paid /\ [Next]_vars => Paid'
<1> SUFFICES ASSUME TypeOK, Telling, Erasing, Paid, [Next]_vars PROVE Paid'
  OBVIOUS
<1> DEFINE k == Cardinality(Writable(table))
<1>0. /\ k \in Nat /\ left \in Nat /\ left <= k
      /\ Writable(table) \subseteq Listed(table)
      /\ spins \in [Clients -> Nat]
  BY WritableCount DEF TypeOK, Erasing
<1> USE DEF rtVars, cliVars, auxVars, rtElse, cliElse
<1>1. CASE UNCHANGED <<table, unreachable, left, pc, snap, node, spins>>
  BY <1>1 DEF Paid, Ready, Writable, Listed
<1>2. CASE Apply \/ ClearTable
  <2>1. CASE UNCHANGED <<table, left, spins>>
    BY <1>2, <2>1 DEF Apply, ClearTable, Paid, Ready, Writable, Listed
  <2>2. CASE spins' = [c \in Clients |-> 0]
    <3>1. TypeOK' /\ Erasing'
      BY TypeStep
    <3>2. left' <= Cardinality(Writable(table))' /\ left' \in Nat
          /\ Cardinality(Writable(table))' \in Nat
      BY <3>1, WritableCount DEF TypeOK, Erasing
    <3>3. QED BY <2>2, <3>2 DEF Paid
  <2>3. QED
    BY <1>2, <2>1, <2>2 DEF Apply, ClearTable, Replaced, TypeOK
<1>3. CASE EraseUnreachable
  <2>1. left > 0 /\ left' = left - 1 /\ UNCHANGED <<table, spins>>
    BY <1>3 DEF EraseUnreachable, Erasing
  <2>2. k - left' = k - left + 1
    BY <1>0, <2>1
  <2>3. \A c \in Clients : spins[c] <= k - left'
    BY <1>0, <2>2 DEF Paid
  <2>4. \A c \in Clients : spins[c] <= k - left' + 1
    BY <1>0, <2>2, <2>3 DEF Paid
  <2>5. QED BY <2>1, <2>3, <2>4 DEF Paid, Writable
<1>4. ASSUME NEW c \in Clients,
             \/ Begin(c) \/ ApiCall(c) \/ NoPrimary(c) \/ Connected(c)
             \/ \E n \in Nodes : Refused(c, n)
      PROVE  Paid'
  <2> USE DEF TypeOK
  <2>1. UNCHANGED <<table, left>>
    BY <1>4 DEF ApiCall, Begin, Lookup, AddListener, Insert, Mark, EnterWait, Failover,
                WaitTimesOut, NoPrimary, Connected, Refused
  <2>2. ASSUME UNCHANGED spins, \A d \in Clients : Ready(d)' => Ready(d)
        PROVE  Paid'
    BY <2>1, <2>2 DEF Paid, Writable
  <2>3. CASE Begin(c) BY <2>2, <2>3 DEF Begin, Ready, Listed
  <2>4. CASE Lookup(c) BY <1>0, <2>2, <2>4 DEF Lookup, Ready, Listed
  <2>5. CASE AddListener(c) BY <2>2, <2>5 DEF AddListener, Ready, Listed
  <2>6. CASE Insert(c) BY <2>2, <2>6 DEF Insert, Ready, Listed
  <2>7. CASE Mark(c) BY <2>2, <2>7 DEF Mark, Ready, Listed
  <2>8. CASE EnterWait(c) BY <2>2, <2>8 DEF EnterWait, Ready, Listed
  <2>9. CASE Failover(c)
    <3>1. Ready(c) /\ ~Ready(c)' /\ spins' = [spins EXCEPT ![c] = @ + 1]
      BY <2>9 DEF Failover, Ready
    <3>2. spins[c] <= k - left /\ spins'[c] = spins[c] + 1
      BY <3>1 DEF Paid
    <3>3. spins'[c] <= k - left + 1
      BY <1>0, <3>2
    <3>4. \A d \in Clients : d # c => spins'[d] = spins[d] /\ (Ready(d)' => Ready(d))
      BY <2>9 DEF Failover, Ready, Listed
    <3>5. QED BY <2>1, <3>1, <3>3, <3>4 DEF Paid, Writable
  <2>10. CASE WaitTimesOut(c) BY <2>2, <2>10 DEF WaitTimesOut, Ready, Listed
  <2>11. CASE NoPrimary(c) BY <2>2, <2>11 DEF NoPrimary, Ready, Listed
  <2>12. CASE Connected(c) BY <2>2, <2>12 DEF Connected, Ready, Listed
  <2>13. CASE \E n \in Nodes : Refused(c, n) BY <2>2, <2>13 DEF Refused, Ready, Listed
  <2>14. QED
    BY <1>4, <2>3, <2>4, <2>5, <2>6, <2>7, <2>8, <2>9, <2>10, <2>11, <2>12, <2>13
    DEF ApiCall
<1>5. QED
  BY <1>1, <1>2, <1>3, <1>4
  DEF Next, PluginThread, RefreshThread, CacheInit, StartThread, CacheStop, Joined,
      RefreshLoop, ServerFails, NotifyLock, NotifyOne, NotifyDone, vars

\* No cache yet, nobody subscribed.
LEMMA Initially == Init => IInv
<1> SUFFICES ASSUME Init PROVE IInv
  OBVIOUS
<1>1. /\ Cardinality(Writable(table)) \in Nat
      /\ Cardinality(Nodes) \in Nat
      /\ table \in Tables
  <2>1. table \in Tables
    BY DEF Init, Cleared, Tables
  <2>2. QED BY <2>1, WritableCount, CacheAssumption, FS_CardinalityType
<1>2. 1 \in 1..(NumMetadataServers + 1) /\ 0 \in 0..Cardinality(Nodes) /\ 0 \in Nat
  BY <1>1, CacheAssumption
<1>3. TypeOK
  <2>1. \A x, S : x \in S => [c \in Clients |-> x] \in [Clients -> S]
    OBVIOUS
  <2>2. spins \in [Clients -> Nat] /\ snap \in [Clients -> SUBSET Nodes]
    BY <1>2, <2>1 DEF Init
  <2>3. QED BY <1>1, <1>2, <2>1, <2>2 DEF Init, TypeOK
<1>4. Telling /\ Erasing
  BY <1>1 DEF Init, Telling, Erasing
<1>5. Paid
  BY <1>1 DEF Init, Paid, Ready
<1>6. QED BY <1>3, <1>4, <1>5 DEF IInv

\* What the refresh thread has to tell and which retries are paid for, in every
\* interleaving of the refresh thread, the plugin thread and the sections.
THEOREM Invariance == Spec => []IInv
<1>1. IInv /\ [Next]_vars => IInv'
  BY TypeStep, TellingStep, PaidStep DEF IInv
<1>2. QED BY Initially, <1>1, PTL DEF Spec

\* on_instances_changed(): after every refresh each section that was subscribed
\* when the table changed has been told, for any number of sections, although
\* sections subscribe between the change and the callbacks' mutex.
THEOREM ListenersUpToDateAlways == Spec => []ListenersUpToDate
<1>1. IInv => ListenersUpToDate
  BY DEF IInv, Telling, ListenersUpToDate
<1>2. QED BY Invariance, <1>1, PTL

\* wait_primary_failover(): a section goes round its retry loop at most once per
\* writable member, and once more, between two changes of the table, for any
\* number of sections and nodes.
THEOREM RetriesBoundedAlways == Spec => []RetriesBounded
<1>1. IInv => RetriesBounded
  <2> SUFFICES ASSUME IInv PROVE RetriesBounded
    OBVIOUS
  <2>1. Cardinality(Writable(table)) \in Nat /\ left \in Nat /\ spins \in [Clients -> Nat]
    BY WritableCount DEF IInv, TypeOK
  <2>2. QED BY <2>1 DEF IInv, Paid, RetriesBounded
<1>2. QED BY Invariance, <1>1, PTL
=============================================================================
