------------------------- MODULE MySQLRoutingProofs -------------------------
(***************************************************************************)
(* Proofs of the safety properties of MySQLRouting for every value of its  *)
(* constants: any number of connections, hosts, servers, listening sockets *)
(* and buckets.                                                            *)
(*                                                                         *)
(* The counter of the threads and the closing of the sockets rest on how a *)
(* connection is built (Building), the two walks over the container on     *)
(* how far they have got (Draining, Notifying).                            *)
(***************************************************************************)
EXTENDS MySQLRouting, FiniteSetTheorems, TLAPS

Creating == {"lookup", "subscribe", "choose", "connect", "start"}
Returned == {"open", "invalid", "timeout"}
Begun    == {"spawned", "counted", "routing", "closing"}
Quiet    == {"setup", "stopped", "destroyed"}

\* A client is between the two admission checks only in "admit", and
\* create_connection() works on a connection that has no thread yet and that
\* neither the container nor the refresh thread has seen.
Building ==
  /\ acc = "admit" => peer \in Hosts
  /\ acc # "admit" => peer = NoServer
  /\ \A c \in Conns : csock[c] = "none" => thr[c] = "none"
  /\ acc \in Creating => cur \in Conns /\ thr[cur] = "none" /\ csock[cur] # "none"
  /\ acc = "start" => ssock[cur] \in Returned
  /\ acc = "add" => cur \in Conns /\ thr[cur] # "none"
  /\ acc \in Creating \cup {"add"} => cur \notin connections \cup present
  /\ \A c \in connections \cup present : thr[c] # "none"

\* A thread that has not closed its sockets got them from a finished connect.
Sockets ==
  /\ \A c \in Conns : thr[c] \in Begun => ssock[c] \in Returned
  /\ SocketsClosed

\* The callback is registered from SetUp to Unregister.
Registered ==
  /\ registered <=> acc \notin Quiet
  /\ ntf = "scan" => registered

\* disconnect_all() has marked the buckets before accBucket.
Draining ==
  /\ acc = "setup" => connections = {}
  /\ acc \notin {"disconnect_all", "wait", "unregister", "stopped", "destroyed"} => accBucket = 1
  /\ acc = "disconnect_all" =>
       \A c \in connections : BucketOf[c] < accBucket => c \in marked
  /\ DrainMarksAll

\* disconnect(nodes) has dealt with the buckets before ntfBucket.
Notifying ==
  /\ ntf = "scan" =>
       \A c \in present \cap connections :
          BucketOf[c] < ntfBucket => c \in marked \/ server[c] \in kept
  /\ NotificationComplete

\* The inductive invariant.
IInv ==
  /\ TypeOK /\ ThreadsCounted /\ RoutesCounted
  /\ Building /\ Sockets /\ Registered /\ Draining /\ Notifying

\* Facts about %, for the 16-bit counter of the routes: remainders are unique.
LEMMA ModUnique ==
  ASSUME NEW m \in Nat \ {0}, NEW q \in Nat, NEW r \in 0..(m - 1)
  PROVE  (m * q + r) % m = r
BY SMTT(30)

\* Counting up modulo m.
LEMMA ModIncrement ==
  ASSUME NEW m \in Nat \ {0}, NEW a \in Nat
  PROVE  ((a % m) + 1) % m = (a + 1) % m
<1> DEFINE q == a \div m
           r == a % m
<1>1. a = m * q + r /\ r \in 0..(m - 1) /\ q \in Nat
  OBVIOUS
<1> HIDE DEF q, r
<1>2. CASE r + 1 < m
  <2>1. (r + 1) % m = r + 1
    BY <1>1, <1>2
  <2>2. (m * q + (r + 1)) % m = r + 1
    BY <1>1, <1>2, ModUnique
  <2>3. a + 1 = m * q + (r + 1)
    BY <1>1
  <2>4. QED BY <2>1, <2>2, <2>3 DEF r
<1>3. CASE r + 1 = m
  <2>1. (r + 1) % m = 0
    BY <1>1, <1>3
  <2>2. (m * (q + 1) + 0) % m = 0
    BY <1>1, ModUnique
  <2>3. a + 1 = m * (q + 1) + 0
    BY <1>1, <1>3
  <2>4. QED BY <2>1, <2>2, <2>3 DEF r
<1>4. QED BY <1>1, <1>2, <1>3

\* Counting down modulo m, which the code does by unsigned wrap-around.
LEMMA ModDecrement ==
  ASSUME NEW m \in Nat \ {0}, NEW a \in Nat \ {0}
  PROVE  ((a % m) + m - 1) % m = (a - 1) % m
<1> DEFINE q == a \div m
           r == a % m
<1>1. a = m * q + r /\ r \in 0..(m - 1) /\ q \in Nat
  OBVIOUS
<1> HIDE DEF q, r
<1>2. CASE r > 0
  <2>1. (m * 1 + (r - 1)) % m = r - 1
    BY <1>1, <1>2, ModUnique
  <2>2. (m * q + (r - 1)) % m = r - 1
    BY <1>1, <1>2, ModUnique
  <2>3. a - 1 = m * q + (r - 1) /\ r + m - 1 = m * 1 + (r - 1)
    BY <1>1
  <2>4. QED BY <2>1, <2>2, <2>3 DEF r
<1>3. CASE r = 0
  <2>1. q > 0
    BY <1>1, <1>3
  <2>2. (m * 0 + (m - 1)) % m = m - 1
    BY ModUnique
  <2>3. (m * (q - 1) + (m - 1)) % m = m - 1
    BY <1>1, <2>1, ModUnique
  <2>4. a - 1 = m * (q - 1) + (m - 1) /\ r + m - 1 = m * 0 + (m - 1)
    BY <1>1, <1>3
  <2>5. QED BY <2>2, <2>3, <2>4 DEF r
<1>4. QED BY <1>1, <1>2, <1>3

\* The counter is positive while a counted thread is left.
LEMMA SomeThread ==
  ASSUME TypeOK, ThreadsCounted, NEW c \in Conns, c \in Counted(thr)
  PROVE  active_client_threads_ > 0
<1>1. IsFiniteSet(Counted(thr))
  BY RoutingAssumption, FS_Subset DEF Counted
<1>2. Cardinality(Counted(thr)) \in Nat /\ Cardinality(Counted(thr)) # 0
  BY <1>1, FS_CardinalityType, FS_EmptySet
<1>3. QED BY <1>2 DEF ThreadsCounted

\* Every step keeps the types; the counter stays a natural number because it
\* counts the threads that will decrease it.
LEMMA TypeStep == TypeOK /\ ThreadsCounted /\ Building /\ [Next]_vars => TypeOK'
<1> SUFFICES ASSUME TypeOK, ThreadsCounted, Building, [Next]_vars PROVE TypeOK'
  OBVIOUS
<1> USE RoutingAssumption
    DEF TypeOK, AccStates, ThrStates, SockStates, accVars, connVars, boxVars, ctxVars, ntfVars
<1>1. CASE SetUp BY <1>1 DEF SetUp
<1>2. CASE LoopTop BY <1>2 DEF LoopTop
<1>3. CASE Poll BY <1>3 DEF Poll
<1>4. CASE FdsDone BY <1>4 DEF FdsDone
<1>5. CASE AcceptFails BY <1>5 DEF AcceptFails, NextFd
<1>6. CASE RejectTooMany \/ \E h \in Hosts : RejectBlocked(h) \/ CheckHost(h)
  BY <1>6 DEF RejectBlocked, CheckHost, RejectTooMany, NextFd
<1>7. CASE \E c \in Conns : Accept(c) BY <1>7 DEF Accept
<1>8. CASE LookupReplicaset BY <1>8 DEF LookupReplicaset
<1>9. CASE Subscribe BY <1>9 DEF Subscribe
<1>10. CASE \E s \in Servers : ChooseServer(s)
  <2>1. PICK s \in Servers : ChooseServer(s)
    BY <1>10
  <2>2. cur \in Conns
    BY <2>1 DEF ChooseServer, Building, Creating
  <2>3. QED BY <2>1, <2>2 DEF ChooseServer
<1>11. CASE NoneAvailable BY <1>11 DEF NoneAvailable
<1>12. CASE Connect
  <2>1. PICK r \in {"open", "invalid", "timeout"} : ssock' = [ssock EXCEPT ![cur] = r]
    BY <1>12 DEF Connect
  <2>2. QED BY <1>12, <2>1 DEF Connect
<1>13. CASE StartThread BY <1>13 DEF StartThread
<1>14. CASE AddConnection
  BY <1>14 DEF AddConnection, Building
<1>15. CASE DisconnectAll BY <1>15 DEF DisconnectAll
<1>16. CASE WaitForThreads BY <1>16 DEF WaitForThreads
<1>17. CASE Unregister BY <1>17 DEF Unregister
<1>18. CASE Destroy BY <1>18 DEF Destroy
<1>19. CASE \E c \in Conns : IncreaseThreads(c) BY <1>19 DEF IncreaseThreads
<1>20. CASE \E c \in Conns : CheckSocketsFails(c) BY <1>20 DEF CheckSocketsFails
<1>21. CASE \E c \in Conns : BeginRoute(c) BY <1>21 DEF BeginRoute
<1>22. CASE \E c \in Conns : HonourDisconnect(c)
  <2>1. PICK c \in Conns : LeaveLoop(c)
    BY <1>22 DEF HonourDisconnect
  <2>2. conn_error_counters_' \in [Hosts -> Nat]
    <3>1. CASE c \in handshaken
      BY <2>1, <3>1 DEF LeaveLoop
    <3>2. CASE c \notin handshaken /\ host[c] \in Hosts
      BY <2>1, <3>2 DEF LeaveLoop
    <3>3. CASE c \notin handshaken /\ host[c] \notin Hosts
      BY <2>1, <3>3 DEF LeaveLoop
    <3>4. QED BY <3>1, <3>2, <3>3
  <2>3. QED BY <2>1, <2>2 DEF LeaveLoop
<1>23. CASE \E c \in Conns : CloseSockets(c) BY <1>23 DEF CloseSockets
<1>24. CASE \E c \in Conns : DecreaseThreads(c)
  <2>1. PICK c \in Conns : DecreaseThreads(c)
    BY <1>24
  <2>2. c \in Counted(thr)
    BY <2>1 DEF DecreaseThreads, Counted
  <2>3. active_client_threads_ > 0
    BY <2>2, SomeThread
  <2>4. QED BY <2>1, <2>3 DEF DecreaseThreads
<1>25. CASE \E c \in Conns : RemoveConnection(c) BY <1>25 DEF RemoveConnection
<1>26. CASE NotifyBegin BY <1>26 DEF NotifyBegin
<1>27. CASE NotifyBucket BY <1>27 DEF NotifyBucket
<1>28. CASE Stop BY <1>28 DEF Stop
<1>29. CASE SetupFails BY <1>29 DEF SetupFails
<1>30. CASE StartThreadFails BY <1>30 DEF StartThreadFails
<1>31. CASE LookupThrows BY <1>31 DEF LookupThrows
<1>32. CASE RetryAfterFailover BY <1>32 DEF RetryAfterFailover
<1>33. CASE \E c \in Conns : Handshake(c) BY <1>33 DEF Handshake
<1>34. CASE \E c \in Conns : Stall(c) BY <1>34 DEF Stall
<1>35. CASE \E c \in Conns : Unstall(c) BY <1>35 DEF Unstall
<1>36. CASE \E c \in Conns : EndConnection(c)
  <2>1. PICK c \in Conns : LeaveLoop(c)
    BY <1>36 DEF EndConnection
  <2>2. conn_error_counters_' \in [Hosts -> Nat]
    <3>1. CASE c \in handshaken
      BY <2>1, <3>1 DEF LeaveLoop
    <3>2. CASE c \notin handshaken /\ host[c] \in Hosts
      BY <2>1, <3>2 DEF LeaveLoop
    <3>3. CASE c \notin handshaken /\ host[c] \notin Hosts
      BY <2>1, <3>3 DEF LeaveLoop
    <3>4. QED BY <3>1, <3>2, <3>3
  <2>3. QED BY <2>1, <2>2 DEF LeaveLoop
<1>37. CASE \E new, keep \in SUBSET Servers : AllowedNodesChange(new, keep)
  BY <1>37 DEF AllowedNodesChange
<1>38. CASE MetadataUnavailable BY <1>38 DEF MetadataUnavailable
<1>39. CASE UNCHANGED vars BY <1>39 DEF vars
<1>40. QED
  BY <1>1, <1>2, <1>3, <1>4, <1>5, <1>6, <1>7, <1>8, <1>9, <1>10, <1>11, <1>12,
     <1>13, <1>14, <1>15, <1>16, <1>17, <1>18, <1>19, <1>20, <1>21, <1>22,
     <1>23, <1>24, <1>25, <1>26, <1>27, <1>28, <1>29, <1>30, <1>31, <1>32,
     <1>33, <1>34, <1>35, <1>36, <1>37, <1>38, <1>39
  DEF Next, Acceptor, Thread, Refresher, Environment, MetadataChange

\* The counter moves with the set of the threads it counts.
LEMMA ThreadsStep == TypeOK /\ ThreadsCounted /\ Building /\ [Next]_vars => ThreadsCounted'
<1> SUFFICES ASSUME TypeOK, ThreadsCounted, Building, [Next]_vars PROVE ThreadsCounted'
  OBVIOUS
<1> USE DEF TypeOK, ThreadsCounted, accVars, connVars, boxVars, ctxVars, ntfVars
<1>1. IsFiniteSet(Counted(thr))
  BY RoutingAssumption, FS_Subset DEF Counted
<1>2. CASE SetUp BY <1>2 DEF SetUp
<1>3. CASE LoopTop BY <1>3 DEF LoopTop
<1>4. CASE Poll BY <1>4 DEF Poll
<1>5. CASE FdsDone BY <1>5 DEF FdsDone
<1>6. CASE AcceptFails BY <1>6 DEF AcceptFails, NextFd
<1>7. CASE RejectTooMany \/ \E h \in Hosts : RejectBlocked(h) \/ CheckHost(h)
  BY <1>7 DEF RejectBlocked, CheckHost, RejectTooMany, NextFd
<1>8. CASE \E c \in Conns : Accept(c) BY <1>8 DEF Accept
<1>9. CASE LookupReplicaset BY <1>9 DEF LookupReplicaset
<1>10. CASE Subscribe BY <1>10 DEF Subscribe
<1>11. CASE \E s \in Servers : ChooseServer(s) BY <1>11 DEF ChooseServer
<1>12. CASE NoneAvailable BY <1>12 DEF NoneAvailable
<1>13. CASE Connect BY <1>13 DEF Connect
<1>14. CASE StartThread
  <2>1. Counted(thr') = Counted(thr)
    BY <1>14 DEF StartThread, Counted, Building, Creating
  <2>2. QED BY <1>14, <2>1 DEF StartThread
<1>15. CASE AddConnection BY <1>15 DEF AddConnection
<1>16. CASE DisconnectAll BY <1>16 DEF DisconnectAll
<1>17. CASE WaitForThreads BY <1>17 DEF WaitForThreads
<1>18. CASE Unregister BY <1>18 DEF Unregister
<1>19. CASE Destroy BY <1>19 DEF Destroy
<1>20. CASE \E c \in Conns : IncreaseThreads(c)
  <2>1. PICK c \in Conns : IncreaseThreads(c)
    BY <1>20
  <2>2. Counted(thr') = Counted(thr) \cup {c} /\ c \notin Counted(thr)
    BY <2>1 DEF IncreaseThreads, Counted
  <2>3. Cardinality(Counted(thr')) = Cardinality(Counted(thr)) + 1
    BY ONLY <1>1, <2>2, FS_AddElement
  <2>4. QED BY <2>1, <2>3 DEF IncreaseThreads
<1>21. CASE \E c \in Conns : CheckSocketsFails(c)
  <2>1. PICK c \in Conns : CheckSocketsFails(c)
    BY <1>21
  <2>2. Counted(thr') = Counted(thr)
    BY <2>1 DEF CheckSocketsFails, Counted
  <2>3. QED BY <2>1, <2>2 DEF CheckSocketsFails
<1>22. CASE \E c \in Conns : BeginRoute(c)
  <2>1. PICK c \in Conns : BeginRoute(c)
    BY <1>22
  <2>2. Counted(thr') = Counted(thr)
    BY <2>1 DEF BeginRoute, Counted
  <2>3. QED BY <2>1, <2>2 DEF BeginRoute
<1>23. CASE \E c \in Conns : HonourDisconnect(c)
  <2>1. PICK c \in Conns : HonourDisconnect(c)
    BY <1>23
  <2>2. Counted(thr') = Counted(thr)
    BY <2>1 DEF HonourDisconnect, SeesDisconnect, LeaveLoop, Counted
  <2>3. QED BY <2>1, <2>2 DEF HonourDisconnect, SeesDisconnect, LeaveLoop
<1>24. CASE \E c \in Conns : CloseSockets(c)
  <2>1. PICK c \in Conns : CloseSockets(c)
    BY <1>24
  <2>2. Counted(thr') = Counted(thr)
    BY <2>1 DEF CloseSockets, Counted
  <2>3. QED BY <2>1, <2>2 DEF CloseSockets
<1>25. CASE \E c \in Conns : DecreaseThreads(c)
  <2>1. PICK c \in Conns : DecreaseThreads(c)
    BY <1>25
  <2>2. Counted(thr') = Counted(thr) \ {c} /\ c \in Counted(thr)
    BY <2>1 DEF DecreaseThreads, Counted
  <2>3. Cardinality(Counted(thr')) = Cardinality(Counted(thr)) - 1
    BY ONLY <1>1, <2>2, FS_RemoveElement
  <2>4. QED BY <2>1, <2>3 DEF DecreaseThreads
<1>26. CASE \E c \in Conns : RemoveConnection(c)
  <2>1. PICK c \in Conns : RemoveConnection(c)
    BY <1>26
  <2>2. Counted(thr') = Counted(thr)
    BY <2>1 DEF RemoveConnection, Counted
  <2>3. QED BY <2>1, <2>2 DEF RemoveConnection
<1>27. CASE NotifyBegin BY <1>27 DEF NotifyBegin
<1>28. CASE NotifyBucket BY <1>28 DEF NotifyBucket
<1>29. CASE Stop BY <1>29 DEF Stop
<1>30. CASE SetupFails BY <1>30 DEF SetupFails
<1>31. CASE StartThreadFails
  <2>1. Counted(thr') = Counted(thr)
    BY <1>31 DEF StartThreadFails, Counted, Building, Creating
  <2>2. QED BY <1>31, <2>1 DEF StartThreadFails
<1>32. CASE LookupThrows BY <1>32 DEF LookupThrows
<1>33. CASE RetryAfterFailover BY <1>33 DEF RetryAfterFailover
<1>34. CASE \E c \in Conns : Handshake(c) BY <1>34 DEF Handshake
<1>35. CASE \E c \in Conns : Stall(c) BY <1>35 DEF Stall
<1>36. CASE \E c \in Conns : Unstall(c) BY <1>36 DEF Unstall
<1>37. CASE \E c \in Conns : EndConnection(c)
  <2>1. PICK c \in Conns : EndConnection(c)
    BY <1>37
  <2>2. Counted(thr') = Counted(thr)
    BY <2>1 DEF EndConnection, ConnectionEnds, LeaveLoop, Counted
  <2>3. QED BY <2>1, <2>2 DEF EndConnection, ConnectionEnds, LeaveLoop
<1>38. CASE \E new, keep \in SUBSET Servers : AllowedNodesChange(new, keep)
  BY <1>38 DEF AllowedNodesChange
<1>39. CASE MetadataUnavailable BY <1>39 DEF MetadataUnavailable
<1>40. CASE UNCHANGED vars BY <1>40 DEF vars
<1>41. QED
  BY <1>2, <1>3, <1>4, <1>5, <1>6, <1>7, <1>8, <1>9, <1>10, <1>11, <1>12, <1>13,
     <1>14, <1>15, <1>16, <1>17, <1>18, <1>19, <1>20, <1>21, <1>22, <1>23,
     <1>24, <1>25, <1>26, <1>27, <1>28, <1>29, <1>30, <1>31, <1>32, <1>33,
     <1>34, <1>35, <1>36, <1>37, <1>38, <1>39, <1>40
  DEF Next, Acceptor, Thread, Refresher, Environment, MetadataChange

\* Only create_connection() touches the connection it builds.
LEMMA BuildingStep == TypeOK /\ Building /\ [Next]_vars => Building'
<1> SUFFICES ASSUME TypeOK, Building, [Next]_vars PROVE Building'
  OBVIOUS
<1> USE RoutingAssumption DEF TypeOK, Building, Creating, Returned, accVars, connVars, boxVars, ctxVars, ntfVars
<1>1. CASE SetUp BY <1>1 DEF SetUp
<1>2. CASE LoopTop BY <1>2 DEF LoopTop
<1>3. CASE Poll BY <1>3 DEF Poll
<1>4. CASE FdsDone BY <1>4 DEF FdsDone
<1>5. CASE AcceptFails BY <1>5 DEF AcceptFails, NextFd
<1>6. CASE RejectTooMany \/ \E h \in Hosts : RejectBlocked(h) \/ CheckHost(h)
  BY <1>6 DEF RejectBlocked, CheckHost, RejectTooMany, NextFd
<1>7. CASE \E c \in Conns : Accept(c) BY <1>7 DEF Accept
<1>8. CASE LookupReplicaset BY <1>8 DEF LookupReplicaset
<1>9. CASE Subscribe BY <1>9 DEF Subscribe
<1>10. CASE \E s \in Servers : ChooseServer(s) BY <1>10 DEF ChooseServer
<1>11. CASE NoneAvailable BY <1>11 DEF NoneAvailable
<1>12. CASE Connect BY <1>12 DEF Connect
<1>13. CASE StartThread BY <1>13 DEF StartThread
<1>14. CASE AddConnection BY <1>14 DEF AddConnection
<1>15. CASE DisconnectAll BY <1>15 DEF DisconnectAll
<1>16. CASE WaitForThreads BY <1>16 DEF WaitForThreads
<1>17. CASE Unregister BY <1>17 DEF Unregister
<1>18. CASE Destroy BY <1>18 DEF Destroy
<1>19. CASE \E c \in Conns : IncreaseThreads(c) BY <1>19 DEF IncreaseThreads
<1>20. CASE \E c \in Conns : CheckSocketsFails(c) BY <1>20 DEF CheckSocketsFails
<1>21. CASE \E c \in Conns : BeginRoute(c) BY <1>21 DEF BeginRoute
<1>22. CASE \E c \in Conns : HonourDisconnect(c)
  BY <1>22 DEF HonourDisconnect, SeesDisconnect, LeaveLoop
<1>23. CASE \E c \in Conns : CloseSockets(c) BY <1>23 DEF CloseSockets
<1>24. CASE \E c \in Conns : DecreaseThreads(c) BY <1>24 DEF DecreaseThreads
<1>25. CASE \E c \in Conns : RemoveConnection(c) BY <1>25 DEF RemoveConnection
<1>26. CASE NotifyBegin BY <1>26 DEF NotifyBegin
<1>27. CASE NotifyBucket BY <1>27 DEF NotifyBucket
<1>28. CASE Stop BY <1>28 DEF Stop
<1>29. CASE SetupFails BY <1>29 DEF SetupFails
<1>30. CASE StartThreadFails BY <1>30 DEF StartThreadFails
<1>31. CASE LookupThrows BY <1>31 DEF LookupThrows
<1>32. CASE RetryAfterFailover BY <1>32 DEF RetryAfterFailover
<1>33. CASE \E c \in Conns : Handshake(c) BY <1>33 DEF Handshake
<1>34. CASE \E c \in Conns : Stall(c) BY <1>34 DEF Stall
<1>35. CASE \E c \in Conns : Unstall(c) BY <1>35 DEF Unstall
<1>36. CASE \E c \in Conns : EndConnection(c)
  BY <1>36 DEF EndConnection, ConnectionEnds, LeaveLoop
<1>37. CASE \E new, keep \in SUBSET Servers : AllowedNodesChange(new, keep)
  BY <1>37 DEF AllowedNodesChange
<1>38. CASE MetadataUnavailable BY <1>38 DEF MetadataUnavailable
<1>39. CASE UNCHANGED vars BY <1>39 DEF vars
<1>40. QED
  BY <1>1, <1>2, <1>3, <1>4, <1>5, <1>6, <1>7, <1>8, <1>9, <1>10, <1>11, <1>12,
     <1>13, <1>14, <1>15, <1>16, <1>17, <1>18, <1>19, <1>20, <1>21, <1>22,
     <1>23, <1>24, <1>25, <1>26, <1>27, <1>28, <1>29, <1>30, <1>31, <1>32,
     <1>33, <1>34, <1>35, <1>36, <1>37, <1>38, <1>39
  DEF Next, Acceptor, Thread, Refresher, Environment, MetadataChange

\* A thread closes what the connect gave it before it leaves.
LEMMA SocketsStep == TypeOK /\ Building /\ Sockets /\ [Next]_vars => Sockets'
<1> SUFFICES ASSUME TypeOK, Building, Sockets, [Next]_vars PROVE Sockets'
  OBVIOUS
<1> USE RoutingAssumption DEF TypeOK, Building, Creating, Returned, Begun, Sockets, SocketsClosed, accVars, connVars, boxVars, ctxVars, ntfVars
<1>1. CASE SetUp BY <1>1 DEF SetUp
<1>2. CASE LoopTop BY <1>2 DEF LoopTop
<1>3. CASE Poll BY <1>3 DEF Poll
<1>4. CASE FdsDone BY <1>4 DEF FdsDone
<1>5. CASE AcceptFails BY <1>5 DEF AcceptFails, NextFd
<1>6. CASE RejectTooMany \/ \E h \in Hosts : RejectBlocked(h) \/ CheckHost(h)
  BY <1>6 DEF RejectBlocked, CheckHost, RejectTooMany, NextFd
<1>7. CASE \E c \in Conns : Accept(c) BY <1>7 DEF Accept
<1>8. CASE LookupReplicaset BY <1>8 DEF LookupReplicaset
<1>9. CASE Subscribe BY <1>9 DEF Subscribe
<1>10. CASE \E s \in Servers : ChooseServer(s) BY <1>10 DEF ChooseServer
<1>11. CASE NoneAvailable BY <1>11 DEF NoneAvailable
<1>12. CASE Connect BY <1>12 DEF Connect
<1>13. CASE StartThread BY <1>13 DEF StartThread
<1>14. CASE AddConnection BY <1>14 DEF AddConnection
<1>15. CASE DisconnectAll BY <1>15 DEF DisconnectAll
<1>16. CASE WaitForThreads BY <1>16 DEF WaitForThreads
<1>17. CASE Unregister BY <1>17 DEF Unregister
<1>18. CASE Destroy BY <1>18 DEF Destroy
<1>19. CASE \E c \in Conns : IncreaseThreads(c) BY <1>19 DEF IncreaseThreads
<1>20. CASE \E c \in Conns : CheckSocketsFails(c) BY <1>20 DEF CheckSocketsFails
<1>21. CASE \E c \in Conns : BeginRoute(c) BY <1>21 DEF BeginRoute
<1>22. CASE \E c \in Conns : HonourDisconnect(c)
  BY <1>22 DEF HonourDisconnect, SeesDisconnect, LeaveLoop
<1>23. CASE \E c \in Conns : CloseSockets(c) BY <1>23 DEF CloseSockets
<1>24. CASE \E c \in Conns : DecreaseThreads(c) BY <1>24 DEF DecreaseThreads
<1>25. CASE \E c \in Conns : RemoveConnection(c) BY <1>25 DEF RemoveConnection
<1>26. CASE NotifyBegin BY <1>26 DEF NotifyBegin
<1>27. CASE NotifyBucket BY <1>27 DEF NotifyBucket
<1>28. CASE Stop BY <1>28 DEF Stop
<1>29. CASE SetupFails BY <1>29 DEF SetupFails
<1>30. CASE StartThreadFails BY <1>30 DEF StartThreadFails
<1>31. CASE LookupThrows BY <1>31 DEF LookupThrows
<1>32. CASE RetryAfterFailover BY <1>32 DEF RetryAfterFailover
<1>33. CASE \E c \in Conns : Handshake(c) BY <1>33 DEF Handshake
<1>34. CASE \E c \in Conns : Stall(c) BY <1>34 DEF Stall
<1>35. CASE \E c \in Conns : Unstall(c) BY <1>35 DEF Unstall
<1>36. CASE \E c \in Conns : EndConnection(c)
  BY <1>36 DEF EndConnection, ConnectionEnds, LeaveLoop
<1>37. CASE \E new, keep \in SUBSET Servers : AllowedNodesChange(new, keep)
  BY <1>37 DEF AllowedNodesChange
<1>38. CASE MetadataUnavailable BY <1>38 DEF MetadataUnavailable
<1>39. CASE UNCHANGED vars BY <1>39 DEF vars
<1>40. QED
  BY <1>1, <1>2, <1>3, <1>4, <1>5, <1>6, <1>7, <1>8, <1>9, <1>10, <1>11, <1>12,
     <1>13, <1>14, <1>15, <1>16, <1>17, <1>18, <1>19, <1>20, <1>21, <1>22,
     <1>23, <1>24, <1>25, <1>26, <1>27, <1>28, <1>29, <1>30, <1>31, <1>32,
     <1>33, <1>34, <1>35, <1>36, <1>37, <1>38, <1>39
  DEF Next, Acceptor, Thread, Refresher, Environment, MetadataChange

\* The mutex of the callback list orders Unregister after the walk.
LEMMA RegisteredStep == TypeOK /\ Registered /\ [Next]_vars => Registered'
<1> SUFFICES ASSUME TypeOK, Registered, [Next]_vars PROVE Registered'
  OBVIOUS
<1> USE RoutingAssumption DEF TypeOK, Registered, Quiet, accVars, connVars, boxVars, ctxVars, ntfVars
<1>1. CASE SetUp BY <1>1 DEF SetUp
<1>2. CASE LoopTop BY <1>2 DEF LoopTop
<1>3. CASE Poll BY <1>3 DEF Poll
<1>4. CASE FdsDone BY <1>4 DEF FdsDone
<1>5. CASE AcceptFails BY <1>5 DEF AcceptFails, NextFd
<1>6. CASE RejectTooMany \/ \E h \in Hosts : RejectBlocked(h) \/ CheckHost(h)
  BY <1>6 DEF RejectBlocked, CheckHost, RejectTooMany, NextFd
<1>7. CASE \E c \in Conns : Accept(c) BY <1>7 DEF Accept
<1>8. CASE LookupReplicaset BY <1>8 DEF LookupReplicaset
<1>9. CASE Subscribe BY <1>9 DEF Subscribe
<1>10. CASE \E s \in Servers : ChooseServer(s) BY <1>10 DEF ChooseServer
<1>11. CASE NoneAvailable BY <1>11 DEF NoneAvailable
<1>12. CASE Connect BY <1>12 DEF Connect
<1>13. CASE StartThread BY <1>13 DEF StartThread
<1>14. CASE AddConnection BY <1>14 DEF AddConnection
<1>15. CASE DisconnectAll BY <1>15 DEF DisconnectAll
<1>16. CASE WaitForThreads BY <1>16 DEF WaitForThreads
<1>17. CASE Unregister BY <1>17 DEF Unregister
<1>18. CASE Destroy BY <1>18 DEF Destroy
<1>19. CASE \E c \in Conns : IncreaseThreads(c) BY <1>19 DEF IncreaseThreads
<1>20. CASE \E c \in Conns : CheckSocketsFails(c) BY <1>20 DEF CheckSocketsFails
<1>21. CASE \E c \in Conns : BeginRoute(c) BY <1>21 DEF BeginRoute
<1>22. CASE \E c \in Conns : HonourDisconnect(c)
  BY <1>22 DEF HonourDisconnect, SeesDisconnect, LeaveLoop
<1>23. CASE \E c \in Conns : CloseSockets(c) BY <1>23 DEF CloseSockets
<1>24. CASE \E c \in Conns : DecreaseThreads(c) BY <1>24 DEF DecreaseThreads
<1>25. CASE \E c \in Conns : RemoveConnection(c) BY <1>25 DEF RemoveConnection
<1>26. CASE NotifyBegin BY <1>26 DEF NotifyBegin
<1>27. CASE NotifyBucket BY <1>27 DEF NotifyBucket
<1>28. CASE Stop BY <1>28 DEF Stop
<1>29. CASE SetupFails BY <1>29 DEF SetupFails
<1>30. CASE StartThreadFails BY <1>30 DEF StartThreadFails
<1>31. CASE LookupThrows BY <1>31 DEF LookupThrows
<1>32. CASE RetryAfterFailover BY <1>32 DEF RetryAfterFailover
<1>33. CASE \E c \in Conns : Handshake(c) BY <1>33 DEF Handshake
<1>34. CASE \E c \in Conns : Stall(c) BY <1>34 DEF Stall
<1>35. CASE \E c \in Conns : Unstall(c) BY <1>35 DEF Unstall
<1>36. CASE \E c \in Conns : EndConnection(c)
  BY <1>36 DEF EndConnection, ConnectionEnds, LeaveLoop
<1>37. CASE \E new, keep \in SUBSET Servers : AllowedNodesChange(new, keep)
  BY <1>37 DEF AllowedNodesChange
<1>38. CASE MetadataUnavailable BY <1>38 DEF MetadataUnavailable
<1>39. CASE UNCHANGED vars BY <1>39 DEF vars
<1>40. QED
  BY <1>1, <1>2, <1>3, <1>4, <1>5, <1>6, <1>7, <1>8, <1>9, <1>10, <1>11, <1>12,
     <1>13, <1>14, <1>15, <1>16, <1>17, <1>18, <1>19, <1>20, <1>21, <1>22,
     <1>23, <1>24, <1>25, <1>26, <1>27, <1>28, <1>29, <1>30, <1>31, <1>32,
     <1>33, <1>34, <1>35, <1>36, <1>37, <1>38, <1>39
  DEF Next, Acceptor, Thread, Refresher, Environment, MetadataChange

\* No connection enters the container once the accept loop is left.
LEMMA DrainingStep == TypeOK /\ Draining /\ [Next]_vars => Draining'
<1> SUFFICES ASSUME TypeOK, Draining, [Next]_vars PROVE Draining'
  OBVIOUS
<1> USE RoutingAssumption DEF TypeOK, Draining, DrainMarksAll, accVars, connVars, boxVars, ctxVars, ntfVars
<1>1. CASE SetUp BY <1>1 DEF SetUp
<1>2. CASE LoopTop BY <1>2 DEF LoopTop
<1>3. CASE Poll BY <1>3 DEF Poll
<1>4. CASE FdsDone BY <1>4 DEF FdsDone
<1>5. CASE AcceptFails BY <1>5 DEF AcceptFails, NextFd
<1>6. CASE RejectTooMany \/ \E h \in Hosts : RejectBlocked(h) \/ CheckHost(h)
  BY <1>6 DEF RejectBlocked, CheckHost, RejectTooMany, NextFd
<1>7. CASE \E c \in Conns : Accept(c) BY <1>7 DEF Accept
<1>8. CASE LookupReplicaset BY <1>8 DEF LookupReplicaset
<1>9. CASE Subscribe BY <1>9 DEF Subscribe
<1>10. CASE \E s \in Servers : ChooseServer(s) BY <1>10 DEF ChooseServer
<1>11. CASE NoneAvailable BY <1>11 DEF NoneAvailable
<1>12. CASE Connect BY <1>12 DEF Connect
<1>13. CASE StartThread BY <1>13 DEF StartThread
<1>14. CASE AddConnection BY <1>14 DEF AddConnection
<1>15. CASE DisconnectAll BY <1>15 DEF DisconnectAll
<1>16. CASE WaitForThreads BY <1>16 DEF WaitForThreads
<1>17. CASE Unregister BY <1>17 DEF Unregister
<1>18. CASE Destroy BY <1>18 DEF Destroy
<1>19. CASE \E c \in Conns : IncreaseThreads(c) BY <1>19 DEF IncreaseThreads
<1>20. CASE \E c \in Conns : CheckSocketsFails(c) BY <1>20 DEF CheckSocketsFails
<1>21. CASE \E c \in Conns : BeginRoute(c) BY <1>21 DEF BeginRoute
<1>22. CASE \E c \in Conns : HonourDisconnect(c)
  BY <1>22 DEF HonourDisconnect, SeesDisconnect, LeaveLoop
<1>23. CASE \E c \in Conns : CloseSockets(c) BY <1>23 DEF CloseSockets
<1>24. CASE \E c \in Conns : DecreaseThreads(c) BY <1>24 DEF DecreaseThreads
<1>25. CASE \E c \in Conns : RemoveConnection(c) BY <1>25 DEF RemoveConnection
<1>26. CASE NotifyBegin BY <1>26 DEF NotifyBegin
<1>27. CASE NotifyBucket BY <1>27 DEF NotifyBucket
<1>28. CASE Stop BY <1>28 DEF Stop
<1>29. CASE SetupFails BY <1>29 DEF SetupFails
<1>30. CASE StartThreadFails BY <1>30 DEF StartThreadFails
<1>31. CASE LookupThrows BY <1>31 DEF LookupThrows
<1>32. CASE RetryAfterFailover BY <1>32 DEF RetryAfterFailover
<1>33. CASE \E c \in Conns : Handshake(c) BY <1>33 DEF Handshake
<1>34. CASE \E c \in Conns : Stall(c) BY <1>34 DEF Stall
<1>35. CASE \E c \in Conns : Unstall(c) BY <1>35 DEF Unstall
<1>36. CASE \E c \in Conns : EndConnection(c)
  BY <1>36 DEF EndConnection, ConnectionEnds, LeaveLoop
<1>37. CASE \E new, keep \in SUBSET Servers : AllowedNodesChange(new, keep)
  BY <1>37 DEF AllowedNodesChange
<1>38. CASE MetadataUnavailable BY <1>38 DEF MetadataUnavailable
<1>39. CASE UNCHANGED vars BY <1>39 DEF vars
<1>40. QED
  BY <1>1, <1>2, <1>3, <1>4, <1>5, <1>6, <1>7, <1>8, <1>9, <1>10, <1>11, <1>12,
     <1>13, <1>14, <1>15, <1>16, <1>17, <1>18, <1>19, <1>20, <1>21, <1>22,
     <1>23, <1>24, <1>25, <1>26, <1>27, <1>28, <1>29, <1>30, <1>31, <1>32,
     <1>33, <1>34, <1>35, <1>36, <1>37, <1>38, <1>39
  DEF Next, Acceptor, Thread, Refresher, Environment, MetadataChange

\* Neither walk misses a connection that stays in the container.
LEMMA NotifyingStep == TypeOK /\ Building /\ Notifying /\ [Next]_vars => Notifying'
<1> SUFFICES ASSUME TypeOK, Building, Notifying, [Next]_vars PROVE Notifying'
  OBVIOUS
<1> USE RoutingAssumption DEF TypeOK, Building, Creating, Notifying, NotificationComplete, accVars, connVars, boxVars, ctxVars, ntfVars
<1>1. CASE SetUp BY <1>1 DEF SetUp
<1>2. CASE LoopTop BY <1>2 DEF LoopTop
<1>3. CASE Poll BY <1>3 DEF Poll
<1>4. CASE FdsDone BY <1>4 DEF FdsDone
<1>5. CASE AcceptFails BY <1>5 DEF AcceptFails, NextFd
<1>6. CASE RejectTooMany \/ \E h \in Hosts : RejectBlocked(h) \/ CheckHost(h)
  BY <1>6 DEF RejectBlocked, CheckHost, RejectTooMany, NextFd
<1>7. CASE \E c \in Conns : Accept(c) BY <1>7 DEF Accept
<1>8. CASE LookupReplicaset BY <1>8 DEF LookupReplicaset
<1>9. CASE Subscribe BY <1>9 DEF Subscribe
<1>10. CASE \E s \in Servers : ChooseServer(s) BY <1>10 DEF ChooseServer
<1>11. CASE NoneAvailable BY <1>11 DEF NoneAvailable
<1>12. CASE Connect BY <1>12 DEF Connect
<1>13. CASE StartThread BY <1>13 DEF StartThread
<1>14. CASE AddConnection BY <1>14 DEF AddConnection
<1>15. CASE DisconnectAll BY <1>15 DEF DisconnectAll
<1>16. CASE WaitForThreads BY <1>16 DEF WaitForThreads
<1>17. CASE Unregister BY <1>17 DEF Unregister
<1>18. CASE Destroy BY <1>18 DEF Destroy
<1>19. CASE \E c \in Conns : IncreaseThreads(c) BY <1>19 DEF IncreaseThreads
<1>20. CASE \E c \in Conns : CheckSocketsFails(c) BY <1>20 DEF CheckSocketsFails
<1>21. CASE \E c \in Conns : BeginRoute(c) BY <1>21 DEF BeginRoute
<1>22. CASE \E c \in Conns : HonourDisconnect(c)
  BY <1>22 DEF HonourDisconnect, SeesDisconnect, LeaveLoop
<1>23. CASE \E c \in Conns : CloseSockets(c) BY <1>23 DEF CloseSockets
<1>24. CASE \E c \in Conns : DecreaseThreads(c) BY <1>24 DEF DecreaseThreads
<1>25. CASE \E c \in Conns : RemoveConnection(c) BY <1>25 DEF RemoveConnection
<1>26. CASE NotifyBegin BY <1>26 DEF NotifyBegin
<1>27. CASE NotifyBucket BY <1>27 DEF NotifyBucket
<1>28. CASE Stop BY <1>28 DEF Stop
<1>29. CASE SetupFails BY <1>29 DEF SetupFails
<1>30. CASE StartThreadFails BY <1>30 DEF StartThreadFails
<1>31. CASE LookupThrows BY <1>31 DEF LookupThrows
<1>32. CASE RetryAfterFailover BY <1>32 DEF RetryAfterFailover
<1>33. CASE \E c \in Conns : Handshake(c) BY <1>33 DEF Handshake
<1>34. CASE \E c \in Conns : Stall(c) BY <1>34 DEF Stall
<1>35. CASE \E c \in Conns : Unstall(c) BY <1>35 DEF Unstall
<1>36. CASE \E c \in Conns : EndConnection(c)
  BY <1>36 DEF EndConnection, ConnectionEnds, LeaveLoop
<1>37. CASE \E new, keep \in SUBSET Servers : AllowedNodesChange(new, keep)
  BY <1>37 DEF AllowedNodesChange
<1>38. CASE MetadataUnavailable BY <1>38 DEF MetadataUnavailable
<1>39. CASE UNCHANGED vars BY <1>39 DEF vars
<1>40. QED
  BY <1>1, <1>2, <1>3, <1>4, <1>5, <1>6, <1>7, <1>8, <1>9, <1>10, <1>11, <1>12,
     <1>13, <1>14, <1>15, <1>16, <1>17, <1>18, <1>19, <1>20, <1>21, <1>22,
     <1>23, <1>24, <1>25, <1>26, <1>27, <1>28, <1>29, <1>30, <1>31, <1>32,
     <1>33, <1>34, <1>35, <1>36, <1>37, <1>38, <1>39
  DEF Next, Acceptor, Thread, Refresher, Environment, MetadataChange

\* The 16-bit counter moves with the set of the routed connections.
LEMMA RoutesStep == TypeOK /\ RoutesCounted /\ Building /\ [Next]_vars => RoutesCounted'
<1> SUFFICES ASSUME TypeOK, RoutesCounted, Building, [Next]_vars PROVE RoutesCounted'
  OBVIOUS
<1> USE DEF TypeOK, RoutesCounted, accVars, connVars, boxVars, ctxVars, ntfVars
<1>1. IsFiniteSet(Routed(thr)) /\ Cardinality(Routed(thr)) \in Nat
  BY RoutingAssumption, FS_Subset, FS_CardinalityType DEF Routed
<1>2. CASE SetUp BY <1>2 DEF SetUp
<1>3. CASE LoopTop BY <1>3 DEF LoopTop
<1>4. CASE Poll BY <1>4 DEF Poll
<1>5. CASE FdsDone BY <1>5 DEF FdsDone
<1>6. CASE AcceptFails BY <1>6 DEF AcceptFails, NextFd
<1>7. CASE RejectTooMany \/ \E h \in Hosts : RejectBlocked(h) \/ CheckHost(h)
  BY <1>7 DEF RejectBlocked, CheckHost, RejectTooMany, NextFd
<1>8. CASE \E c \in Conns : Accept(c) BY <1>8 DEF Accept
<1>9. CASE LookupReplicaset BY <1>9 DEF LookupReplicaset
<1>10. CASE Subscribe BY <1>10 DEF Subscribe
<1>11. CASE \E s \in Servers : ChooseServer(s) BY <1>11 DEF ChooseServer
<1>12. CASE NoneAvailable BY <1>12 DEF NoneAvailable
<1>13. CASE Connect BY <1>13 DEF Connect
<1>14. CASE StartThread
  <2>1. Routed(thr') = Routed(thr)
    BY <1>14 DEF StartThread, Routed, Building, Creating
  <2>2. QED BY <1>14, <2>1 DEF StartThread
<1>15. CASE AddConnection BY <1>15 DEF AddConnection
<1>16. CASE DisconnectAll BY <1>16 DEF DisconnectAll
<1>17. CASE WaitForThreads BY <1>17 DEF WaitForThreads
<1>18. CASE Unregister BY <1>18 DEF Unregister
<1>19. CASE Destroy BY <1>19 DEF Destroy
<1>20. CASE \E c \in Conns : IncreaseThreads(c)
  <2>1. PICK c \in Conns : IncreaseThreads(c)
    BY <1>20
  <2>2. Routed(thr') = Routed(thr)
    BY <2>1 DEF IncreaseThreads, Routed
  <2>3. QED BY <2>1, <2>2 DEF IncreaseThreads
<1>21. CASE \E c \in Conns : CheckSocketsFails(c)
  <2>1. PICK c \in Conns : CheckSocketsFails(c)
    BY <1>21
  <2>2. Routed(thr') = Routed(thr)
    BY <2>1 DEF CheckSocketsFails, Routed
  <2>3. QED BY <2>1, <2>2 DEF CheckSocketsFails
<1>22. CASE \E c \in Conns : BeginRoute(c)
  <2>1. PICK c \in Conns : BeginRoute(c)
    BY <1>22
  <2>2. Routed(thr') = Routed(thr) \cup {c} /\ c \notin Routed(thr)
    BY <2>1 DEF BeginRoute, Routed
  <2>3. Cardinality(Routed(thr')) = Cardinality(Routed(thr)) + 1
    BY ONLY <1>1, <2>2, FS_AddElement
  <2>4. info_active_routes_' = ((Cardinality(Routed(thr)) % RouteModulus) + 1) % RouteModulus
    BY <2>1 DEF BeginRoute
  <2>5. QED BY <1>1, <2>3, <2>4, ModIncrement, RoutingAssumption
<1>23. CASE \E c \in Conns : HonourDisconnect(c)
  <2>1. PICK c \in Conns : HonourDisconnect(c)
    BY <1>23
  <2>2. Routed(thr') = Routed(thr)
    BY <2>1 DEF HonourDisconnect, SeesDisconnect, LeaveLoop, Routed
  <2>3. QED BY <2>1, <2>2 DEF HonourDisconnect, SeesDisconnect, LeaveLoop
<1>24. CASE \E c \in Conns : CloseSockets(c)
  <2>1. PICK c \in Conns : CloseSockets(c)
    BY <1>24
  <2>2. Routed(thr') = Routed(thr) \ {c} /\ c \in Routed(thr)
    BY <2>1 DEF CloseSockets, Routed
  <2>3. Cardinality(Routed(thr')) = Cardinality(Routed(thr)) - 1
    BY ONLY <1>1, <2>2, FS_RemoveElement
  <2>4. Cardinality(Routed(thr)) # 0
    BY <1>1, <2>2, FS_EmptySet
  <2>5. info_active_routes_' =
          ((Cardinality(Routed(thr)) % RouteModulus) + RouteModulus - 1) % RouteModulus
    BY <2>1 DEF CloseSockets
  <2>6. QED BY <1>1, <2>3, <2>4, <2>5, ModDecrement, RoutingAssumption
<1>25. CASE \E c \in Conns : DecreaseThreads(c)
  <2>1. PICK c \in Conns : DecreaseThreads(c)
    BY <1>25
  <2>2. Routed(thr') = Routed(thr)
    BY <2>1 DEF DecreaseThreads, Routed
  <2>3. QED BY <2>1, <2>2 DEF DecreaseThreads
<1>26. CASE \E c \in Conns : RemoveConnection(c)
  <2>1. PICK c \in Conns : RemoveConnection(c)
    BY <1>26
  <2>2. Routed(thr') = Routed(thr)
    BY <2>1 DEF RemoveConnection, Routed
  <2>3. QED BY <2>1, <2>2 DEF RemoveConnection
<1>27. CASE NotifyBegin BY <1>27 DEF NotifyBegin
<1>28. CASE NotifyBucket BY <1>28 DEF NotifyBucket
<1>29. CASE Stop BY <1>29 DEF Stop
<1>30. CASE SetupFails BY <1>30 DEF SetupFails
<1>31. CASE StartThreadFails
  <2>1. Routed(thr') = Routed(thr)
    BY <1>31 DEF StartThreadFails, Routed, Building, Creating
  <2>2. QED BY <1>31, <2>1 DEF StartThreadFails
<1>32. CASE LookupThrows BY <1>32 DEF LookupThrows
<1>33. CASE RetryAfterFailover BY <1>33 DEF RetryAfterFailover
<1>34. CASE \E c \in Conns : Handshake(c) BY <1>34 DEF Handshake
<1>35. CASE \E c \in Conns : Stall(c) BY <1>35 DEF Stall
<1>36. CASE \E c \in Conns : Unstall(c) BY <1>36 DEF Unstall
<1>37. CASE \E c \in Conns : EndConnection(c)
  <2>1. PICK c \in Conns : EndConnection(c)
    BY <1>37
  <2>2. Routed(thr') = Routed(thr)
    BY <2>1 DEF EndConnection, ConnectionEnds, LeaveLoop, Routed
  <2>3. QED BY <2>1, <2>2 DEF EndConnection, ConnectionEnds, LeaveLoop
<1>38. CASE \E new, keep \in SUBSET Servers : AllowedNodesChange(new, keep)
  BY <1>38 DEF AllowedNodesChange
<1>39. CASE MetadataUnavailable BY <1>39 DEF MetadataUnavailable
<1>40. CASE UNCHANGED vars BY <1>40 DEF vars
<1>41. QED
  BY <1>2, <1>3, <1>4, <1>5, <1>6, <1>7, <1>8, <1>9, <1>10, <1>11, <1>12, <1>13,
     <1>14, <1>15, <1>16, <1>17, <1>18, <1>19, <1>20, <1>21, <1>22, <1>23,
     <1>24, <1>25, <1>26, <1>27, <1>28, <1>29, <1>30, <1>31, <1>32, <1>33,
     <1>34, <1>35, <1>36, <1>37, <1>38, <1>39, <1>40
  DEF Next, Acceptor, Thread, Refresher, Environment, MetadataChange

\* A section that has not been set up satisfies the invariant.
LEMMA Initially == Init => IInv
<1> SUFFICES ASSUME Init PROVE IInv
  OBVIOUS
<1> USE RoutingAssumption DEF Init
<1>1. TypeOK
  <2>1. /\ thr \in [Conns -> ThrStates]
        /\ host \in [Conns -> Hosts \cup {NoServer}]
        /\ server \in [Conns -> Servers \cup {NoServer}]
        /\ csock \in [Conns -> SockStates] /\ ssock \in [Conns -> SockStates]
        /\ conn_error_counters_ \in [Hosts -> Nat]
    BY DEF ThrStates, SockStates
  <2>2. /\ acc \in AccStates /\ ready \in 0..NumListen
        /\ accBucket \in 1..NumBuckets /\ ntfBucket \in 1..NumBuckets
        /\ info_active_routes_ \in 0..(RouteModulus - 1)
    BY DEF AccStates
  <2>3. QED BY <2>1, <2>2 DEF TypeOK
<1>2. Counted(thr) = {} /\ Routed(thr) = {}
  BY DEF Counted, Routed
<1>3. ThreadsCounted /\ RoutesCounted
  BY <1>2, FS_EmptySet, RoutingAssumption DEF ThreadsCounted, RoutesCounted
<1>4. Building /\ Sockets
  BY DEF Building, Creating, Sockets, Begun, SocketsClosed
<1>5. Registered /\ Draining /\ Notifying
  BY DEF Registered, Quiet, Draining, DrainMarksAll, Notifying, NotificationComplete
<1>6. QED BY <1>1, <1>3, <1>4, <1>5 DEF IInv

\* The inductive invariant: how a connection is built, which sockets its thread
\* holds and how far the two walks over the container have got, together with
\* the two counters.
THEOREM Invariance == Spec => []IInv
<1>1. IInv /\ [Next]_vars => IInv'
  BY TypeStep, ThreadsStep, RoutesStep, BuildingStep, SocketsStep, RegisteredStep,
     DrainingStep, NotifyingStep DEF IInv
<1>2. QED BY Initially, <1>1, PTL DEF Spec

\* Every variable keeps its type, the thread counter is never negative.
THEOREM TypeCorrect == Spec => []TypeOK
<1>1. IInv => TypeOK
  BY DEF IInv
<1>2. QED BY Invariance, <1>1, PTL

\* active_client_threads_ is the number of threads start_acceptor() has to wait
\* for, on every path through run() and in every interleaving.
THEOREM ThreadsCountedAlways == Spec => []ThreadsCounted
<1>1. IInv => ThreadsCounted
  BY DEF IInv
<1>2. QED BY Invariance, <1>1, PTL

\* info_active_routes_ is the number of routed connections modulo 2^16.
THEOREM RoutesCountedAlways == Spec => []RoutesCounted
<1>1. IInv => RoutesCounted
  BY DEF IInv
<1>2. QED BY Invariance, <1>1, PTL

\* No path out of run() leaks a socket.
THEOREM SocketsClosedAlways == Spec => []SocketsClosed
<1>1. IInv => SocketsClosed
  BY DEF IInv, Sockets
<1>2. QED BY Invariance, <1>1, PTL

\* The refresh thread never runs the callback of a section that is gone.
THEOREM NotifierSafe == Spec => []NotifierNeverOutlivesRouting
<1>1. IInv => NotifierNeverOutlivesRouting
  BY DEF IInv, Registered, Quiet, NotifierNeverOutlivesRouting
<1>2. QED BY Invariance, <1>1, PTL

\* disconnect(nodes) misses no connection that stays in the container.
THEOREM NotificationCompleteAlways == Spec => []NotificationComplete
<1>1. IInv => NotificationComplete
  BY DEF IInv, Notifying
<1>2. QED BY Invariance, <1>1, PTL

\* The acceptor waits for marked connections only.
THEOREM DrainMarksAllAlways == Spec => []DrainMarksAll
<1>1. IInv => DrainMarksAll
  BY DEF IInv, Draining
<1>2. QED BY Invariance, <1>1, PTL

(***************************************************************************)
(* The refinement of RoutingSection.  A session without a thread is the    *)
(* one under construction; a thread that has not ended is in the container *)
(* or about to be added to it, so that disconnect_all() reaches it.        *)
(***************************************************************************)
HandedOver ==
  /\ acc = "setup" => \A c \in Conns : csock[c] = "none"
  /\ \A c \in Conns : thr[c] = "none" /\ csock[c] # "none" => acc \in Creating /\ cur = c
  /\ \A c \in Conns : thr[c] \in {"spawned", "counted"} =>
       \/ c \in connections \/ acc = "destroyed"
       \/ acc = "add" /\ cur = c
  /\ acc \in {"wait", "unregister", "stopped", "destroyed"} =>
       \A c \in Conns : thr[c] \in {"spawned", "counted"} => c \in marked

\* The 16-bit route counter has not wrapped around.
NoWrap == Cardinality(Routed(thr)) < RouteModulus

\* Whoever is started is added to the container before the acceptor goes on.
LEMMA HandedOverStep == IInv /\ HandedOver /\ [Next]_vars => HandedOver'
<1> SUFFICES ASSUME IInv, HandedOver, [Next]_vars PROVE HandedOver'
  OBVIOUS
<1>1. TypeOK /\ Building /\ Draining
  BY DEF IInv
<1> USE <1>1, RoutingAssumption
    DEF TypeOK, HandedOver, Creating, accVars, connVars, boxVars, ctxVars, ntfVars
<1>2. CASE UNCHANGED <<acc, cur, thr, csock, marked, connections>> BY <1>2
<1>3. CASE \/ SetUp \/ LoopTop \/ Poll \/ FdsDone \/ RejectTooMany
           \/ \E h \in Hosts : CheckHost(h)
  BY <1>3 DEF SetUp, LoopTop, Poll, FdsDone, RejectTooMany, CheckHost
<1>4. CASE \E c \in Conns : Accept(c)
  BY <1>4 DEF Accept, Building
<1>5. CASE \/ LookupReplicaset \/ Subscribe \/ NoneAvailable \/ Connect
           \/ LookupThrows \/ RetryAfterFailover
           \/ \E s \in Servers : ChooseServer(s)
  BY <1>5 DEF LookupReplicaset, Subscribe, NoneAvailable, Connect, LookupThrows,
              RetryAfterFailover, ChooseServer
<1>6. CASE StartThread BY <1>6 DEF StartThread, Building
<1>7. CASE StartThreadFails BY <1>7 DEF StartThreadFails, Building
<1>8. CASE AddConnection BY <1>8 DEF AddConnection, Building
<1>9. CASE DisconnectAll
  <2>1. CASE accBucket # NumBuckets
    BY <1>9, <2>1 DEF DisconnectAll
  <2>2. CASE accBucket = NumBuckets
    <3>1. \A c \in connections : c \in marked'
      BY <1>9, <2>2 DEF DisconnectAll, Draining
    <3>2. QED BY <1>9, <2>2, <3>1 DEF DisconnectAll
  <2>3. QED BY <2>1, <2>2
<1>10. CASE WaitForThreads BY <1>10 DEF WaitForThreads
<1>11. CASE Unregister \/ Destroy BY <1>11 DEF Unregister, Destroy
<1>12. CASE SetupFails BY <1>12 DEF SetupFails, Building
<1>13. CASE \E c \in Conns : IncreaseThreads(c) BY <1>13 DEF IncreaseThreads
<1>14. CASE \E c \in Conns : CheckSocketsFails(c) BY <1>14 DEF CheckSocketsFails, Building
<1>15. CASE \E c \in Conns : BeginRoute(c) BY <1>15 DEF BeginRoute
<1>16. CASE \E c \in Conns : HonourDisconnect(c) \/ EndConnection(c)
  BY <1>16 DEF HonourDisconnect, SeesDisconnect, EndConnection, ConnectionEnds, LeaveLoop
<1>17. CASE \E c \in Conns : CloseSockets(c) BY <1>17 DEF CloseSockets, Building
<1>18. CASE \E c \in Conns : DecreaseThreads(c) BY <1>18 DEF DecreaseThreads
<1>19. CASE \E c \in Conns : RemoveConnection(c) BY <1>19 DEF RemoveConnection
<1>20. CASE NotifyBucket BY <1>20 DEF NotifyBucket
<1>21. QED
  BY <1>2, <1>3, <1>4, <1>5, <1>6, <1>7, <1>8, <1>9, <1>10, <1>11, <1>12, <1>13,
     <1>14, <1>15, <1>16, <1>17, <1>18, <1>19, <1>20
  DEF Next, Acceptor, Thread, Refresher, Environment, MetadataChange, AcceptFails, NextFd,
      RejectBlocked, RejectTooMany, NotifyBegin, Stop, Handshake, Stall, Unstall,
      AllowedNodesChange, MetadataUnavailable, vars

\* What a connection counts as in the abstract section, before and after a step.
LEMMA SessionValues ==
  ASSUME NEW c \in Conns
  PROVE  /\ thr[c] \in {"spawned", "counted"} => SessionOf(c) = "admitted"
         /\ thr[c] = "routing" => SessionOf(c) = "served"
         /\ thr[c] = "closing" => SessionOf(c) = "ending"
         /\ thr[c] \in {"exit", "leaving", "done", "failed"} => SessionOf(c) = "over"
         /\ thr[c] = "none" /\ csock[c] # "none" => SessionOf(c) = "admitted"
         /\ thr[c] = "none" /\ csock[c] = "none" => SessionOf(c) = "none"
         /\ thr'[c] \in {"spawned", "counted"} => SessionOf(c)' = "admitted"
         /\ thr'[c] = "routing" => SessionOf(c)' = "served"
         /\ thr'[c] = "closing" => SessionOf(c)' = "ending"
         /\ thr'[c] \in {"exit", "leaving", "done", "failed"} => SessionOf(c)' = "over"
         /\ thr'[c] = "none" /\ csock'[c] # "none" => SessionOf(c)' = "admitted"
         /\ thr'[c] = "none" /\ csock'[c] = "none" => SessionOf(c)' = "none"
         /\ thr'[c] = thr[c] /\ csock'[c] = csock[c] => SessionOf(c)' = SessionOf(c)
BY DEF SessionOf

\* The phase in the states of the acceptor.
LEMMA PhaseValues ==
  /\ acc \in {"disconnect_all", "wait"} => PhaseOf = "draining"
  /\ acc \in {"unregister", "stopped", "destroyed"} => PhaseOf = "closed"
  /\ acc \in AccStates \ {"disconnect_all", "wait", "unregister", "stopped", "destroyed"}
       => PhaseOf = "listening"
  /\ acc' \in {"disconnect_all", "wait"} => PhaseOf' = "draining"
  /\ acc' \in {"unregister", "stopped", "destroyed"} => PhaseOf' = "closed"
  /\ acc' \in AccStates \ {"disconnect_all", "wait", "unregister", "stopped", "destroyed"}
       => PhaseOf' = "listening"
  /\ acc' = acc => PhaseOf' = PhaseOf
BY DEF PhaseOf

\* The sessions that are served or ending are the routed connections.
LEMMA ServedRouted == TypeOK => Section!InState({"served", "ending"}) = Routed(thr)
<1> SUFFICES ASSUME TypeOK PROVE Section!InState({"served", "ending"}) = Routed(thr)
  OBVIOUS
<1>1. ASSUME NEW c \in Conns
      PROVE  SessionOf(c) \in {"served", "ending"} <=> thr[c] \in {"routing", "closing"}
  BY SessionValues DEF TypeOK, ThrStates
<1>2. QED BY <1>1 DEF Section!InState, Routed

\* The section counts as this module does.
LEMMA SameCardinality == \A S : Section!Cardinality(S) = Cardinality(S)
BY DEF Section!Cardinality, Cardinality

\* The counter the admission check reads is the number of served sessions.
LEMMA SectionServed ==
  TypeOK /\ RoutesCounted /\ NoWrap => Section!Served = info_active_routes_
<1> SUFFICES ASSUME TypeOK, RoutesCounted, NoWrap PROVE Section!Served = info_active_routes_
  OBVIOUS
<1>1. Cardinality(Routed(thr)) \in Nat
  BY RoutingAssumption, FS_Subset, FS_CardinalityType DEF Routed
<1>2. Cardinality(Routed(thr)) % RouteModulus = Cardinality(Routed(thr))
  BY <1>1, RoutingAssumption DEF NoWrap
<1>3. QED BY <1>2, ServedRouted, SameCardinality DEF RoutesCounted, Section!Served

\* A step that moves one connection from one state of a session to another.
LEMMA MoveOne ==
  ASSUME NEW c \in Conns, NEW from, NEW to,
         SessionOf(c) = from, SessionOf(c)' = to,
         \A d \in Conns \ {c} : thr'[d] = thr[d] /\ csock'[d] = csock[d],
         PhaseOf' = PhaseOf, marked' = marked
  PROVE  Section!Move(c, from, to)
<1>1. \A d \in Conns \ {c} : SessionOf(d)' = SessionOf(d)
  BY SessionValues
<1>2. [d \in Conns |-> SessionOf(d)]' = [[d \in Conns |-> SessionOf(d)] EXCEPT ![c] = to]
  BY <1>1
<1>3. QED BY <1>2 DEF Section!Move

\* A section that is not set up listens, and has no sessions.
LEMMA SectionInit == Init => Section!SInit
<1> SUFFICES ASSUME Init PROVE Section!SInit
  OBVIOUS
<1>1. PhaseOf = "listening"
  BY PhaseValues DEF Init, AccStates
<1>2. \A c \in Conns : SessionOf(c) = "none"
  BY SessionValues DEF Init
<1>3. QED BY <1>1, <1>2 DEF Init, Section!SInit

\* A step of a thread, the acceptor, the container or the notifier is a step of
\* the section or none.
LEMMA SectionStep ==
  IInv /\ IInv' /\ HandedOver /\ NoWrap /\ [Next]_vars => [Section!SNext]_(Section!svars)
<1> SUFFICES ASSUME IInv, IInv', HandedOver, NoWrap, [Next]_vars
             PROVE  [Section!SNext]_(Section!svars)
  OBVIOUS
<1>1. TypeOK /\ TypeOK' /\ Building /\ ThreadsCounted /\ RoutesCounted
  BY DEF IInv
<1> USE <1>1 DEF accVars, connVars, boxVars, ctxVars, ntfVars
<1>2. CASE /\ UNCHANGED <<peer, host, marked, conn_error_counters_>> /\ PhaseOf' = PhaseOf
           /\ \A c \in Conns : SessionOf(c)' = SessionOf(c)
  <2>1. [c \in Conns |-> SessionOf(c)]' = [c \in Conns |-> SessionOf(c)]
    BY <1>2
  <2>2. UNCHANGED Section!svars
    BY <1>2, <2>1 DEF Section!svars
  <2>3. QED BY <2>2
<1>3. CASE UNCHANGED <<peer, host, marked, conn_error_counters_, thr, csock>> /\ PhaseOf' = PhaseOf
  BY <1>2, <1>3, SessionValues
<1>4. CASE \/ SetUp \/ Poll \/ FdsDone \/ LookupReplicaset \/ Subscribe \/ NoneAvailable
           \/ Connect \/ LookupThrows \/ RetryAfterFailover \/ AddConnection
           \/ Unregister \/ Destroy \/ \E s \in Servers : ChooseServer(s)
  <2>1. PhaseOf' = PhaseOf
    BY <1>4, PhaseValues
    DEF SetUp, Poll, FdsDone, LookupReplicaset, Subscribe, NoneAvailable, Connect,
        LookupThrows, RetryAfterFailover, AddConnection, Unregister, Destroy,
        ChooseServer, AccStates
  <2>2. UNCHANGED <<peer, host, marked, conn_error_counters_, thr, csock>>
    BY <1>4
    DEF SetUp, Poll, FdsDone, LookupReplicaset, Subscribe, NoneAvailable, Connect,
        LookupThrows, RetryAfterFailover, AddConnection, Unregister, Destroy, ChooseServer
  <2>3. QED BY <1>3, <2>1, <2>2
<1>5. CASE LoopTop
  <2>1. CASE running
    BY <1>3, <1>5, <2>1, PhaseValues DEF LoopTop, AccStates
  <2>2. CASE ~running
    <3>1. PhaseOf = "listening" /\ PhaseOf' = "draining"
      BY <1>5, <2>2, PhaseValues DEF LoopTop, AccStates
    <3>2. \A c \in Conns : SessionOf(c)' = SessionOf(c)
      BY <1>5, SessionValues DEF LoopTop
    <3>3. Section!Drain
      BY <1>5, <3>1, <3>2 DEF LoopTop, Building, Section!Drain
    <3>4. QED BY <3>3 DEF Section!SNext
  <2>3. QED BY <2>1, <2>2 DEF TypeOK
<1>6. ASSUME NEW c \in Conns, Accept(c)
      PROVE  [Section!SNext]_(Section!svars)
  <2>1. PhaseOf = "listening" /\ PhaseOf' = "listening" /\ peer \in Hosts
    BY <1>6, PhaseValues DEF Accept, AccStates, Building
  <2>2. Section!Served < MaxConnections
    BY <1>6, SectionServed, RoutingAssumption DEF Accept, TooManyRoutes, TypeOK
  <2>3. SessionOf(c) = "none" /\ SessionOf(c)' = "admitted"
    BY <1>6, SessionValues DEF Accept, Building, TypeOK
  <2>4. Section!Move(c, "none", "admitted")
    BY <1>6, <2>1, <2>3, MoveOne DEF Accept, TypeOK
  <2>5. Section!Admit(c)
    BY <1>6, <2>1, <2>2, <2>4 DEF Accept, Section!Admit
  <2>6. QED BY <2>5 DEF Section!SNext
<1>7. ASSUME NEW h \in Hosts, CheckHost(h)
       PROVE  [Section!SNext]_(Section!svars)
  <2>1. PhaseOf = "listening" /\ PhaseOf' = "listening" /\ peer = NoServer
    BY <1>7, PhaseValues DEF CheckHost, AccStates, Building
  <2>2. conn_error_counters_[h] < MaxConnectErrors
    BY <1>7, RoutingAssumption DEF CheckHost, HostBlocked, TypeOK
  <2>3. \A c \in Conns : SessionOf(c)' = SessionOf(c)
    BY <1>7, SessionValues DEF CheckHost
  <2>4. Section!Knock(h)
    BY <1>7, <2>1, <2>2, <2>3 DEF CheckHost, Section!Knock
  <2>5. QED BY <2>4 DEF Section!SNext
<1>8. CASE RejectTooMany
  <2>1. PhaseOf = "listening" /\ PhaseOf' = "listening" /\ peer \in Hosts
    BY <1>8, PhaseValues DEF RejectTooMany, AccStates, Building
  <2>2. Section!Served >= MaxConnections
    BY <1>8, SectionServed, RoutingAssumption DEF RejectTooMany, TooManyRoutes, TypeOK
  <2>3. \A c \in Conns : SessionOf(c)' = SessionOf(c)
    BY <1>8, SessionValues DEF RejectTooMany
  <2>4. Section!Refuse
    BY <1>8, <2>1, <2>2, <2>3 DEF RejectTooMany, Section!Refuse
  <2>5. QED BY <2>4 DEF Section!SNext
<1>9. CASE StartThread
  <2>1. \A c \in Conns : SessionOf(c)' = SessionOf(c)
    BY <1>9, SessionValues DEF StartThread, Building, Creating, TypeOK
  <2>2. QED BY <1>2, <1>9, <2>1, PhaseValues DEF StartThread, AccStates
<1>10. CASE StartThreadFails
  <2>1. cur \in Conns /\ SessionOf(cur) = "admitted" /\ SessionOf(cur)' = "over"
    BY <1>10, SessionValues DEF StartThreadFails, Building, Creating, TypeOK
  <2>2. PhaseOf' = PhaseOf
    BY <1>10, PhaseValues DEF StartThreadFails, AccStates
  <2>3. Section!Move(cur, "admitted", "over")
    BY <1>10, <2>1, <2>2, MoveOne DEF StartThreadFails, TypeOK
  <2>4. Section!TurnAway(cur)
    BY <1>10, <2>3 DEF StartThreadFails, Section!TurnAway
  <2>5. QED BY <2>1, <2>4 DEF Section!SNext
<1>11. CASE DisconnectAll \/ NotifyBucket
  <2>1. PhaseOf' = PhaseOf
    <3>1. CASE DisconnectAll
      <4>1. acc = "disconnect_all" /\ acc' \in {"disconnect_all", "wait"}
        BY <3>1 DEF DisconnectAll
      <4>2. QED BY <4>1, PhaseValues
    <3>2. CASE NotifyBucket
      BY <3>2, PhaseValues DEF NotifyBucket
    <3>3. QED BY <1>11, <3>1, <3>2
  <2>2. UNCHANGED <<thr, csock, peer, host, conn_error_counters_>> /\ marked \subseteq marked'
    BY <1>11 DEF DisconnectAll, NotifyBucket
  <2>3. \A c \in Conns : SessionOf(c)' = SessionOf(c)
    BY <2>2, SessionValues
  <2>4. marked' \subseteq Conns
    BY DEF TypeOK
  <2>5. Section!Tell
    BY <2>1, <2>2, <2>3, <2>4 DEF Section!Tell
  <2>6. QED BY <2>5 DEF Section!SNext
<1>12. CASE WaitForThreads
  <2>1. PhaseOf = "draining" /\ PhaseOf' = "closed"
    BY <1>12, PhaseValues DEF WaitForThreads
  <2>2. Counted(thr) = {}
    <3>1. IsFiniteSet(Counted(thr))
      BY RoutingAssumption, FS_Subset DEF Counted
    <3>2. QED BY <1>12, <3>1, FS_EmptySet DEF WaitForThreads, ThreadsCounted
  <2>3. Section!InState({"served", "ending"}) = {}
    BY <2>2, ServedRouted DEF Counted, Routed
  <2>4. Section!InState({"admitted"}) \subseteq marked
    <3> SUFFICES ASSUME NEW c \in Conns, SessionOf(c) = "admitted" PROVE c \in marked
      BY DEF Section!InState
    <3>1. thr[c] \in {"spawned", "counted"} \/ (thr[c] = "none" /\ csock[c] # "none")
      BY SessionValues DEF TypeOK, ThrStates
    <3>2. QED BY <1>12, <3>1 DEF WaitForThreads, HandedOver, Creating
  <2>5. \A c \in Conns : SessionOf(c)' = SessionOf(c)
    BY <1>12, SessionValues DEF WaitForThreads
  <2>6. Section!Close
    BY <1>12, <2>1, <2>3, <2>4, <2>5 DEF WaitForThreads, Section!Close
  <2>7. QED BY <2>6 DEF Section!SNext
<1>13. CASE SetupFails
  <2>1. PhaseOf' = "closed"
    BY <1>13, PhaseValues DEF SetupFails
  <2>2. \A c \in Conns : SessionOf(c) = "none"
    BY <1>13, SessionValues DEF SetupFails, HandedOver, Building
  <2>3. /\ Section!InState(Section!SessStates \ {"none"}) = {}
        /\ Section!InState({"served", "ending"}) = {}
        /\ Section!InState({"admitted"}) = {}
    BY <2>2 DEF Section!InState
  <2>4. \A c \in Conns : SessionOf(c)' = SessionOf(c)
    BY <1>13, SessionValues DEF SetupFails
  <2>5. Section!Close
    BY <1>13, <2>1, <2>3, <2>4 DEF SetupFails, Section!Close
  <2>6. QED BY <2>5 DEF Section!SNext
<1>14. ASSUME NEW c \in Conns, IncreaseThreads(c) \/ DecreaseThreads(c) \/ RemoveConnection(c)
       PROVE  [Section!SNext]_(Section!svars)
  <2>1. \A d \in Conns : SessionOf(d)' = SessionOf(d)
    BY <1>14, SessionValues DEF IncreaseThreads, DecreaseThreads, RemoveConnection, TypeOK
  <2>2. QED
    BY <1>2, <1>14, <2>1, PhaseValues DEF IncreaseThreads, DecreaseThreads, RemoveConnection
<1>15. ASSUME NEW c \in Conns, CheckSocketsFails(c)
       PROVE  [Section!SNext]_(Section!svars)
  <2>1. SessionOf(c) = "admitted" /\ SessionOf(c)' = "over"
    BY <1>15, SessionValues DEF CheckSocketsFails, TypeOK
  <2>2. Section!Move(c, "admitted", "over")
    BY <1>15, <2>1, PhaseValues, MoveOne DEF CheckSocketsFails, TypeOK
  <2>3. Section!TurnAway(c)
    BY <1>15, <2>2 DEF CheckSocketsFails, Section!TurnAway
  <2>4. QED BY <2>3 DEF Section!SNext
<1>16. ASSUME NEW c \in Conns, BeginRoute(c)
       PROVE  [Section!SNext]_(Section!svars)
  <2>1. SessionOf(c) = "admitted" /\ SessionOf(c)' = "served"
    BY <1>16, SessionValues DEF BeginRoute, TypeOK
  <2>2. Section!Move(c, "admitted", "served")
    BY <1>16, <2>1, PhaseValues, MoveOne DEF BeginRoute, TypeOK
  <2>3. PhaseOf = "closed" => c \in marked
    BY <1>16, PhaseValues DEF BeginRoute, HandedOver, TypeOK, AccStates
  <2>4. Section!Serve(c)
    BY <1>16, <2>2, <2>3 DEF BeginRoute, Section!Serve
  <2>5. QED BY <2>4 DEF Section!SNext
<1>17. ASSUME NEW c \in Conns, thr[c] = "routing", LeaveLoop(c)
       PROVE  [Section!SNext]_(Section!svars)
  <2>1. SessionOf(c) = "served" /\ SessionOf(c)' = "ending"
    BY <1>17, SessionValues DEF LeaveLoop, TypeOK
  <2>2. Section!Move(c, "served", "ending")
    BY <1>17, <2>1, PhaseValues, MoveOne DEF LeaveLoop, TypeOK
  <2>3. conn_error_counters_' \in
          {conn_error_counters_, [conn_error_counters_ EXCEPT ![host[c]] = @ + 1]}
    BY <1>17 DEF LeaveLoop
  <2>4. Section!End(c)
    BY <1>17, <2>2, <2>3 DEF LeaveLoop, Section!End
  <2>5. QED BY <2>4 DEF Section!SNext
<1>18. ASSUME NEW c \in Conns, CloseSockets(c)
       PROVE  [Section!SNext]_(Section!svars)
  <2>1. SessionOf(c) = "ending" /\ SessionOf(c)' = "over"
    BY <1>18, SessionValues DEF CloseSockets, TypeOK
  <2>2. Section!Move(c, "ending", "over")
    BY <1>18, <2>1, PhaseValues, MoveOne DEF CloseSockets, TypeOK
  <2>3. Section!Release(c)
    BY <1>18, <2>2 DEF CloseSockets, Section!Release
  <2>4. QED BY <2>3 DEF Section!SNext
<1>19. CASE UNCHANGED <<acc, peer, host, marked, conn_error_counters_, thr, csock>>
  BY <1>3, <1>19, PhaseValues
<1>20. QED
  BY <1>4, <1>5, <1>6, <1>7, <1>8, <1>9, <1>10, <1>11, <1>12, <1>13, <1>14, <1>15,
     <1>16, <1>17, <1>18, <1>19
  DEF Next, Acceptor, Thread, Refresher, Environment, MetadataChange, AcceptFails, NextFd,
      RejectBlocked, NotifyBegin, Stop, Handshake, Stall, Unstall,
      HonourDisconnect, SeesDisconnect, EndConnection, ConnectionEnds,
      AllowedNodesChange, MetadataUnavailable, vars

\* The threads, the container and the counters of a section together implement
\* RoutingSection in every behaviour in which the 16-bit route counter, which
\* the admission check reads, does not wrap around.
THEOREM SectionImplemented == Spec /\ []NoWrap => ImplementsSection
<1>1. Init => HandedOver
  BY DEF Init, HandedOver
<1>2. IInv /\ HandedOver /\ [Next]_vars => HandedOver'
  BY HandedOverStep
<1>3. Spec => [](IInv /\ HandedOver)
  BY Invariance, <1>1, <1>2, PTL DEF Spec
<1>4. QED
  BY <1>3, Invariance, SectionInit, SectionStep, PTL DEF Spec, ImplementsSection, Section!SSpec

\* Below 2^16 connections altogether the counter cannot wrap around.
THEOREM SectionImplementedBelowModulus ==
  ASSUME Cardinality(Conns) < RouteModulus
  PROVE  Spec => ImplementsSection
<1>1. NoWrap
  <2>1. IsFiniteSet(Routed(thr)) /\ Cardinality(Routed(thr)) <= Cardinality(Conns)
    BY RoutingAssumption, FS_Subset DEF Routed
  <2>2. Cardinality(Routed(thr)) \in Nat /\ Cardinality(Conns) \in Nat
    BY <2>1, RoutingAssumption, FS_CardinalityType
  <2>3. QED BY <2>1, <2>2, RoutingAssumption DEF NoWrap
<1>2. QED BY <1>1, SectionImplemented, PTL

=============================================================================
