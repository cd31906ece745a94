--------------------------- MODULE MySQLRouting ---------------------------
(***************************************************************************)
(* One [routing] section: the acceptor thread (MySQLRouting::start and     *)
(* start_acceptor), one thread per client connection                       *)
(* (MySQLRoutingConnection::run), the ConnectionContainer they share, the  *)
(* counters of MySQLRoutingContext, and the refresh thread of the metadata *)
(* cache that calls back into the container when the allowed nodes change. *)
(*                                                                         *)
(* The destination is a DestMetadataCacheGroup: a snapshot of the nodes    *)
(* open to new connections, the lazy subscription to changes, the choice   *)
(* of a node, then a connect that succeeds, fails (-1) or times out (-2).  *)
(* An address is a member of Servers, a client a member of Hosts, a        *)
(* connection object a member of Conns.                                    *)
(***************************************************************************)
EXTENDS Naturals, FiniteSets

CONSTANTS Conns,            \* MySQLRoutingConnection objects ever created
          Hosts,            \* client addresses, the keys of conn_error_counters_
          Servers,          \* addresses of MySQL servers
          NoServer,         \* the default-constructed TCPAddress
          NoConn,           \* no connection is being created
          NumListen,        \* listening sockets of the section: TCP, Unix or both
          NumBuckets,       \* buckets of concurrent_map (127 in the code)
          BucketOf,         \* the bucket a connection hashes to
          MaxConnections,   \* max_connections_
          MaxConnectErrors, \* max_connect_errors_
          DisconnectOnMetadataUnavailable,
          RouteModulus      \* 2^16: info_active_routes_ is a uint16_t

ASSUME RoutingAssumption ==
  /\ IsFiniteSet(Conns) /\ NoConn \notin Conns
  /\ NoServer \notin Servers
  /\ NumListen \in 1..2
  /\ NumBuckets \in Nat \ {0}
  /\ BucketOf \in [Conns -> 1..NumBuckets]
  /\ MaxConnections \in 1..(RouteModulus - 1)
  /\ MaxConnectErrors \in Nat \ {0}
  /\ DisconnectOnMetadataUnavailable \in BOOLEAN
  /\ RouteModulus \in Nat \ {0}

VARIABLES
  running,      \* PluginFuncEnv::running_ of the section's start()
  acc,          \* where the acceptor thread is
  ready,        \* ready_fdnum, the listening sockets still to be served
  peer,         \* the client whose host was checked, before the limit is
  cur,          \* the connection create_connection() is building
  view,         \* the nodes get_server_socket() looked up
  accBucket,    \* the bucket disconnect_all() marks next
  thr,          \* where each connection's thread is
  host,         \* client_addr_ of each connection
  server,       \* server_address_ of each connection
  csock, ssock, \* client_socket_ and server_socket_ of each connection
  handshaken,   \* connections with handshake_done
  stalled,      \* threads blocked in write() to a peer that does not read
  marked,       \* connections with disconnect_ set
  connections,  \* ConnectionContainer::connections_
  active_client_threads_, info_active_routes_, conn_error_counters_,
  registered,   \* the allowed-nodes callback is in the notifier's list
  subscribed,   \* the destination is in MetadataCache::listeners_
  allowed,      \* the nodes open to new connections now
  kept,         \* the nodes existing connections may stay on
  ntf,          \* where the refresh thread is
  ntfBucket,    \* the bucket disconnect(nodes) marks next
  present       \* auxiliary: the container when the last scan began

accVars  == <<running, acc, ready, peer, cur, view, accBucket>>
connVars == <<thr, host, server, csock, ssock, handshaken, stalled>>
boxVars  == <<marked, connections>>
ctxVars  == <<active_client_threads_, info_active_routes_, conn_error_counters_>>
ntfVars  == <<registered, subscribed, allowed, kept, ntf, ntfBucket, present>>
vars     == <<accVars, connVars, boxVars, ctxVars, ntfVars>>

AccStates == {"setup", "top", "poll", "fds", "admit", "lookup", "subscribe",
              "choose", "connect", "start",
              "add", "disconnect_all", "wait", "unregister", "stopped",
              "destroyed"}
ThrStates == {"none", "failed", "spawned", "counted", "routing", "closing",
              "exit", "leaving", "done"}
SockStates == {"none", "open", "closed", "invalid", "timeout"}

\* The threads active_client_threads_ counts, and those info_active_routes_ counts.
Counted(t) == {c \in Conns : t[c] \in {"counted", "routing", "closing", "exit"}}
Routed(t)  == {c \in Conns : t[c] \in {"routing", "closing"}}

TypeOK ==
  /\ running \in BOOLEAN
  /\ acc \in AccStates
  /\ ready \in 0..NumListen
  /\ peer \in Hosts \cup {NoServer}
  /\ cur \in Conns \cup {NoConn}
  /\ view \subseteq Servers
  /\ accBucket \in 1..NumBuckets
  /\ thr \in [Conns -> ThrStates]
  /\ host \in [Conns -> Hosts \cup {NoServer}]
  /\ server \in [Conns -> Servers \cup {NoServer}]
  /\ csock \in [Conns -> SockStates]
  /\ ssock \in [Conns -> SockStates]
  /\ handshaken \subseteq Conns
  /\ stalled \subseteq Conns
  /\ marked \subseteq Conns
  /\ connections \subseteq Conns
  /\ active_client_threads_ \in Nat
  /\ info_active_routes_ \in 0..(RouteModulus - 1)
  /\ conn_error_counters_ \in [Hosts -> Nat]
  /\ registered \in BOOLEAN
  /\ subscribed \in BOOLEAN
  /\ allowed \subseteq Servers
  /\ kept \subseteq Servers
  /\ ntf \in {"idle", "changed", "scan"}
  /\ ntfBucket \in 1..NumBuckets
  /\ present \subseteq Conns

Init ==
  /\ running = TRUE
  /\ acc = "setup"
  /\ ready = 0
  /\ peer = NoServer
  /\ cur = NoConn
  /\ view = {}
  /\ accBucket = 1
  /\ thr = [c \in Conns |-> "none"]
  /\ host = [c \in Conns |-> NoServer]
  /\ server = [c \in Conns |-> NoServer]
  /\ csock = [c \in Conns |-> "none"]
  /\ ssock = [c \in Conns |-> "none"]
  /\ handshaken = {}
  /\ stalled = {}
  /\ marked = {}
  /\ connections = {}
  /\ active_client_threads_ = 0
  /\ info_active_routes_ = 0
  /\ conn_error_counters_ = [h \in Hosts |-> 0]
  /\ registered = FALSE
  /\ subscribed = FALSE
  /\ allowed = Servers
  /\ kept = Servers
  /\ ntf = "idle"
  /\ ntfBucket = 1
  /\ present = {}

(***************************************************************************)
(* The harness.  Loader::stop_all() clears the running flag.               *)
(***************************************************************************)
Stop ==
  /\ running
  /\ running' = FALSE
  /\ UNCHANGED <<acc, ready, peer, cur, view, accBucket, connVars, boxVars, ctxVars, ntfVars>>

(***************************************************************************)
(* The acceptor thread.                                                    *)
(***************************************************************************)

\* start(): a listening socket could not be set up; the exception leaves start().
\* A runtime_error is caught and clears the flag, an invalid_argument is not.
SetupFails ==
  /\ acc = "setup"
  /\ running' \in {FALSE, running}
  /\ acc' = "stopped"
  /\ UNCHANGED <<ready, peer, cur, view, accBucket, connVars, boxVars, ctxVars, ntfVars>>

\* start() and the head of start_acceptor(): the sockets listen, the callback
\* is registered (unless the refresh thread holds the list's mutex).
SetUp ==
  /\ acc = "setup"
  /\ ntf # "scan"
  /\ registered' = TRUE
  /\ acc' = "top"
  /\ UNCHANGED <<running, ready, peer, cur, view, accBucket, connVars, boxVars, ctxVars,
                 subscribed, allowed, kept, ntf, ntfBucket, present>>

\* while (is_running(env))
LoopTop ==
  /\ acc = "top"
  /\ acc' = IF running THEN "poll" ELSE "disconnect_all"
  /\ UNCHANGED <<running, ready, peer, cur, view, accBucket, connVars, boxVars, ctxVars, ntfVars>>

\* poll() of the listening sockets; 0 stands for a timeout or an error.
Poll ==
  /\ acc = "poll"
  /\ ready' \in 0..NumListen
  /\ acc' = "fds"
  /\ UNCHANGED <<running, peer, cur, view, accBucket, connVars, boxVars, ctxVars, ntfVars>>

FdsDone ==
  /\ acc = "fds" /\ ready = 0
  /\ acc' = "top"
  /\ UNCHANGED <<running, ready, peer, cur, view, accBucket, connVars, boxVars, ctxVars, ntfVars>>

HostBlocked(h) == conn_error_counters_[h] >= MaxConnectErrors
TooManyRoutes  == info_active_routes_ >= MaxConnections

\* Mutant: the loop does not test ready_fdnum > 0.
NextFdUnchecked ==
  /\ acc = "fds"
  /\ ready' = ready - 1
  /\ UNCHANGED <<running, acc, peer, cur, view, accBucket, connVars, boxVars, ctxVars, ntfVars>>

\* One ready socket is done with; the client, if any, was sent away.
NextFd ==
  /\ acc = "fds" /\ ready > 0
  /\ ready' = ready - 1
  /\ UNCHANGED <<running, acc, peer, cur, view, accBucket, connVars, boxVars, ctxVars, ntfVars>>

AcceptFails      == NextFd
RejectBlocked(h) == HostBlocked(h) /\ NextFd

\* accept(), and the host has few enough errors now.  (Conns bounds the
\* connections ever created.)
CheckHost(h) ==
  /\ acc = "fds" /\ ready > 0
  /\ \E c \in Conns : csock[c] = "none"
  /\ ~HostBlocked(h)
  /\ ready' = ready - 1
  /\ peer' = h
  /\ acc' = "admit"
  /\ UNCHANGED <<running, cur, view, accBucket, connVars, boxVars, ctxVars, ntfVars>>

\* The limit is tested after the host, in a read of its own: threads may have
\* moved both counters in between.
RejectTooMany ==
  /\ acc = "admit"
  /\ TooManyRoutes
  /\ peer' = NoServer
  /\ acc' = "fds"
  /\ UNCHANGED <<running, ready, cur, view, accBucket, connVars, boxVars, ctxVars, ntfVars>>

\* Mutant: the limit is not tested.
AcceptAlways(c) ==
  /\ acc = "admit"
  /\ csock[c] = "none"
  /\ acc' = "lookup"
  /\ peer' = NoServer
  /\ cur' = c
  /\ host' = [host EXCEPT ![c] = peer]
  /\ csock' = [csock EXCEPT ![c] = "open"]
  /\ UNCHANGED <<running, ready, view, accBucket, thr, server, ssock, handshaken, stalled,
                 boxVars, ctxVars, ntfVars>>

\* Below the limit create_connection() begins.
Accept(c) ==
  /\ acc = "admit"
  /\ ~TooManyRoutes
  /\ csock[c] = "none"
  /\ acc' = "lookup"
  /\ peer' = NoServer
  /\ cur' = c
  /\ host' = [host EXCEPT ![c] = peer]
  /\ csock' = [csock EXCEPT ![c] = "open"]
  /\ UNCHANGED <<running, ready, view, accBucket, thr, server, ssock, handshaken, stalled,
                 boxVars, ctxVars, ntfVars>>

\* get_server_socket(): lookup_replicaset() copies the routing table ...
LookupReplicaset ==
  /\ acc = "lookup"
  /\ view' = allowed
  /\ acc' = "subscribe"
  /\ UNCHANGED <<running, ready, peer, cur, accBucket, connVars, boxVars, ctxVars, ntfVars>>

\* ... or throws, as long as cache_init() has not created the cache.
LookupThrows ==
  /\ acc = "lookup" /\ ~subscribed
  /\ ssock' = [ssock EXCEPT ![cur] = "invalid"]
  /\ acc' = "start"
  /\ UNCHANGED <<running, ready, peer, cur, view, accBucket, thr, host, server, csock,
                 handshaken, stalled, boxVars, ctxVars, ntfVars>>

\* get_available() subscribes for changes on first use.  add_listener() waits
\* for the mutex the refresh thread holds while it notifies.
Subscribe ==
  /\ acc = "subscribe"
  /\ ntf # "scan"
  /\ subscribed' = TRUE
  /\ acc' = "choose"
  /\ UNCHANGED <<running, ready, peer, cur, view, accBucket, connVars, boxVars, ctxVars,
                 registered, allowed, kept, ntf, ntfBucket, present>>

\* get_next_server() picks a node of the copy ...
ChooseServer(s) ==
  /\ acc = "choose"
  /\ s \in view
  /\ server' = [server EXCEPT ![cur] = s]
  /\ acc' = "connect"
  /\ UNCHANGED <<running, ready, peer, cur, view, accBucket, thr, host, csock, ssock,
                 handshaken, stalled, boxVars, ctxVars, ntfVars>>

\* ... unless it is empty: get_server_socket() returns -1 and no address.
NoneAvailable ==
  /\ acc = "choose"
  /\ view = {}
  /\ server' = [server EXCEPT ![cur] = NoServer]
  /\ ssock' = [ssock EXCEPT ![cur] = "invalid"]
  /\ view' = {}
  /\ acc' = "start"
  /\ UNCHANGED <<running, ready, peer, cur, accBucket, thr, host, csock,
                 handshaken, stalled, boxVars, ctxVars, ntfVars>>

\* get_mysql_socket(): connected, -1, or -2 when the connect timed out.
Connect ==
  /\ acc = "connect"
  /\ \E r \in {"open", "invalid", "timeout"} : ssock' = [ssock EXCEPT ![cur] = r]
  /\ view' = {}
  /\ acc' = "start"
  /\ UNCHANGED <<running, ready, peer, cur, accBucket, thr, host, server, csock,
                 handshaken, stalled, boxVars, ctxVars, ntfVars>>

\* The connect failed and wait_primary_failover() saw a new primary: retry.
RetryAfterFailover ==
  /\ acc = "connect"
  /\ acc' = "lookup"
  /\ UNCHANGED <<running, ready, peer, cur, view, accBucket, connVars, boxVars, ctxVars, ntfVars>>

\* MySQLRoutingConnection::start(): the detached thread is created ...
StartThread ==
  /\ acc = "start"
  /\ thr' = [thr EXCEPT ![cur] = "spawned"]
  /\ acc' = "add"
  /\ UNCHANGED <<running, ready, peer, cur, view, accBucket, host, server, csock, ssock,
                 handshaken, stalled, boxVars, ctxVars, ntfVars>>

\* ... or cannot be: the client is told and closed, the server socket is not.
StartThreadFails ==
  /\ acc = "start"
  /\ thr' = [thr EXCEPT ![cur] = "failed"]
  /\ csock' = [csock EXCEPT ![cur] = "closed"]
  /\ acc' = "add"
  /\ UNCHANGED <<running, ready, peer, cur, view, accBucket, host, server, ssock,
                 handshaken, stalled, boxVars, ctxVars, ntfVars>>

\* connection_container_.add_connection(), under the bucket's mutex.
AddConnection ==
  /\ acc = "add"
  /\ connections' = connections \cup {cur}
  /\ cur' = NoConn
  /\ acc' = "fds"
  /\ UNCHANGED <<running, ready, peer, view, accBucket, connVars, marked, ctxVars, ntfVars>>

\* Mutant: the walk over the buckets ends one bucket early.
DisconnectAllShort ==
  /\ acc = "disconnect_all"
  /\ marked' = marked \cup {c \in connections : BucketOf[c] = accBucket}
  /\ IF accBucket + 1 >= NumBuckets
       THEN acc' = "wait" /\ UNCHANGED accBucket
       ELSE accBucket' = accBucket + 1 /\ UNCHANGED acc
  /\ UNCHANGED <<running, ready, peer, cur, view, connVars, connections, ctxVars, ntfVars>>

\* connection_container_.disconnect_all(), one bucket at a time.
DisconnectAll ==
  /\ acc = "disconnect_all"
  /\ marked' = marked \cup {c \in connections : BucketOf[c] = accBucket}
  /\ IF accBucket = NumBuckets
       THEN acc' = "wait" /\ UNCHANGED accBucket
       ELSE accBucket' = accBucket + 1 /\ UNCHANGED acc
  /\ UNCHANGED <<running, ready, peer, cur, view, connVars, connections, ctxVars, ntfVars>>

\* Mutant: the acceptor does not wait for the counter to reach zero.
WaitForNothing ==
  /\ acc = "wait"
  /\ acc' = "unregister"
  /\ UNCHANGED <<running, ready, peer, cur, view, accBucket, connVars, boxVars, ctxVars, ntfVars>>

\* active_client_threads_cond_.wait(lk, active_client_threads_ == 0)
WaitForThreads ==
  /\ acc = "wait"
  /\ active_client_threads_ = 0
  /\ acc' = "unregister"
  /\ UNCHANGED <<running, ready, peer, cur, view, accBucket, connVars, boxVars, ctxVars, ntfVars>>

\* Mutant: the callback is erased without the list's mutex.
UnregisterUnlocked ==
  /\ acc = "unregister"
  /\ registered' = FALSE
  /\ acc' = "stopped"
  /\ UNCHANGED <<running, ready, peer, cur, view, accBucket, connVars, boxVars, ctxVars,
                 subscribed, allowed, kept, ntf, ntfBucket, present>>

\* exit_guard: the list's mutex keeps the callback in place while it runs.
Unregister ==
  /\ acc = "unregister"
  /\ ntf # "scan"
  /\ registered' = FALSE
  /\ acc' = "stopped"
  /\ UNCHANGED <<running, ready, peer, cur, view, accBucket, connVars, boxVars, ctxVars,
                 subscribed, allowed, kept, ntf, ntfBucket, present>>

\* start() of the plugin returns: the MySQLRouting object, its context and every
\* connection the container still owns are freed; ~DestMetadataCacheGroup()
\* removes the listener.
Destroy ==
  /\ acc = "stopped"
  /\ ntf # "scan"
  /\ acc' = "destroyed"
  /\ connections' = {}
  /\ subscribed' = FALSE
  /\ UNCHANGED <<running, ready, peer, cur, view, accBucket, connVars, marked, ctxVars,
                 registered, allowed, kept, ntf, ntfBucket, present>>

(***************************************************************************)
(* A connection thread, MySQLRoutingConnection::run().                     *)
(***************************************************************************)
IncreaseThreads(c) ==
  /\ thr[c] = "spawned"
  /\ thr' = [thr EXCEPT ![c] = "counted"]
  /\ active_client_threads_' = active_client_threads_ + 1
  /\ UNCHANGED <<accVars, host, server, csock, ssock, handshaken, stalled, boxVars,
                 info_active_routes_, conn_error_counters_, ntfVars>>

\* Mutant: check_sockets() is called before the exit guard is in place.
CheckSocketsFailsUnguarded(c) ==
  /\ thr[c] = "counted"
  /\ ssock[c] = "invalid"
  /\ thr' = [thr EXCEPT ![c] = "leaving"]
  /\ csock' = [csock EXCEPT ![c] = "closed"]
  /\ UNCHANGED <<accVars, host, server, ssock, handshaken, stalled, boxVars, ctxVars, ntfVars>>

\* Mutant: the early return gives back a route it never took.
CheckSocketsFailsUncounts(c) ==
  /\ thr[c] = "counted"
  /\ ssock[c] = "invalid"
  /\ thr' = [thr EXCEPT ![c] = "exit"]
  /\ csock' = [csock EXCEPT ![c] = "closed"]
  /\ info_active_routes_' = (info_active_routes_ + RouteModulus - 1) % RouteModulus
  /\ UNCHANGED <<accVars, host, server, ssock, handshaken, stalled, boxVars,
                 active_client_threads_, conn_error_counters_, ntfVars>>

\* check_sockets() compares with kInvalidSocket, which is -1.
CheckSocketsFails(c) ==
  /\ thr[c] = "counted"
  /\ ssock[c] = "invalid"
  /\ thr' = [thr EXCEPT ![c] = "exit"]
  /\ csock' = [csock EXCEPT ![c] = "closed"]
  /\ UNCHANGED <<accVars, host, server, ssock, handshaken, stalled, boxVars, ctxVars, ntfVars>>

BeginRoute(c) ==
  /\ thr[c] = "counted"
  /\ ssock[c] # "invalid"
  /\ thr' = [thr EXCEPT ![c] = "routing"]
  /\ info_active_routes_' = (info_active_routes_ + 1) % RouteModulus
  /\ UNCHANGED <<accVars, host, server, csock, ssock, handshaken, stalled, boxVars,
                 active_client_threads_, conn_error_counters_, ntfVars>>

\* copy_packets() saw the end of the handshake, which needs a talking server.
Handshake(c) ==
  /\ thr[c] = "routing" /\ c \notin stalled
  /\ ssock[c] = "open"
  /\ c \notin handshaken
  /\ handshaken' = handshaken \cup {c}
  /\ UNCHANGED <<accVars, thr, host, server, csock, ssock, stalled, boxVars, ctxVars, ntfVars>>

\* copy_packets() writes to a blocking socket without a timeout: a peer that
\* does not read holds the thread in write() until it reads again or leaves.
Stall(c) ==
  /\ thr[c] = "routing" /\ c \notin stalled
  /\ ssock[c] = "open"
  /\ stalled' = stalled \cup {c}
  /\ UNCHANGED <<accVars, thr, host, server, csock, ssock, handshaken, boxVars, ctxVars, ntfVars>>

Unstall(c) ==
  /\ c \in stalled
  /\ stalled' = stalled \ {c}
  /\ UNCHANGED <<accVars, thr, host, server, csock, ssock, handshaken, boxVars, ctxVars, ntfVars>>

\* The copy loop ends because a peer closed, poll() failed or the
\* unauthenticated client timed out (connection_is_ok) ...
ConnectionEnds(c) == thr[c] = "routing" /\ c \notin stalled
\* Mutant: disconnect_ is looked at only until the client is authenticated.
SeesDisconnectEarly(c) ==
  thr[c] = "routing" /\ c \notin stalled /\ c \in marked \ handshaken
\* ... or because disconnect_ is seen within one poll interval.
SeesDisconnect(c) == thr[c] = "routing" /\ c \notin stalled /\ c \in marked

\* A client that leaves before the handshake is done is held against its host.
LeaveLoop(c) ==
  /\ thr' = [thr EXCEPT ![c] = "closing"]
  /\ conn_error_counters_' =
       IF c \in handshaken THEN conn_error_counters_
       ELSE [conn_error_counters_ EXCEPT ![host[c]] = @ + 1]
  /\ UNCHANGED <<accVars, host, server, csock, ssock, handshaken, stalled, boxVars,
                 active_client_threads_, info_active_routes_, ntfVars>>

EndConnection(c) == ConnectionEnds(c) /\ LeaveLoop(c)
HonourDisconnect(c) == SeesDisconnect(c) /\ LeaveLoop(c)

\* Mutant: the server socket is left open.
CloseSocketsClientOnly(c) ==
  /\ thr[c] = "closing"
  /\ thr' = [thr EXCEPT ![c] = "exit"]
  /\ csock' = [csock EXCEPT ![c] = "closed"]
  /\ info_active_routes_' = (info_active_routes_ + RouteModulus - 1) % RouteModulus
  /\ UNCHANGED <<accVars, host, server, ssock, handshaken, stalled, boxVars,
                 active_client_threads_, conn_error_counters_, ntfVars>>

\* Both sockets are shut down and closed, the route is no longer active.
CloseSockets(c) ==
  /\ thr[c] = "closing"
  /\ thr' = [thr EXCEPT ![c] = "exit"]
  /\ csock' = [csock EXCEPT ![c] = "closed"]
  /\ ssock' = [ssock EXCEPT ![c] = IF @ = "open" THEN "closed" ELSE @]
  /\ info_active_routes_' = (info_active_routes_ + RouteModulus - 1) % RouteModulus
  /\ UNCHANGED <<accVars, host, server, handshaken, stalled, boxVars,
                 active_client_threads_, conn_error_counters_, ntfVars>>

\* thread_exit_guard: first the counter is decreased and the acceptor notified ...
DecreaseThreads(c) ==
  /\ thr[c] = "exit"
  /\ thr' = [thr EXCEPT ![c] = "leaving"]
  /\ active_client_threads_' = active_client_threads_ - 1
  /\ UNCHANGED <<accVars, host, server, csock, ssock, handshaken, stalled, boxVars,
                 info_active_routes_, conn_error_counters_, ntfVars>>

\* ... then remove_callback_ erases (and frees) the connection.
RemoveConnection(c) ==
  /\ thr[c] = "leaving"
  /\ thr' = [thr EXCEPT ![c] = "done"]
  /\ connections' = connections \ {c}
  /\ UNCHANGED <<accVars, host, server, csock, ssock, handshaken, stalled, marked,
                 ctxVars, ntfVars>>

(***************************************************************************)
(* The refresh thread of the metadata cache.                               *)
(***************************************************************************)

\* The routing table is replaced; the listeners hear of it later.  The nodes
\* existing connections may keep include those open to new ones (get_available).
AllowedNodesChange(new, keep) ==
  /\ ntf = "idle"
  /\ new \subseteq keep
  /\ <<new, keep>> # <<allowed, kept>>
  /\ allowed' = new
  /\ kept' = keep
  /\ ntf' = "changed"
  /\ UNCHANGED <<accVars, connVars, boxVars, ctxVars, registered, subscribed, ntfBucket, present>>

\* No metadata server answers: the table is cleared, which existing connections
\* survive unless disconnect_on_metadata_unavailable is set.
MetadataUnavailable ==
  /\ ntf = "idle"
  /\ allowed' = {}
  /\ IF DisconnectOnMetadataUnavailable
       THEN kept' = {} /\ ntf' = "changed"
       ELSE UNCHANGED <<kept, ntf>>
  /\ UNCHANGED <<accVars, connVars, boxVars, ctxVars, registered, subscribed, ntfBucket, present>>

\* on_instances_changed() finds the destination among the listeners, which
\* takes the callback list's mutex and calls what is registered.
NotifyBegin ==
  /\ ntf = "changed"
  /\ IF registered /\ subscribed
       THEN ntf' = "scan" /\ present' = connections
       ELSE ntf' = "idle" /\ present' = {}
  /\ ntfBucket' = 1
  /\ UNCHANGED <<accVars, connVars, boxVars, ctxVars, registered, subscribed, allowed, kept>>

\* Mutant: the walk over the buckets ends one bucket early.
NotifyBucketShort ==
  /\ ntf = "scan"
  /\ marked' = marked \cup {c \in connections :
                              BucketOf[c] = ntfBucket /\ server[c] \notin kept}
  /\ IF ntfBucket + 1 >= NumBuckets
       THEN ntf' = "idle" /\ ntfBucket' = 1
       ELSE ntfBucket' = ntfBucket + 1 /\ UNCHANGED ntf
  /\ UNCHANGED <<accVars, connVars, connections, ctxVars, registered, subscribed,
                 allowed, kept, present>>

\* ConnectionContainer::disconnect(nodes), one bucket at a time.
NotifyBucket ==
  /\ ntf = "scan"
  /\ marked' = marked \cup {c \in connections :
                              BucketOf[c] = ntfBucket /\ server[c] \notin kept}
  /\ IF ntfBucket = NumBuckets
       THEN ntf' = "idle" /\ ntfBucket' = 1
       ELSE ntfBucket' = ntfBucket + 1 /\ UNCHANGED ntf
  /\ UNCHANGED <<accVars, connVars, connections, ctxVars, registered, subscribed,
                 allowed, kept, present>>

(***************************************************************************)
(* The specification.                                                      *)
(***************************************************************************)
Acceptor ==
  \/ SetUp \/ LoopTop \/ Poll \/ FdsDone
  \/ AcceptFails
  \/ \E h \in Hosts : RejectBlocked(h) \/ CheckHost(h)
  \/ RejectTooMany
  \/ \E c \in Conns : Accept(c)
  \/ LookupReplicaset \/ Subscribe
  \/ \E s \in Servers : ChooseServer(s)
  \/ NoneAvailable \/ Connect \/ StartThread \/ AddConnection
  \/ DisconnectAll \/ WaitForThreads \/ Unregister \/ Destroy

Thread(c) ==
  \/ IncreaseThreads(c) \/ CheckSocketsFails(c) \/ BeginRoute(c)
  \/ HonourDisconnect(c) \/ CloseSockets(c)
  \/ DecreaseThreads(c) \/ RemoveConnection(c)

Refresher == NotifyBegin \/ NotifyBucket

\* What the clients, the servers, the operating system and the operator may do.
Environment ==
  \/ Stop \/ SetupFails \/ StartThreadFails \/ LookupThrows \/ RetryAfterFailover
  \/ \E c \in Conns : Handshake(c) \/ Stall(c) \/ Unstall(c) \/ EndConnection(c)

MetadataChange ==
  \/ \E new, keep \in SUBSET Servers : AllowedNodesChange(new, keep)
  \/ MetadataUnavailable

Next ==
  \/ Acceptor \/ (\E c \in Conns : Thread(c)) \/ Refresher
  \/ Environment \/ MetadataChange

Spec == Init /\ [][Next]_vars

\* Every thread is scheduled; poll() and connect() return (they have timeouts).
\* The refresh thread sleeps between two notifications, so the acceptor gets
\* the mutexes it waits for (strong fairness).  Strong fairness of Connect says
\* that a connect is retried only finitely often: the retries of one call are
\* bounded between two changes of the routing table (RetriesBounded of
\* MetadataCache), and a table that changed during every connect forever is
\* ruled out.  Nothing is assumed of clients, of servers that take or refuse
\* connections, or of the operator.
FairSpec ==
  /\ Spec
  /\ SF_vars(Acceptor)
  /\ SF_vars(Connect)
  /\ \A c \in Conns : WF_vars(Thread(c))
  /\ WF_vars(Refresher)

(***************************************************************************)
(* Safety.                                                                 *)
(***************************************************************************)

\* context.cc: the counter start_acceptor() waits for equals the number of
\* threads between increase_ and decrease_active_thread_counter(), on every
\* path out of run(), whatever the interleaving.
ThreadsCounted == active_client_threads_ = Cardinality(Counted(thr))

\* context.h: info_active_routes_, the value the admission check reads, equals
\* (modulo 2^16) the number of connections between increase_ and
\* decrease_info_active_routes(); a connection whose sockets are refused by
\* check_sockets() is never counted.
RoutesCounted == info_active_routes_ = Cardinality(Routed(thr)) % RouteModulus

\* connection.cc: a thread past the end of the copy loop or past a failed
\* check_sockets() has closed its client socket and holds no server socket.
SocketsClosed ==
  \A c \in Conns : thr[c] \in {"exit", "leaving", "done"} =>
    csock[c] = "closed" /\ ssock[c] \in {"closed", "invalid", "timeout"}

\* mysql_routing.cc: the callback the refresh thread runs captures the
\* MySQLRouting object by reference; the exit guard's unregister keeps that
\* object alive for as long as the callback runs.
NotifierNeverOutlivesRouting ==
  ntf = "scan" => registered /\ acc \notin {"setup", "stopped", "destroyed"}

\* connection_container.cc: once disconnect(nodes) has walked every bucket, a
\* connection that was in the container when the walk began and still is has
\* been told to disconnect, unless its server is among the nodes.
NotificationComplete ==
  ntf = "idle" => \A c \in present \cap connections :
                    c \in marked \/ server[c] \in kept

\* mysql_routing.cc: when the acceptor starts to wait for its threads every
\* connection in the container has been told to disconnect, so none of the
\* threads it waits for was started behind disconnect_all()'s back.
DrainMarksAll ==
  acc \in {"wait", "unregister", "stopped"} => connections \subseteq marked

(***************************************************************************)
(* The abstract section, and what stands for its variables.                *)
(***************************************************************************)
SessionOf(c) ==
  CASE thr[c] \in {"spawned", "counted"} -> "admitted"
    [] thr[c] = "routing" -> "served"
    [] thr[c] = "closing" -> "ending"
    [] thr[c] \in {"exit", "leaving", "done", "failed"} -> "over"
    [] thr[c] = "none" -> IF csock[c] = "none" THEN "none" ELSE "admitted"

PhaseOf ==
  CASE acc \in {"disconnect_all", "wait"} -> "draining"
    [] acc \in {"unregister", "stopped", "destroyed"} -> "closed"
    [] OTHER -> "listening"

Section == INSTANCE RoutingSection WITH
             Sessions <- Conns, Clients <- Hosts, NoClient <- NoServer,
             MaxServed <- MaxConnections, MaxErrors <- MaxConnectErrors,
             phase <- PhaseOf, sess <- [c \in Conns |-> SessionOf(c)],
             owner <- host, told <- marked, errors <- conn_error_counters_,
             door <- peer

\* mysql_routing.cc, connection.cc: the acceptor, the connection threads, the
\* container and the counters together are a section that lets a client in only
\* after its host was found below its error limit and then the sessions being
\* served below theirs, each at a moment of its own; that refuses nobody below
\* the limit; that blames a host once for a session of its own; and that closes
\* only when no session is served and whoever may still come up has been told
\* to end.  Sessions admitted and not served yet do not count for the limit, so
\* more than max_connections may come to be served.
ImplementsSection == Section!SSpec

(***************************************************************************)
(* What the comments of the code promise and the code does not keep.       *)
(***************************************************************************)

\* context.cc:109 "notify the parent while we have the cond_mutex locked /
\* otherwise the parent may destruct before we are finished": no thread is
\* left that uses the context or the container once they are destroyed.
NoUseAfterFree ==
  acc = "destroyed" => \A c \in Conns : thr[c] \in {"none", "failed", "done"}

\* connection_container.h: "Disconnects all connections to servers that are
\* not allowed any longer."
DisallowedDisconnected ==
  ntf = "idle" /\ registered =>
    \A c \in connections : thr[c] = "routing" => c \in marked \/ server[c] \in kept

(***************************************************************************)
(* Liveness.                                                               *)
(***************************************************************************)

\* mysql_routing.cc: a section that is told to stop ends, unless one of its
\* threads is held in write() by a peer that does not read.
StopTerminates == ~running ~> (acc = "destroyed" \/ stalled # {})

\* connection.cc: a routed connection that is told to disconnect closes its
\* sockets and leaves the container, unless its peer holds it in write().
DisconnectHonoured ==
  \A c \in Conns : (thr[c] = "routing" /\ c \in marked) ~>
                      (thr[c] = "done" \/ c \in stalled)
===========================================================================
