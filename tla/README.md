# MySQL Router: a TLA+ verification project

MySQL Router is a proxy between MySQL clients and the servers of an InnoDB
cluster. The modules here model the parts of it where threads, failures and
changing cluster state meet. TLC checks them on small instances, and TLAPS
proves for every size the invariants of all of them, and that the routing section
implements its abstract specification. All paths below are
relative to the root of the repository (the program is under `src/src/`).

## 1. The system and its parts

A router process runs the **harness** (`src/src/harness`). Its `Loader` reads the
configuration, loads one plugin library per section name, calls `init()` in
dependency order and runs `start()` of every section in a thread. Two plugins
carry the work:

* **routing** (`src/src/routing`): a section listens on TCP and/or a Unix
  socket, accepts clients, obtains a server socket from its *destination* and
  starts one thread per connection that copies packets in both directions;
* **metadata_cache** (`src/src/metadata_cache`): a thread refreshes the picture
  of the cluster from the metadata servers; sections with a `metadata-cache://`
  destination read it and are called back when it changes.

| Component | State | Operations | Talks to |
|---|---|---|---|
| `Loader` | `plugins_`, `order_`, `plugin_start_env_`, `sessions_`, `g_shutdown_pending` | `load_all`, `topsort`, `init_all`, `start_all`, `main_loop`, `stop_all`, `deinit_all` | plugin functions; the running flag of each section |
| `MySQLRouting` | listening sockets, `ConnectionContainer` | `start`, `start_acceptor`, `create_connection` | destination, connection threads, allowed-nodes callback |
| `MySQLRoutingConnection` | two sockets, `disconnect_`, thread | `start`, `run`, `check_sockets`, `disconnect` | context counters, container |
| `MySQLRoutingContext` | `active_client_threads_`, `info_active_routes_`, `conn_error_counters_` | increase/decrease, `block_client_host` | acceptor and connection threads |
| `ConnectionContainer` | hash map in 127 buckets, a mutex each | `add_connection`, `remove_connection`, `disconnect`, `disconnect_all` | acceptor, connection threads, refresh thread |
| `DestRoundRobin` | `current_pos_`, `quarantined_`, manager thread | `get_server_socket`, `add_to_quarantine`, `cleanup_quarantine` | servers |
| `DestFirstAvailable`, `DestNextAvailable` | `current_pos_` | `get_server_socket` | servers |
| `DestMetadataCacheGroup` | subscription flag, position | `get_server_socket`, `get_available`, `on_instances_change` | metadata cache API, section callback |
| `MetadataCache`, API | `replicaset_data_`, unreachable replicasets, listeners, three mutexes | `refresh`, `replicaset_lookup`, `mark_instance_reachability`, `wait_primary_failover`, `add_listener`, `cache_init`, `cache_stop` | metadata servers, sections |
| `ClusterMetadata` | session, modes of the instances | `fetch_instances`, `update_replicaset_status`, `check_replicaset_status` | metadata servers, group replication views |
| `ClassicProtocol`, `XProtocol` | `pktnr`, `handshake_done` (of the connection) | `copy_packets`, `on_block_client_host`, `send_error` | client, server, `run()` of the connection |
| `ConfigGenerator` (bootstrap) | `router_id`, `username`, the session, `AutoCleaner` | `bootstrap_system_deployment`, `bootstrap_directory_deployment`, `try_bootstrap_deployment`, `failover_on_failure`, `create_config` | cluster metadata and accounts on the servers, keyring, configuration file |
| Keyring | keyring file, master key file or external program | `init_keyring`, `init_keyring_with_key`, `store`, `flush_keyring` | bootstrap; the router when it starts |

The parts left out are listed in section 7.

**What is hard here.** The counters that decide admission and the end of a
section are written by connection threads and read by the acceptor. The
container is walked bucket by bucket while both sides change it. The refresh
thread calls into sections that may be ending. The API mutex is held across a
wait of ten seconds and across a join. A vector is erased from through a copy
that was made without its mutex. The routing table is a copy that may be old
when it is used. One packet number serves both directions of a connection. A
bootstrap changes rows and accounts on servers that may fail over, two files of a
keyring and a configuration, with a failure or a crash possible at any point.
Shutdown can be caused by a signal, an error or the natural
end, or by several of them together. `PROJECT.json` lists these hazards with
the line where each one bites and the property that is about it.

**What makes each part right.** Loader: plugins are never without those they
require, `deinit()` waits for all threads, `stop()` is called once, no error is
lost, shutdown completes. Routing: the counters are exact on every path, sockets
are closed, walks over the container are complete, a callback never runs into a
section that has ended, a section that is told to stop ends. Destinations: no
server is passed over, a quarantined server that is up comes back, an abandoned
one does not. Metadata: the table is the view of one server with a quorum, every
listener hears of every change, nobody waits forever. Handshake: nobody is counted
as a connection error who was answered, the server is never left without a
handshake. Bootstrap: what reports success can be started, what fails or dies
leaves the configuration and the keys of others.

## 2. Modules

| Module | Models | TLC module |
|---|---|---|
| `MySQLRouting` | a routing section with its connection threads, container, counters, metadata-cache destination and the refresh thread as its caller | `MCMySQLRouting` |
| `MySQLRoutingProofs` | the theorems about it, the refinement of `RoutingSection` among them | - |
| `RouteDestination` | what the destinations with a configured list share: the list, the position, a call, the servers that come and go | extended by the next two |
| `DestRoundRobin` | the round-robin destination and the quarantine manager | (with `DestStatic`) |
| `DestOrdered` | the first-available and next-available destinations | (with `DestStatic`) |
| `DestStatic` | a destination of one of the three strategies | itself |
| `DestStaticProofs` | the theorems about it | - |
| `DestMetadataCache` | the `metadata-cache://` destination: options, nodes for new and for existing connections, position | itself |
| `DestMetadataCacheProofs` | the theorems about it | - |
| `ClusterMetadata` | quorum and modes from the views of the instances | itself |
| `ClusterMetadataProofs` | the theorems about it | - |
| `MetadataCache` | refresh thread, API, listeners, emergency mode, stop | itself |
| `MetadataCacheProofs` | the theorems about it | - |
| `Loader` | the life cycle of plugins | `MCLoader` |
| `LoaderProofs` | the theorems about it | - |
| `RoutingSection` | what a routing section promises, abstractly; `MySQLRouting` is shown to implement it | (with `MCMySQLRouting`) |
| `ProtocolHandshake` | one connection of either protocol until its handshake is done | itself |
| `ProtocolHandshakeProofs` | the theorems about it | - |
| `Keyring` | keyring file, master key file, external program | (with `Bootstrap`) |
| `Bootstrap` | several bootstraps of one router; extends `Keyring` | itself |
| `BootstrapProofs` | the theorems about it and the keyring | - |

Names follow the source; `map` in `PROJECT.json` gives the lines of every
definition. Definitions introduced as "Mutant" are deliberately wrong versions
of the definition that follows them. The specification does not use them; each
property is shown to fail when one of them takes the place of the right one.

### MySQLRouting

`acc` is the place of the acceptor in `start_acceptor()` and
`create_connection()`, `thr[c]` that of the thread of connection `c` in `run()`,
`ntf` that of the refresh thread. Steps end where a thread can be overtaken with
effect: at a mutex, at an atomic, at a blocking call. So a client is let in by two
steps, `CheckHost`, which reads the errors of its host, and `Accept`, which reads
the number of routes, and threads may change both counters in between; the lookup
of the routing table, the subscription, the choice of a node, the connect, the
start of the thread and the insertion into the container are one action each. `DisconnectAll` and
`NotifyBucket` handle one bucket per step.

A connection is a member of `Conns` and is used once. The copy loop is abstracted
to what the rest can tell: the handshake is completed or not, the thread hangs
in `write()` (`Stall`), a peer goes away, `disconnect_` is seen. Sockets are
"open", "closed", "invalid" (-1) or "timeout" (-2). The nodes a section may use
are the sets `allowed` (new connections) and `kept` (existing ones, a superset,
as `get_available()` computes them). `info_active_routes_` is a `uint16_t`:
`RouteModulus` is its modulus. In `routing` the modulus is 2 and two connections
can be routed, so the counter does wrap. Restarting a section after it ended is not
modelled, as the harness does not do it.

### RoutingSection

The abstract section listens, drains and is closed. One client at a time is at its
door. A session is `none`,
`admitted`, `served`, `ending` or `over`; there are no threads, no container, no
counters and no table. `ImplementsSection` in `MySQLRouting` is its specification
under a refinement mapping:

| Abstract | Concrete |
|---|---|
| `phase` | the place of the acceptor (`PhaseOf`): "draining" from the call of `disconnect_all()` to the end of the wait, "closed" after it |
| `sess[c]` | the place of the thread, or of the acceptor while there is no thread (`SessionOf`) |
| `door` | `peer`, the client whose host was checked |
| `owner`, `errors` | `host`, `conn_error_counters_` |
| `told` | `marked`, the connections with `disconnect_` set |

The limits are stated on what is true of sessions, not on the counters. `Knock`
asks for the errors of the host, and `Admit` and `Refuse`, later, for the number of
sessions that are served, so a lost or doubled increment breaks the refinement.
More is not promised because the code does not keep it: both conditions need not
hold at one moment, and sessions that are admitted and not served yet do not count,
so that more than `max_connections` can come to be served. `Close` requires that nobody is served and that whoever may
still come up was told to end. That is as much as the code gives: a thread that
was created and has not yet counted itself is not waited for
(`routing_no_use_after_free`).

### ProtocolHandshake

The loop of `run()` is `LoopTest`, `Poll` (or `PollTimeout`, `PollFails`),
`CopyServerToClient`, `CopyClientToServer`, `Finish`. `CopyPackets` is the outcome
of one call of `copy_packets()`: packets forwarded, verdict, new `pktnr` and
`handshake_done`. The two peers send packets of the kinds that the code tells
apart. A read takes any number of packets that have arrived. The network may cut
any packet, error packets included, anywhere: behind, at or before the end of its
header. `ClassicLooks` and `XLooks` say what a read may be taken for, a piece in the
middle of a packet for anything. An error packet that is not complete, and a
response of a client that has 0xff where an error packet has it, make `ErrorPacket`
throw (`classic_protocol.cc:106`, `base_packet.cc:53`). Nothing on the thread of the
connection catches that, and the process ends: `pc` is "aborted". An X message that
does not fit the buffer ends the connection for the reason "size"
(`x_protocol.cc:161`). Clients follow their protocol (`honest`) or send packets of
any kind, again and again; servers send X notices again and again. `MaxInFlight`
bounds what may be under way when they do so, not how often. `MySQLRouting`
keeps its one-step handshake; its `Stall` also stands for a thread that is held in
`read()` of an incomplete X message.

### Keyring and Bootstrap

A key and its scramble, a router id, a user name and a password that belong
together are one number, the number of the attempt that made them. Files have a
state that says how much of them can be read, because every write truncates first
and may stop anywhere; `TornKeyrings` and `TornMasterKeys` are what is left then.
`InitKeyring(create, n)` is the pure part of `init_keyring()`, its outcomes up to
the first write; the writes are an action each. `ReadsPassword` is the same
operator with `create` false, which is how a starting router opens the keyring.
With an external program, `ext[i]` is the key it keeps for router id `i`.

In `Bootstrap`, `pc` follows `bootstrap_deployment()`; each statement of
`try_bootstrap_deployment()` that changes the cluster, or can fail in a way of its
own, is an action. `treg` is the row as the open transaction sees it, `reg` the
committed one: `DROP USER` and `CREATE USER` commit implicitly. `id` and `user` are
the references that outlive a failed attempt. `cleanConfig`, `cleanKey` and
`cleanProgram` are the entries of `AutoCleaner`. Its destructor is three actions,
`UnwindKeys`, `UnwindConfig` and `UnwindRest`. `copy_file()` throws when it cannot
open a file, after it may have truncated the other, and does not look at its writes:
`.bak`, `.bck` and what is copied back can be whole or in part (`TornConfigs`,
`TornMasterKeys`). An exception in the destructor ends the process
(`CopyBackThrows`). `unnoticed` collects what went wrong in this bootstrap while the
code went on: the files "tmp", "bak", "config", "master", "bck" and "restored" (the
master key file when it is copied back) written in part, and the "program" that
could not be called. The properties name the members they make an exception for.
`Crash` may happen anywhere, also within a write or a copy, and undoes nothing. A
session that was lost answers 2013 once and 2006 afterwards. Between two bootstraps
an operator deletes the keyring, the master key file, both, or the router's row;
`orphaned` remembers that the keyring went and its master key stayed. Files that
cannot be unlinked are left out.

### DestRoundRobin, DestOrdered and DestStatic

The acceptor calls `get_server_socket()` again and again, servers go down and
come up at any time. In `DestRoundRobin` the manager thread copies the
quarantine under the mutex and then probes and erases without it. A probe of a
server that is up may fail all the same, by its timeout of a second or for want of a
descriptor. `DestOrdered` holds both ordered strategies. `DestStatic` extends both and
chooses the strategy once, as `create_standalone_destination()` does; the definitions
of `DestOrdered` that `DestRoundRobin` has too are named `OrderedInit`, `OrderedCall`,
`OrderedNext` and so on.

### DestMetadataCache

A configuration is any combination of options that the constructor accepts. The
table changes at any time to any modes; `get_available()` is the set
`Available(m, for_new_connections)`, and `get_next_server()` is the pair `NextUp`,
`NextPos`. A call is `GetNextServer`, which looks the table up and chooses, and
`Connected` or `ConnectFails`; a refresh is `TableChanges` and `OnInstancesChange`,
which ends the connections to nodes that are not available for existing ones; the
four interleave. A connection that is added after the notification that should have
ended it is `late`. `asked` is what the options as they were given promise, before
`init()` made members of them. Subscription and failover are in `MySQLRouting` and
`MetadataCache`.

### ClusterMetadata

Every instance has an arbitrary view of group replication: the state of each
server, the primary and the mode. Some servers in a view may be unknown to the
metadata (`NumExtra`). The loop asks the instances in turn; an instance may also
not answer.

### MetadataCache

Mutexes that are held across several steps are variables (`api`, `cb`, and the
per-section subscription mutex through `pc`). A fetch yields any topology, the
empty one included, or fails, or the metadata server cannot be reached. A changed
table calls emergency mode off once per writable member, a step each
(`EraseUnreachable`). Sections with `role=PRIMARY`
look up the table, subscribe, connect, report an unreachable node and wait for
the failover; the wait may also end by its time although emergency mode was just
called off.

### Loader

The main thread goes through `load_all()`, the depth-first search of
`topsort()` (with the recursion of `visit()` as a stack), `init_all()`,
`start_all()`, `main_loop()`, `stop_all()` and `deinit_all()`. The threads that
run `start()` begin, end and fail in between. Which plugins require which, and
which implement `start()`, is chosen initially among everything `load_from()` can
finish with. Because it recurs into requirements before it registers a plugin, a
cycle never gets out of it, and the test for cycles in `topsort()` is dead code;
the model has no action for it.

## 3. Runs that pass

| Run | Instance | States | Shows |
|---|---|---|---|
| `routing` | 2 connections, 1 host, 1 server, 2 buckets, `max_connections` 1, `max_connect_errors` 1 | 2.3 million | `ThreadsCounted`, `RoutesCounted`, `SocketsClosed`, `NotifierNeverOutlivesRouting`, `NotificationComplete`, `DrainMarksAll`, the refinement `ImplementsSection` |
| `routing_live` | 1 connection, 1 bucket, fairness | 15 thousand | `StopTerminates`, `DisconnectHonoured` |
| `static_destinations` | 3 servers, all three strategies, fairness | 164 thousand | `CopyStillQuarantined`, `NonePassedOver`, `FailedNeverReturns`, `EventuallyReleased`, `StopTerminates` |
| `dest_metadata_cache` | 3 instances, all accepted options, all tables | 1.2 million | `IndexValid`, `RoundRobinFair`, `FreshAreKept`, `RoleRespected` |
| `cluster_metadata` | 2 instances, 1 unknown server, all views | 1.5 million | `OneTrustedView`, `OnePrimary` |
| `metadata_cache` | 2 sections, 2 nodes, 1 metadata server, fairness | 288 thousand | `ListenersUpToDate`, `RetriesBounded`, `CallsReturn`, `StopReturns` |
| `loader` | 3 plugins, 3 sections, all requirements, fairness | 512 thousand | `RequirementsLive`, `QuietDeinit`, `StopsOnce`, `ErrorReported`, `ShutdownCompletes` |
| `handshake` | both protocols, honest clients and others, 1 packet under way when a peer repeats itself, fairness | 1.2 million | `AnsweredNotBlamed`, `ServerSeesHandshake`, `HonestNotAborted`, `AuthenticatedOrEnded` |
| `bootstrap` | 2 bootstraps, 2 members, 2 faults, both deployments, key file or program, any deletion, fairness | 1.6 million | `Usable`, `OldConfigKept`, `FailureRestores`, `OthersKeyKept`, `OneAccount`, `BootstrapEnds` |

Every module defines its `TypeOK`. It is an invariant of the run `routing`, where
it also says that the thread counter never goes below zero; it holds on the other
instances too, but their configurations list only the properties of the table.

**Why the bounds are enough.** Two connections give one thread that ends while
the other is being created, added or marked, and with a bucket each a walk that
is between them; the theorems of section 5 cover any number. One server suffices
because it is in or out of the sets `allowed` and `kept` independently. With
`max_connections` and `max_connect_errors` at 1 both limits are reached. Three
servers give the round-robin a quarantine that changes in front of, at and behind
the position of the copy. Two instances, each with a view of its own of three
servers, let the first be wrong about everything and the second be right. Two
nodes can both be writable, so that emergency mode is called off in more than one
step; two sections compete for the API mutex. Three instances let the list of a
metadata-cache destination shrink below the position and grow around it. Three
plugins have all shapes of requirements up to a chain, a fork and
a join, and one failing, one ending and one persisting section at a time. A peer that
repeats itself with one packet under way goes on forever, in turn with the other
side and alone. In `bootstrap`
the second run meets what the first one left behind, and two faults put one in
each, or a second one on top of the first, such as a crash after a failover. A
fault (`MaxFaults`) is a lost connection, another error, a member that moves or
cannot be reached, a write or a call that fails, a crash, or something that is
deleted between the runs. `MaxNum` follows from the others.

**Deadlock.** `loader` checks for it, with the end of the process as an
explicit stutter, and so does `dest_metadata_cache`, whose table can always
change. In the other models the system may really stop: a section or
cache that has ended, a manager that was joined, a call that returned, a
connection that is closed, the last bootstrap.

**Fairness.** Weak fairness of a thread is the operating system's scheduler.
`poll()`, `connect()`, `wait_for()` and `wait_until()` have timeouts in the code,
so these steps are among the fair ones. Strong fairness stands where a thread
waits for a mutex that another one releases again and again, with a sleep in
between (the acceptor against the refresh thread, API calls against each other).
`SF(Connect)` says that a connect
is not followed by "retry" forever: `RetriesBounded` shows in `MetadataCache` that
retries without end take changes of the table without end. The quarantine manager
gets an answer from a server that it probes again and again while the server is up
(strong fairness per server): without it, every probe could time out. Apart from
these two, nothing is assumed of clients, servers and operators. That is why `StopTerminates` of the routing section and
`DisconnectHonoured` make an exception for a thread held in `write()` by a peer
that does not read. Plugins are assumed to return from `start()` once the running
flag is cleared, which is what the documentation of the loader asks of them. In
`ProtocolHandshake` the thread is scheduled and `poll()` returns. `AuthenticatedOrEnded`
makes two exceptions, since the code has them: an incomplete X message whose sender
is silent, as `read()` has no timeout, and peers whose packets never end, as each
packet starts `client_connect_timeout` anew (`connection.cc:189`). In `Bootstrap` the process is scheduled and statements end, if only by
the read timeout of the session.

## 4. Runs that end in a violation

These state what a comment or a document says and the code does not do.

* `routing_no_use_after_free`: the last connection thread still uses the container
  after the acceptor was woken and the section destroyed; a thread that was
  created and has not yet increased the counter is not waited for at all.
* `routing_disallowed_disconnected`: a server taken from an old copy of the table
  gets its connection into the container after the walk that would have marked it.
* `bootstrap_usable_after_deletion`: `keyring_manager.cc:226` advises to delete a
  keyring file and bootstrap again. The new keyring gets a second entry in the master
  key file and `get()` takes the first (line 175): the bootstrap succeeds and the
  router cannot start, until the master key file is deleted as well. (The message is
  about keyring files of an old version; the run deletes one of the present version,
  with its entry in the master key file.)

Further observations of this kind that have no run:

* `get_mysql_socket()` returns -2 after a timeout, which `check_sockets()` takes for a
  valid descriptor (`routing.cc:221`); the connection ends at the first `poll()`, and
  its client is counted as an error.
* The majority is one of the servers in the view, not of those the metadata defines
  (`cluster_metadata.cc:324`); its comment states the assumption.
* Two clients that are accepted before the first is counted exceed
  `max_connections` (`mysql_routing.cc:348`, `connection.cc:149`). The run `routing`
  reaches such states; `ImplementsSection` states the weaker limit that is kept.
* A client can be let in at no moment at which its host was below its limit and the
  routes below theirs, as these are two reads (`mysql_routing.cc:339`, `:348`).
* An exception of type `invalid_argument` in the setup of the sockets is not caught
  where others are (`mysql_routing.cc:165`, `:505`), and leaves the running flag set.
* A thread that ends before `add_connection()` leaves its connection in the
  container for good (`mysql_routing.cc:398`). The model does so too, and the
  invariants about the container hold all the same.
* Emergency mode entered by a failed connect is called off only by a change of
  the table (`if (changed)`, `metadata_cache.cc:675`), although the comment at lines
  671-674 says that false alarms turn it off. And a change calls it off once per
  writable member (lines 688-704): a mark that is made in between is lost, and the
  section retries although the table has not changed since its lookup.
  `RetriesBounded` counts these retries in.
* After a failed fetch the next metadata server is asked (`metadata_cache.cc:632`),
  although note [03] at line 470 says it is not.
* The error `run()` returns need not be the first that a plugin raised, as
  `loader.h:573` says: `main_loop()` calls `stop_all()` for a signal before it looks
  at the futures, and looks at these in the order of the sections.
* The search for a secondary that decides on the fallback to primaries does not
  look at the role "HA", while the list that is returned holds "HA" instances only
  (`dest_metadata_cache.cc:217`): a secondary of another role would suppress the
  fallback. The queries of `cluster_metadata.cc` return the role as it is stored.
* A cycle of requirements recurs without end in `load_from()`.

Of the handshake:

* `handshake_done` is set by the call of `copy_packets()` after the one that saw the
  answer (`classic_protocol.cc:62`); `AnsweredNotBlamed` holds because the other
  direction is always called before the loop can end.
* A classic packet that arrives in two reads is judged by its parts: the second part
  is taken for a packet with a number of its own (`classic_protocol.cc:92`), and less
  than a header ends the connection. `ServerSeesHandshake` and `HonestNotAborted` are
  about uncut packets for that reason. A refusal that is cut behind its header is
  passed on without being recognised, and its client counted as an error.
* An error packet that arrives in part throws in the thread of the connection and
  ends the router (`classic_protocol.cc:106`), and so may a response whose first
  capability byte is 0xff.
* An X message that is bigger than the buffer ends an honest connection
  (`x_protocol.cc:161`), as the test `CopyPacketsHandshakeMsgBiggerThanBuffer` wants it.
* A peer that keeps sending packet number 0, or X notices, stays unauthenticated and
  connected for as long as it likes (`connection.cc:189`).
* Clients that are in their handshake when the section is stopped, or their server is
  taken away, are counted as connection errors (`connection.cc:241`).
* The made-up response is also sent after the client's own one
  (`connection.cc:247`).

Of the bootstrap and the keyring:

* A keyring that was cut by a crash makes every later bootstrap fail until it is
  deleted. Whether its error is forgiven depends on `errno`, which may still be that
  of the missing master key file (`keyring_manager.cc:229`).
* Errors while the master key file, `.tmp` or a copy is being written go unnoticed
  (`keyring_manager.cc:143`, `config_generator.cc:1130`, `utils.cc:164`). So a full disk
  can cut `.bak` before the configuration is replaced, or the master key file while
  it is copied back, after which the good `.bck` is deleted. The properties except
  these runs (`unnoticed`). The next bootstrap copies a cut key file over a good `.bck`.
* `copy_file()` can throw in the destructor of `AutoCleaner` (`config_generator.cc:198`),
  which ends the process; the copy is still there then.
* The password on the server is changed before keyring and configuration are written,
  and not changed back: a repeated bootstrap that fails breaks a router that worked.
* `DROP USER` and `CREATE USER` commit. A bootstrap that fails after them leaves its row
  behind, and the next one needs `--force`.
* `ensure_router_id_is_ours()` takes a lost connection for a foreign id; the next
  statement fails with 2006, which is not failed over (`config_generator.cc:1152`).
* A first failover because of 2013 asks the lost session for the members
  (`config_generator.cc:918`) and gives up; only 1290, or a later 2013, is failed over.
* A bootstrap of a directory that crashes leaves files without a configuration, and
  the next one is refused without `--force`.
* Where the first of the two reads of the external key fails, the callback that gives
  the key back is not installed (`config_generator.cc:1009`), and a key that was
  generated stays after a failure.

## 5. Proofs

All theorems hold for every value of the constants that satisfies the assumptions
named in the modules. Each inductive invariant (`IInv`, a conjunction of named
parts) was checked with TLC on the instance of the module's run before it was
proved. Everywhere the layout is the same: a lemma per part, or per module where
there are few, with a step per action; `Invariance` puts them together; the
theorem of a property then follows.

### Routing section

`MySQLRoutingProofs`, for any finite set of connections, any hosts, servers,
number of buckets, limits and width of the counter:

| Theorem | States |
|---|---|
| `TypeCorrect` | `Spec => []TypeOK`; the thread counter never goes below zero |
| `ThreadsCountedAlways` | `active_client_threads_` is the number of threads between increase and decrease |
| `RoutesCountedAlways` | `info_active_routes_` is the number of routed connections modulo its width |
| `SocketsClosedAlways` | no path out of `run()` leaves a socket open |
| `NotifierSafe` | the callback of a section is never running once the section has ended |
| `NotificationCompleteAlways` | `disconnect(nodes)` misses no connection that stays in the container |
| `DrainMarksAllAlways` | when the acceptor waits for its threads every connection in the container is marked |
| `SectionImplemented` | `Spec /\ []NoWrap => ImplementsSection`: the section implements `RoutingSection` |
| `SectionImplementedBelowModulus` | the same without `NoWrap`, for fewer connections than `RouteModulus` |

**Assumptions.** Only `RoutingAssumption`: the set of connections is finite, every
connection has a bucket, the limits are positive, `max_connections` fits the
counter.

**Argument.** None of these is inductive alone. The invariant `IInv` adds:

* `Building`: the connection the acceptor is creating has no thread, is in no
  container and in no walk, and its server socket is what the connect returned.
  Without it a newly added connection could be one that a walk had already
  passed, and a thread could begin without sockets.
* `Sockets`: a thread that has begun and not yet closed its sockets has a
  definite server socket, so that what is left after the close is known.
* `Registered`: the callback is registered exactly from `SetUp` to `Unregister`,
  and a walk in progress needs a registered callback. This is where the mutex of
  the callback list comes in: `Unregister` waits for the walk.
* `Draining`, `Notifying`: the two walks have dealt with all buckets before the
  present one. At the last bucket these become `DrainMarksAll` and
  `NotificationComplete`.

The counters are proved by comparing the set of counted threads before and after
each step: it gains or loses one member or stays, with the cardinality lemmas of
`FiniteSetTheorems`, and three lemmas about `%` for the 16-bit counter.

The refinement adds `HandedOver`: whoever has a client socket and no thread is the
connection under construction, and a thread that has not ended is in the container
or about to be put there. With `DrainMarksAll` it gives what `Close` asks, that
whoever may still come up was told to end. `Admit` asks for the number of served
sessions; the code asks the counter, which by `RoutesCounted` is that number as
long as it is below the modulus. That is the hypothesis `NoWrap`, and it is not
implied by the limit on connections: a thread that was created and has not yet
counted itself is not seen by the admission check, so more than
`max_connections` may be routed, and nothing in the code bounds by how many.

### Destinations

| Module | Theorem | States |
|---|---|---|
| `DestStaticProofs` | `CopyStillQuarantinedAlways` | what is left of the manager's copy is in the quarantine, and nothing is there twice |
| | `NonePassedOverAlways` | a call gives up only when every server was quarantined or failed |
| | `FailedNeverReturnsAlways` | next-available never goes back; first-available gives up only when every server failed |
| `DestMetadataCacheProofs` | `TypeCorrect` | the position stays below the number of instances |
| | `IndexValidAlways` | the index fits the list, however it shrank since the last call |
| | `RoundRobinFairAlways` | no server of an unchanged list is chosen twice before all were chosen once |
| | `FreshAreKeptAlways` | no notification ends what the same table offers to new clients |
| | `RoleRespectedAlways` | connections, late ones excepted, are on servers that the options as given allow |

The only assumption is that there is a server. For the walks over a static list
the invariant counts round its end: `Behind(pos, n, S)` says that the `n` servers
before the position are in `S`, the ones seen failing; a step of the loop moves
both by one, and with `n` the length of the list `S` is everything. In the
quarantine the copy and the vector have no duplicates (`Quarantine`), so that
erasing one element takes none of the others that are left of the copy, and the
acceptor only appends. For the metadata-cache destination the invariant adds that
`first-available` never moves the position (`Position`), that the last choices
are the places before the position, counted round the list (`Turns`), that the
members and the promise come from the same options (`Matching`), and that what was
chosen, made or kept is available in the table that goes with it (`Linked`).
`NewWithinExisting` is the fact that `MySQLRouting` uses when it lets `kept` include
`allowed`. `DestStaticProofs` is about `DestStatic`; round-robin and the ordered strategies share
the list and the position of `RouteDestination`, so that the lemmas about `Behind`
serve both.

### Cluster metadata and metadata cache

| Module | Theorem | States |
|---|---|---|
| `ClusterMetadataProofs` | `OneTrustedViewAlways` | the table is the view of one instance with a quorum, or empty |
| | `OnePrimaryAlways` | in single-primary mode at most one instance is writable |
| | `QuorumsIntersect` | two views of one membership that both pass the test for a quorum share a server that both count |
| `MetadataCacheProofs` | `ListenersUpToDateAlways` | after a refresh every subscribed section knows of the change |
| | `RetriesBoundedAlways` | between two changes a section retries at most once per writable member and once more |

`Outcome` says which instance the table is from once the search has ended.
`QuorumsIntersect` is about the code's test itself: it counts only servers that the
metadata knows against a majority of all that the view lists, and that still is an
intersecting quorum. For the cache, `Telling` says who has still to be told at each
place of the refresh thread. `Erasing` counts the members for which emergency mode
has still to be called off, and `Paid` says that every retry of a section but the
first was paid for by one that has been: a section that is about to retry without
another (`Ready`) has one left.

### Loader

`LoaderProofs`, for any finite set of plugins, any requirements among them that
`load_all()` can finish with, and any number of sections:

| Theorem | States |
|---|---|
| `RequirementsLiveAlways` | no plugin is initialised without all it requires; `deinit_all()` works through exactly those that are initialised |
| `QuietDeinitAlways` | no thread is before or in `start()` when `deinit_all()` begins |
| `StopsOnceAlways` | `stop()` is called once per section in a run that got to `start_all()`, never in another |
| `ErrorReportedAlways` | `run()` returns an error if and only if one was raised |

`Topsorting` is the loop invariant of the depth-first search: the open calls are
different ONGOING plugins, the visited plugins are in `order_`, and each is in front
of all it requires; the reversal turns this into `Ordered`. `Initialised` says that
the initialised plugins are the first ones of `order_`, with which `RequirementsLive`
is a fact about a prefix. `Futures` says that a thread that has not ended has a valid
future and that a scan which found nothing unsettled has none valid behind it.
`StopCalls` ties the flag `called_stop_all` to the calls, `ErrorsKept` says where an
error is at each time: in `first_eptr`, in the pointer of the function that is
collecting, or still in the future of its thread.

### Handshake

`ProtocolHandshakeProofs`, for connections of any length and any `MaxInFlight`:

| Theorem | States |
|---|---|
| `TypeCorrect` | `Spec => []TypeOK`; the packet number stays below 4 |
| `AnsweredNotBlamedAlways` | who was answered, or whose X session the server was asked to open, is not counted as a connection error |
| `ServerSeesHandshakeAlways` | a server that has not refused or left has seen a handshake when the router hangs up |
| `HonestNotAbortedAlways` | no connection of a client that follows its protocol is given up for a number or a message, and none ends the process but by the byte 0xff |

**Assumptions.** Only `HandshakeAssumption`, that `MaxInFlight` is a natural number. The
properties themselves say for which clients and packets they hold.

**Argument.** `ClassicCall` and `XCall` are what one call of `copy_packets()` can do,
with the arithmetic of sizes and pieces gone; `Steps` says that every step is such a
call, one message of a peer, or leaves the messages alone. The invariant `IInv` then is
about what may be under way:

* X: the message that opens a session is the first one the client sends, so it is at
  the front of what is read or not there (`XClient`), and the flag is set exactly when
  the server was asked or has refused (`XOpened`).
* Classic: `CTurns` says who may have sent what by now. `Und` says that the flag is not
  set and the next call will not set it. Once false it stays false, because any later
  call of either direction turns number 2 into the flag. While it holds, at most one
  packet of the server is under way, in pieces perhaps, and a verdict is there from
  its beginning, with its number 2 (`CServer`); so the call that forwards it sees it
  (`CVerdict`). It is alone because the greeting was read to its end before the
  response was forwarded: `poll()` looks at both sides, and the server's is read
  first. This is the heart of `AnsweredNotBlamed`, and it would not hold for a client
  that does not wait for the greeting.
* Classic, nothing cut: number 2 means that the server has a response or has refused
  (`WholeDone`), number 1 that the response is with the server and the client is
  waiting (`WholeNumbers`), with what may be in the queues (`WholeClient`,
  `WholeServer`, `WholeQueue`). So the number that is compared is never stale, although
  each direction resets it.
* `Going`, `Blame` and `Calmed` say how a connection goes on and ends.

### Bootstrap and keyring

`BootstrapProofs`, for any number of bootstraps, faults, group members and keyrings:

| Theorem | States |
|---|---|
| `OldConfigKeptAlways` | the configuration that was found is in its file or in `.bak`, after a crash too, unless one of the copies was cut unnoticed |
| `FailureRestoresAlways` | a failure leaves the master keys, in file and program, as they were, unless a copy was cut or the program failed unnoticed |
| `OthersKeyKeptAlways` | the entries of other routers are in the file or in its copy, unless one was cut unnoticed; no external key is replaced |
| `OneAccountAlways` | a success has changed no account but that of its configuration |
| `UsableAlways` | a success leaves a router that can start, unless its configuration or master keys were cut unnoticed, or the keyring was deleted and its master key kept |

**Assumptions.** `BootstrapAssumption`: finitely many members, and `MaxNum` is large
enough for all attempts. The exceptions in the table are part of the properties; each
is one that the code needs (section 4).

**Argument.** For the first four, `IInv` says at each place of `pc` and `kpc` which
file or entry is the old one: `ConfigKept` (configuration and `.bak`), `KeysKept` (key
file, `.bck` and what the cleaner will do), `ProgramKept`, `EntriesKept` (the old
entries are a prefix of what is written), `Accounts` (only the account of the present
user was changed, and then its row was committed with it, so that the next attempt
keeps the user). `Usable` needs more, `UInv`: `Numbers` bounds the attempts of one
bootstrap by one more than the members, as the list of members is fetched once and
gets shorter with every failover; `KeyNumbers` says that a key that is made is none
that an older keyring has; `Credentials` that password, account, row and
configuration agree from the end of the attempts on; `KeyringPair` that a master
key file with an entry for this keyring goes with a keyring file, so that an entry
is only ever added where there is none, up to a deletion of the keyring alone
(`orphaned`). `oldConfig`, `oldKeys`, `oldExt` and `oldAcct`
are history variables of the model, set when a bootstrap begins.

### Only model-checked

* Liveness: `StopTerminates` (twice), `DisconnectHonoured`, `EventuallyReleased`,
  `CallsReturn`, `StopReturns`, `ShutdownCompletes`, `AuthenticatedOrEnded`,
  `BootstrapEnds`. Fairness and `ENABLED` are outside the proof system.
* `TypeOK` of the other modules is part of their invariants and so proved with
  them, except in `Bootstrap`, where `Types`, `Numbers`, `Identities` and `KeyNumbers`
  hold what the proofs need of it.
* The disagreements of section 4, which are counterexamples.

## 6. Plan

Done: routing section with its abstract specification, destinations, quorum,
metadata cache, loader, handshake of both protocols, keyring, bootstrap; proofs of
every safety property that the runs check; the refinement of `RoutingSection`.

Next:

1. The rest of `TypeOK` of `Bootstrap`.
2. The lookup of `MySQLRouting` as an abstraction of `MetadataCache`, so that the
   one-step refresh of the former is shown to be what the latter does.

## 7. Not modelled

* The encoding of packets, and `send_error()`, which only writes one.
* Configuration parser, designators and URIs: text parsing without shared state.
* Of the bootstrap: the checks of its options, the text of the configuration, the
  start and stop scripts. Of the keyring: encryption, and a master key that is typed
  in, which is one that no file or program can lose.
* Logging registry: it is filled while the process has one thread, under its mutex.
* Stage 1 of a refresh, the SQL that lists the instances: any list is possible.
* HTTP server plugin: a wrapper around libevent.
* Application start, command line, utilities and client-library sessions: input
  and output without a protocol of their own.
* Mock server and example plugins: fixtures.
* Data races (the error counters read without the mutex at `mysql_routing.cc:339`,
  the set of unreachable replicasets at `metadata_cache.cc:804`): the models read a
  consistent value. `errno` after a failed connect: both outcomes are possible.
* Failure to create a thread in `start_all()`: the exception leaves `run()`
  without `stop_all()` (`loader.cc:706`).
