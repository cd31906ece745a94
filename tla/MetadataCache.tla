--------------------------- MODULE MetadataCache ---------------------------
(***************************************************************************)
(* The metadata cache and the threads that meet in it: the refresh thread  *)
(* (MetadataCache::refresh), the plugin thread that creates and stops the  *)
(* cache (cache_init, cache_stop), and the acceptor threads of the routing *)
(* sections that want a primary (DestMetadataCacheGroup::get_server_socket)*)
(* and call lookup_replicaset, mark_instance_reachability,                 *)
(* wait_primary_failover and add_listener.                                 *)
(*                                                                         *)
(* Mutexes that are held across other steps are variables:                 *)
(*   api    g_metadata_cache_m, taken by every API call                    *)
(*   cb     replicaset_instances_change_callbacks_mtx_                     *)
(*   sub    subscribed_for_metadata_cache_changes_mutex_ of each section   *)
(* cache_refreshing_mutex_ and replicasets_with_unreachable_nodes_mtx_ are *)
(* held for one step at a time.                                            *)
(*                                                                         *)
(* One replicaset, as in the code's own notes.  A routing table says which *)
(* nodes it lists and which of them are writable; "RO" stands for every    *)
(* listed node that is not.  A replicaset is made from its members' rows,  *)
(* so the table that lists no node is the map without any replicaset.      *)
(***************************************************************************)
EXTENDS Naturals, FiniteSets

CONSTANTS Nodes,
          Clients,             \* routing sections with role=PRIMARY
          NoOne, Plugin, Refresher, \* other holders of a mutex
          NumMetadataServers   \* metadata_servers_.size()

ASSUME CacheAssumption ==
  /\ IsFiniteSet(Nodes)
  /\ NumMetadataServers \in Nat \ {0}
  /\ {NoOne, Plugin, Refresher} \cap Clients = {}
  /\ NoOne # Plugin /\ NoOne # Refresher /\ Plugin # Refresher

VARIABLES
  cache,       \* g_metadata_cache: "null", "init", "ready", "stopping", "stopped"
  api, cb,     \* who holds the mutexes
  table,       \* replicaset_data_
  unreachable, \* the replicaset is in replicasets_with_unreachable_nodes_
  terminate_,
  rt,          \* where refresh() is, in the constructor or in the refresh thread
  md,          \* the metadata server it is at
  left,        \* the writable members it has still to call emergency mode off for
  todo,        \* the listeners it has still to notify
  listeners,
  pc,          \* where each section's get_server_socket() is
  snap,        \* the primaries each section looked up
  node,        \* the node each section tried
  stale,       \* auxiliary: listeners of before the last change, not told of it
  spins        \* auxiliary: each section's retries since the last change

rtVars  == <<rt, md, left, todo>>
cliVars == <<pc, snap, node>>
auxVars == <<stale, spins>>
vars == <<cache, api, cb, table, unreachable, terminate_, rtVars,
          listeners, cliVars, auxVars>>

Tables == [Nodes -> {"RW", "RO", "absent"}]
Cleared == [n \in Nodes |-> "absent"]
Writable(t) == {n \in Nodes : t[n] = "RW"}
Listed(t)   == {n \in Nodes : t[n] # "absent"}

TypeOK ==
  /\ cache \in {"null", "init", "ready", "stopping", "stopped"}
  /\ api \in Clients \cup {NoOne, Plugin}
  /\ cb \in {NoOne, Refresher}
  /\ table \in Tables
  /\ unreachable \in BOOLEAN
  /\ terminate_ \in BOOLEAN
  /\ rt \in {"none", "connect", "erase", "lock",
             "notify", "returned", "done"}
  /\ md \in 1..(NumMetadataServers + 1)
  /\ left \in 0..Cardinality(Nodes)
  /\ todo \subseteq Clients
  /\ listeners \subseteq Clients
  /\ pc \in [Clients -> {"idle", "lookup", "add", "insert", "choose",
                         "mark", "enter", "waiting"}]
  /\ snap \in [Clients -> SUBSET Nodes]
  /\ node \in [Clients -> Nodes \cup {NoOne}]
  /\ stale \subseteq Clients
  /\ spins \in [Clients -> Nat]

Init ==
  /\ cache = "null"
  /\ api = NoOne /\ cb = NoOne
  /\ table = Cleared
  /\ unreachable = FALSE
  /\ terminate_ = FALSE
  /\ rt = "none" /\ md = 1 /\ left = 0 /\ todo = {}
  /\ listeners = {}
  /\ pc = [c \in Clients |-> "idle"]
  /\ snap = [c \in Clients |-> {}]
  /\ node = [c \in Clients |-> NoOne]
  /\ stale = {}
  /\ spins = [c \in Clients |-> 0]

(***************************************************************************)
(* The plugin thread.                                                      *)
(***************************************************************************)

\* cache_init(): the constructor's refresh() runs under the API mutex.
CacheInit ==
  /\ cache = "null" /\ api = NoOne
  /\ cache' = "init"
  /\ api' = Plugin
  /\ rt' = "connect" /\ md' = 1
  /\ UNCHANGED <<cb, table, unreachable, terminate_, left, todo,
                 listeners, cliVars, auxVars>>

\* The constructor is done; start() launches the refresh thread.
StartThread ==
  /\ cache = "init" /\ rt = "returned"
  /\ cache' = "ready"
  /\ api' = NoOne
  /\ UNCHANGED <<cb, table, unreachable, terminate_, rtVars,
                 listeners, cliVars, auxVars>>

\* cache_stop() takes the API mutex, sets terminate_ ...
CacheStop ==
  /\ cache = "ready" /\ api = NoOne
  /\ api' = Plugin
  /\ cache' = "stopping"
  /\ terminate_' = TRUE
  /\ UNCHANGED <<cb, table, unreachable, rtVars, listeners, cliVars, auxVars>>

\* ... and keeps the mutex until the refresh thread is joined.
Joined ==
  /\ cache = "stopping" /\ rt = "done"
  /\ api' = NoOne
  /\ cache' = "stopped"
  /\ UNCHANGED <<cb, table, unreachable, terminate_, rtVars, listeners,
                 cliVars, auxVars>>

(***************************************************************************)
(* refresh() and refresh_thread().                                         *)
(***************************************************************************)
rtElse == <<cache, api, terminate_, listeners, cliVars>>

\* while (!terminate_): the thread starts, or has slept until the TTL was over
\* or, in emergency mode, for one second, looking at terminate_ in between.
RefreshLoop ==
  /\ rt = "returned" /\ cache # "init"
  /\ rt' = IF terminate_ THEN "done" ELSE "connect"
  /\ UNCHANGED <<rtElse, cb, table, unreachable, md, left, todo, auxVars>>

\* connect() fails, or fetch_instances() throws: the next metadata server.
ServerFails ==
  /\ rt = "connect" /\ md <= NumMetadataServers
  /\ md' = md + 1
  /\ UNCHANGED <<rtElse, cb, table, unreachable, rt, left, todo, auxVars>>

\* fetch_instances(): the nodes fail, recover and are elected as they like.
\* Metadata without any instance of the cluster is an empty table, and a success.
Fetched == Tables

\* compare_instance_lists() also finds members in another order, or with
\* another weight or address, which a table does not show.
Changes(t) == {t # table} \cup (IF t = Cleared THEN {} ELSE {TRUE})

Replaced == stale' = listeners /\ spins' = [c \in Clients |-> 0]

\* What was fetched replaces the table, under cache_refreshing_mutex_, if it
\* differs.
Apply ==
  /\ rt = "connect" /\ md <= NumMetadataServers
  /\ md' = 1
  /\ \E temp \in Fetched : \E changed \in Changes(temp) :
       IF changed
         THEN /\ table' = temp
              /\ rt' = IF Writable(temp) = {} THEN "lock" ELSE "erase"
              /\ left' = Cardinality(Writable(temp))
              /\ Replaced
         ELSE rt' = "returned" /\ UNCHANGED <<table, left, auxVars>>
  /\ UNCHANGED <<rtElse, cb, unreachable, todo>>

\* Each writable member of a changed table calls emergency mode off, under the
\* mutex of its own turn of the loop.
EraseUnreachable ==
  /\ rt = "erase"
  /\ unreachable' = FALSE
  /\ left' = left - 1
  /\ rt' = IF left = 1 THEN "lock" ELSE "erase"
  /\ UNCHANGED <<rtElse, cb, table, md, todo, auxVars>>

\* Mutant: the cleared table is not announced.
ClearTableSilently ==
  /\ rt = "connect" /\ md = NumMetadataServers + 1
  /\ table' = Cleared
  /\ rt' = "returned"
  /\ md' = 1
  /\ IF table # Cleared THEN Replaced ELSE UNCHANGED auxVars
  /\ UNCHANGED <<rtElse, cb, unreachable, left, todo>>

\* No metadata server could be used: the table is cleared as a precaution.
ClearTable ==
  /\ rt = "connect" /\ md = NumMetadataServers + 1
  /\ table' = Cleared
  /\ md' = 1
  /\ IF table # Cleared THEN rt' = "lock" /\ Replaced
                        ELSE rt' = "returned" /\ UNCHANGED auxVars
  /\ UNCHANGED <<rtElse, cb, unreachable, left, todo>>

\* on_instances_changed() takes the callbacks' mutex ...
NotifyLock ==
  /\ rt = "lock" /\ cb = NoOne
  /\ cb' = Refresher
  /\ todo' = listeners
  /\ rt' = "notify"
  /\ UNCHANGED <<rtElse, table, unreachable, md, left, auxVars>>

SubFree(l) == pc[l] \notin {"add", "insert"}

\* Mutant: the listener calls back into the metadata cache's API.
NotifyOneCallingBack(l) ==
  /\ rt = "notify" /\ l \in todo
  /\ SubFree(l) /\ api = NoOne
  /\ stale' = stale \ {l}
  /\ todo' = todo \ {l}
  /\ UNCHANGED <<rtElse, cb, table, unreachable, rt, md, left, spins>>

\* ... looks the table up and notifies each listener, whose get_available()
\* takes the section's subscription mutex.
NotifyOne(l) ==
  /\ rt = "notify" /\ l \in todo
  /\ SubFree(l)
  /\ stale' = stale \ {l}
  /\ todo' = todo \ {l}
  /\ UNCHANGED <<rtElse, cb, table, unreachable, rt, md, left, spins>>

NotifyDone ==
  /\ rt = "notify" /\ todo = {}
  /\ cb' = NoOne
  /\ rt' = "returned"
  /\ UNCHANGED <<rtElse, table, unreachable, md, left, todo, auxVars>>

(***************************************************************************)
(* A routing section, DestMetadataCacheGroup::get_server_socket().         *)
(***************************************************************************)
cliElse == <<cache, cb, table, terminate_, rtVars>>

Begin(c) ==
  /\ pc[c] = "idle"
  /\ pc' = [pc EXCEPT ![c] = "lookup"]
  /\ UNCHANGED <<cliElse, api, unreachable, listeners, snap, node, auxVars>>

\* lookup_replicaset(); it throws as long as there is no cache.  get_available()
\* keeps the primaries and subscribes for changes: once subscribed, as the flag
\* and membership of listeners_ both say, that returns at once.
Lookup(c) ==
  /\ pc[c] = "lookup" /\ api = NoOne
  /\ IF cache = "null"
       THEN pc' = [pc EXCEPT ![c] = "idle"] /\ UNCHANGED snap
       ELSE /\ pc' = [pc EXCEPT ![c] = IF c \in listeners THEN "choose" ELSE "add"]
            /\ snap' = [snap EXCEPT ![c] = Writable(table)]
  /\ UNCHANGED <<cliElse, api, unreachable, listeners, node, auxVars>>

\* add_listener(): the API mutex first, then the callbacks' mutex.
AddListener(c) ==
  /\ pc[c] = "add" /\ api = NoOne
  /\ api' = c
  /\ pc' = [pc EXCEPT ![c] = "insert"]
  /\ UNCHANGED <<cliElse, unreachable, listeners, snap, node, auxVars>>

Insert(c) ==
  /\ pc[c] = "insert" /\ cb = NoOne
  /\ listeners' = listeners \cup {c}
  /\ api' = NoOne
  /\ pc' = [pc EXCEPT ![c] = "choose"]
  /\ UNCHANGED <<cliElse, unreachable, snap, node, auxVars>>

NoPrimary(c) ==
  /\ pc[c] = "choose" /\ snap[c] = {}
  /\ pc' = [pc EXCEPT ![c] = "idle"]
  /\ snap' = [snap EXCEPT ![c] = {}]
  /\ UNCHANGED <<cliElse, api, unreachable, listeners, node, auxVars>>

Connected(c) ==
  /\ pc[c] = "choose" /\ snap[c] # {}
  /\ pc' = [pc EXCEPT ![c] = "idle"]
  /\ snap' = [snap EXCEPT ![c] = {}]
  /\ UNCHANGED <<cliElse, api, unreachable, listeners, node, auxVars>>

Refused(c, n) ==
  /\ pc[c] = "choose" /\ n \in snap[c]
  /\ node' = [node EXCEPT ![c] = n]
  /\ pc' = [pc EXCEPT ![c] = "mark"]
  /\ snap' = [snap EXCEPT ![c] = {}]
  /\ UNCHANGED <<cliElse, api, unreachable, listeners, auxVars>>

\* Mutant: the unreachable node is not recorded.
MarkNothing(c) ==
  /\ pc[c] = "mark" /\ api = NoOne
  /\ node' = [node EXCEPT ![c] = NoOne]
  /\ pc' = [pc EXCEPT ![c] = "enter"]
  /\ UNCHANGED <<cliElse, api, unreachable, listeners, snap, auxVars>>

\* mark_instance_reachability(): emergency mode, if the node is still listed.
Mark(c) ==
  /\ pc[c] = "mark" /\ api = NoOne
  /\ unreachable' = (unreachable \/ node[c] \in Listed(table))
  /\ node' = [node EXCEPT ![c] = NoOne]
  /\ pc' = [pc EXCEPT ![c] = "enter"]
  /\ UNCHANGED <<cliElse, api, listeners, snap, auxVars>>

\* wait_primary_failover() keeps the API mutex for as long as it waits.
EnterWait(c) ==
  /\ pc[c] = "enter" /\ api = NoOne
  /\ api' = c
  /\ pc' = [pc EXCEPT ![c] = "waiting"]
  /\ UNCHANGED <<cliElse, unreachable, listeners, snap, node, auxVars>>

\* It looks whether emergency mode is on, sleeps and looks again, until it is
\* called off: retry ...
Failover(c) ==
  /\ pc[c] = "waiting" /\ ~unreachable
  /\ api' = NoOne
  /\ pc' = [pc EXCEPT ![c] = "lookup"]
  /\ spins' = [spins EXCEPT ![c] = @ + 1]
  /\ UNCHANGED <<cliElse, unreachable, listeners, snap, node, stale>>

\* Mutant: the loop waits for the failover without looking at the time.
WaitWithoutTimeout(c) ==
  /\ pc[c] = "waiting" /\ ~unreachable
  /\ api' = NoOne
  /\ pc' = [pc EXCEPT ![c] = "idle"]
  /\ UNCHANGED <<cliElse, unreachable, listeners, snap, node, auxVars>>

\* ... or the time, read before each look, is over: return what connect
\* returned, without a last look.
WaitTimesOut(c) ==
  /\ pc[c] = "waiting"
  /\ api' = NoOne
  /\ pc' = [pc EXCEPT ![c] = "idle"]
  /\ UNCHANGED <<cliElse, unreachable, listeners, snap, node, auxVars>>

(***************************************************************************)
(* The specification.                                                      *)
(***************************************************************************)
RefreshThread ==
  \/ RefreshLoop \/ Apply \/ EraseUnreachable \/ ClearTable
  \/ NotifyLock \/ (\E l \in Clients : NotifyOne(l)) \/ NotifyDone

PluginThread == StartThread \/ Joined

\* What a section does between entering an API call and returning from it.
ApiCall(c) ==
  \/ Lookup(c) \/ AddListener(c) \/ Insert(c)
  \/ Mark(c) \/ EnterWait(c) \/ Failover(c) \/ WaitTimesOut(c)

Next ==
  \/ CacheInit \/ CacheStop \/ PluginThread
  \/ RefreshThread \/ ServerFails
  \/ \E c \in Clients :
       \/ Begin(c) \/ ApiCall(c) \/ NoPrimary(c) \/ Connected(c)
       \/ \E n \in Nodes : Refused(c, n)

Spec == Init /\ [][Next]_vars

\* Threads are scheduled, time passes and connects return.  A section that waits
\* for the API mutex, which others release again and again, gets it in the end
\* (strong fairness).
FairSpec ==
  /\ Spec
  /\ WF_vars(RefreshThread)
  /\ WF_vars(PluginThread)
  /\ \A c \in Clients : SF_vars(ApiCall(c))

(***************************************************************************)
(* Properties.                                                             *)
(***************************************************************************)

\* on_instances_changed(): when a refresh has returned, every section that was
\* subscribed when the table changed has been told of the change.
ListenersUpToDate ==
  rt \in {"returned", "connect"} => stale = {}

\* wait_primary_failover(): the loop in get_server_socket() does not spin on an
\* unchanged table.  A change calls emergency mode off once per writable member,
\* each time undoing the marks made since the table was replaced, and it may
\* overtake a section whose node it takes off the table; so it lets a section
\* retry at most once per writable member and once more, in however many calls.
RetriesBounded ==
  \A c \in Clients : spins[c] <= Cardinality(Writable(table)) + 1

\* Every API call returns, so that a section gets to choose among the nodes of
\* its lookup again and again: no thread holds one of the mutexes forever and
\* no two wait for each other.
CallsReturn == \A c \in Clients : []<>(pc[c] \in {"idle", "choose"})

\* cache_stop() returns: the refresh thread it joins, holding the API mutex,
\* never needs that mutex.
StopReturns == (cache = "stopping") ~> (cache = "stopped")

=============================================================================
