------------------------- MODULE DestMetadataCache -------------------------
(***************************************************************************)
(* DestMetadataCacheGroup: which instances of the routing table a section  *)
(* may use, for new and for existing connections, and which of them comes  *)
(* next.  The constructor's checks decide which combinations of options    *)
(* exist at all.  A call looks the table up and chooses, connects, and     *)
(* hands the connection to the section's container; a refresh replaces the *)
(* table and then notifies: these steps interleave.  Subscription, the     *)
(* container and the waiting for a failover are in MySQLRouting and        *)
(* MetadataCache.                                                          *)
(*                                                                         *)
(* instance_vector has a place for every instance ever known; one that is  *)
(* not in the metadata (any more) is "NA", which the code treats alike.    *)
(***************************************************************************)
EXTENDS Naturals, FiniteSets, Sequences

CONSTANT NumInstances

ASSUME InstancesAssumption == NumInstances \in Nat \ {0}

Instances == 1..NumInstances
Modes == {"RW", "RO", "NA"}

-----------------------------------------------------------------------------
(* The options and what init() makes of them.                              *)

Options ==
  [role : {"primary", "secondary", "primary_and_secondary"},
   strategy : {"undefined", "first-available", "next-available", "round-robin",
               "round-robin-with-fallback"},
   mode : {"undefined", "read-write", "read-only"},
   allow_primary_reads : {"unset", "yes", "no"},
   disconnect_on_promoted_to_primary : {"unset", "yes", "no"},
   disconnect_on_metadata_unavailable : {"unset", "yes", "no"}]

ModeIsValid(o) ==
  o.mode # "undefined" => o.mode = IF o.role = "primary" THEN "read-write"
                                                         ELSE "read-only"

\* Mutant: allow_primary_reads=no is taken for yes.
RoleOfAnyValue(o) ==
  IF o.allow_primary_reads # "unset" THEN "primary_and_secondary" ELSE o.role

\* Old role=SECONDARY with allow_primary_reads is role=PRIMARY_AND_SECONDARY.
Role(o) ==
  IF o.allow_primary_reads = "yes" THEN "primary_and_secondary" ELSE o.role

Strategy(o) == IF o.strategy = "undefined" THEN "round-robin" ELSE o.strategy

\* The constructor does not throw.
Accepted(o) ==
  /\ o.disconnect_on_promoted_to_primary # "unset" => o.role = "secondary"
  /\ o.strategy # "undefined" => o.mode = "undefined"
  /\ ModeIsValid(o)
  /\ o.allow_primary_reads # "unset" =>
       o.role = "secondary" /\ o.strategy = "undefined"
  /\ Strategy(o) = "round-robin-with-fallback" => Role(o) = "secondary"
  /\ Strategy(o) # "next-available"

Configured(o) ==
  [role |-> Role(o), strategy |-> Strategy(o),
   promoted |-> o.disconnect_on_promoted_to_primary = "yes",
   unavailable |-> o.disconnect_on_metadata_unavailable = "yes"]

\* What whoever wrote the options asked for: the modes of the servers that
\* clients may be on, primaries as well when there is no secondary, and
\* clients that may stay with a secondary that was promoted.
AskedFor(o) ==
  [modes |-> CASE o.role = "primary" -> {"RW"}
               [] o.role = "secondary" /\ o.allow_primary_reads # "yes" -> {"RO"}
               [] OTHER -> {"RW", "RO"},
   fallback |-> o.strategy = "round-robin-with-fallback",
   stay |-> o.role = "secondary" /\ o.disconnect_on_promoted_to_primary # "yes"]

-----------------------------------------------------------------------------

VARIABLES
  config,        \* the members the constructor sets
  asked,         \* auxiliary: what the options asked for
  ha,            \* the instances whose role is "HA"
  mode,          \* instance_vector: the mode of each instance
  md_reachable,  \* the md_servers_reachable that goes with this table
  pending,       \* the table was replaced and the section is not notified yet
  current_pos_,
  next_up, size, \* the index of the last call, and available.address.size()
  chosen,        \* the instance a call is connecting to; empty outside a call
  stale,         \* auxiliary: the table was replaced since that call's lookup
  conns,         \* the instances the section has connections to
  late,          \* those of connections whose notification overtook them
  fresh,         \* auxiliary: those made from the present table
  recent         \* auxiliary: the last indices chosen among the same instances

optionVars == <<config, asked, ha>>
tableVars  == <<mode, md_reachable, pending>>
callVars   == <<current_pos_, next_up, size, chosen, stale, recent>>
connVars   == <<conns, late, fresh>>
vars       == <<optionVars, tableVars, callVars, connVars>>

TypeOK ==
  /\ config.strategy \in {"first-available", "round-robin",
                          "round-robin-with-fallback"}
  /\ ha \subseteq Instances
  /\ mode \in [Instances -> Modes]
  /\ md_reachable \in BOOLEAN
  /\ pending \in BOOLEAN
  /\ current_pos_ \in 0 .. NumInstances - 1
  /\ next_up \in 0 .. NumInstances - 1
  /\ size \in 0 .. NumInstances
  /\ chosen \subseteq Instances
  /\ stale \in BOOLEAN
  /\ conns \subseteq Instances
  /\ late \subseteq Instances
  /\ fresh \subseteq Instances
  /\ recent \in Seq(Nat)

Init ==
  /\ \E o \in Options : Accepted(o) /\ config = Configured(o) /\ asked = AskedFor(o)
  /\ ha \in SUBSET Instances
  /\ mode = [i \in Instances |-> "NA"]
  /\ md_reachable = TRUE
  /\ pending = FALSE
  /\ current_pos_ = 0
  /\ next_up = 0
  /\ size = 0
  /\ chosen = {}
  /\ stale = FALSE
  /\ conns = {}
  /\ late = {}
  /\ fresh = {}
  /\ recent = <<>>

\* Mutant: the setting for existing connections is applied to new ones.
KeepsForNew(for_new_connections) ==
  for_new_connections /\ config.role = "secondary" /\ ~config.promoted

\* Existing connections may stay with a secondary that is a primary now.
KeepsPromoted(for_new_connections) ==
  ~for_new_connections /\ config.role = "secondary" /\ ~config.promoted

\* Primaries may serve a section that asks for secondaries.
PrimaryFallback(m, for_new_connections) ==
  \/ /\ config.strategy = "round-robin-with-fallback"
     /\ \A i \in Instances : m[i] # "RO"
  \/ KeepsPromoted(for_new_connections)

\* get_available(), in the order of instance_vector.
Available(m, for_new_connections) ==
  {i \in ha :
     \/ config.role = "primary_and_secondary" /\ m[i] \in {"RW", "RO"}
     \/ config.role = "secondary" /\ m[i] = "RO"
     \/ /\ config.role = "primary" \/ PrimaryFallback(m, for_new_connections)
        /\ m[i] = "RW"}

\* available.address.at(k)
Place(s, k) == {i \in s : Cardinality({j \in s : j < i}) = k}

-----------------------------------------------------------------------------

\* Mutant: the position is not checked against a list that has shrunk.
UncheckedPos(n) == current_pos_

\* get_next_server(): the index ...
NextUp(n) ==
  IF config.strategy # "first-available" /\ current_pos_ >= n THEN 0 ELSE current_pos_

\* Mutant: the position wraps one instance early.
WrapEarly(n) == IF NextUp(n) + 2 >= n THEN 0 ELSE NextUp(n) + 1

\* ... and the position it leaves.
NextPos(n) ==
  IF config.strategy = "first-available" THEN current_pos_
  ELSE IF NextUp(n) + 1 >= n THEN 0 ELSE NextUp(n) + 1

\* One turn of the loop in get_server_socket() looks up the table and picks
\* an instance.  With an empty list the call returns -1 and changes nothing.
GetNextServer ==
  LET available == Available(mode, TRUE)
      n == Cardinality(available)
  IN  /\ chosen = {}
      /\ available # {}
      /\ next_up' = NextUp(n)
      /\ size' = n
      /\ current_pos_' = NextPos(n)
      /\ recent' = Append(IF Len(recent) = n THEN Tail(recent) ELSE recent, NextUp(n))
      /\ chosen' = Place(available, NextUp(n))
      /\ stale' = FALSE
      /\ UNCHANGED <<optionVars, tableVars, connVars>>

\* The connect works and the connection is added to the container, late if
\* the notification of a newer table has been there before.
Connected ==
  /\ chosen # {}
  /\ chosen' = {}
  /\ stale' = FALSE
  /\ IF stale /\ ~pending
       THEN late' = late \cup chosen /\ UNCHANGED conns
       ELSE conns' = conns \cup chosen /\ UNCHANGED late
  /\ fresh' = IF stale THEN fresh ELSE fresh \cup chosen
  /\ UNCHANGED <<optionVars, tableVars, current_pos_, next_up, size, recent>>

\* The connect fails: the position has moved on, the call returns or retries.
ConnectFails ==
  /\ chosen # {}
  /\ chosen' = {}
  /\ stale' = FALSE
  /\ UNCHANGED <<optionVars, tableVars, connVars, current_pos_, next_up, size, recent>>

\* The connections to an instance end for reasons of their own.
ConnectionEnds(i) ==
  /\ \/ i \in conns /\ conns' = conns \ {i} /\ fresh' = fresh \ {i} /\ UNCHANGED late
     \/ i \in late /\ late' = late \ {i} /\ UNCHANGED <<conns, fresh>>
  /\ UNCHANGED <<optionVars, tableVars, callVars>>

\* The refresh thread replaces the table, or clears it when no metadata server
\* answers.
TableChanges(m, reachable) ==
  /\ ~pending
  /\ reachable \/ \A i \in Instances : m[i] = "NA"
  /\ mode' = m
  /\ md_reachable' = reachable
  /\ pending' = TRUE
  /\ stale' = (chosen # {})
  /\ fresh' = {}
  /\ recent' = IF Available(m, TRUE) = Available(mode, TRUE) THEN recent ELSE <<>>
  /\ UNCHANGED <<optionVars, current_pos_, next_up, size, chosen, conns, late>>

\* on_instances_change(): connections to instances that are not available for
\* existing connections are ended, unless the metadata servers are unreachable
\* and the section does not care.
OnInstancesChange ==
  /\ pending
  /\ pending' = FALSE
  /\ IF md_reachable \/ config.unavailable
       THEN conns' = (conns \cup late) \cap Available(mode, FALSE) /\ late' = {}
       ELSE UNCHANGED <<conns, late>>
  /\ UNCHANGED <<optionVars, mode, md_reachable, callVars, fresh>>

Next ==
  \/ GetNextServer \/ Connected \/ ConnectFails
  \/ \E i \in Instances : ConnectionEnds(i)
  \/ \E m \in [Instances -> Modes], reachable \in BOOLEAN : TableChanges(m, reachable)
  \/ OnInstancesChange

Spec == Init /\ [][Next]_vars

-----------------------------------------------------------------------------
(* Properties.                                                             *)

\* get_next_server() returns a place of the list it was given, however the
\* list grew or shrank since the last call: available.address.at(), whose
\* exception get_server_socket() could not pass on, never throws.
IndexValid == size > 0 => next_up < size

\* As many calls as there are instances reach each of them once, also in
\* the middle of a round and after connects that failed.
RoundRobinFair ==
  config.strategy # "first-available" =>
    \A i, j \in DOMAIN recent : recent[i] = recent[j] => i = j

\* on_instances_change(): a connection made from a table is not ended by the
\* notification of this same table, which may come after it: what is available
\* for new connections is available for existing ones.
FreshAreKept == fresh \subseteq conns

\* What the options as they were given promise of the connections of a section,
\* once it is notified of the present table and as long as the metadata servers
\* answer: they are on servers of the mode the role names, or on a primary where
\* the options say so - to fall back on while there is no secondary, or because
\* an existing connection may stay.  Connections that were under way when the
\* notification came (late) are not covered: add_connection() does not look
\* again, and they stay where they are until the next notification.
RoleRespected ==
  md_reachable /\ ~pending =>
    LET FallsBack == asked.fallback /\ \A j \in Instances : mode[j] # "RO"
    IN  /\ \A i \in conns : \/ mode[i] \in asked.modes
                            \/ mode[i] = "RW" /\ (asked.stay \/ FallsBack)
        /\ \A i \in fresh : \/ mode[i] \in asked.modes
                            \/ mode[i] = "RW" /\ FallsBack
=============================================================================
