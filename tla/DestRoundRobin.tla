-------------------------- MODULE DestRoundRobin --------------------------
(***************************************************************************)
(* The round-robin destination: the acceptor thread asks it for a server   *)
(* socket (get_server_socket), servers that cannot be reached are put in   *)
(* quarantine, and the Quarantine Manager Thread probes those servers and  *)
(* takes the ones that answer out again.  mutex_quarantine_ is held for    *)
(* one step at a time; between two steps the other thread may run.  Here   *)
(* `bad' also has the servers that the call saw quarantined.               *)
(***************************************************************************)
EXTENDS RouteDestination, Sequences, FiniteSets

VARIABLES
  server_pos,    \* the server get_server_socket() works on
  quarantined_,  \* a vector of indexes
  stopping_,
  mgr,           \* where the manager thread is
  cpy,           \* cpy_quarantined
  k              \* the element of cpy_quarantined the manager is at

callVars == <<current_pos_, call, i, server_pos, bad>>
mgrVars  == <<mgr, cpy, k>>
vars == <<up, callVars, quarantined_, stopping_, mgrVars>>

Elements(s) == {s[j] : j \in DOMAIN s}

CallStates == {"idle", "next", "check", "try", "quarantine", "served", "none", "nofd"}
MgrStates  == {"unborn", "loop", "wait", "copy", "probe", "erase", "sleep", "done"}

TypeOK ==
  /\ up \subseteq Index
  /\ current_pos_ \in Index
  /\ call \in CallStates
  /\ i \in 0..NumServers
  /\ server_pos \in Index
  /\ bad \subseteq Index
  /\ quarantined_ \in Seq(Index)
  /\ stopping_ \in BOOLEAN
  /\ mgr \in MgrStates
  /\ cpy \in Seq(Index)
  /\ k \in Nat \ {0}

Init ==
  /\ up = Index
  /\ current_pos_ = 0
  /\ call = "idle"
  /\ i = 0
  /\ server_pos = 0
  /\ bad = {}
  /\ quarantined_ = << >>
  /\ stopping_ = FALSE
  /\ mgr = "unborn"
  /\ cpy = << >>
  /\ k = 1

(***************************************************************************)
(* get_server_socket(), called by the acceptor thread only.                *)
(***************************************************************************)
Call ==
  /\ call \in {"idle", "served", "none", "nofd"} /\ mgr # "unborn" /\ ~stopping_
  /\ call' = "next"
  /\ i' = 0
  /\ bad' = {}
  /\ UNCHANGED <<up, current_pos_, server_pos, quarantined_, stopping_, mgrVars>>

\* Mutant: the position wraps one server too early.
GetNextServerShort ==
  /\ call = "next" /\ i < NumServers
  /\ server_pos' = current_pos_
  /\ current_pos_' = IF current_pos_ + 1 >= NumServers - 1 THEN 0 ELSE current_pos_ + 1
  /\ call' = "check"
  /\ UNCHANGED <<up, i, bad, quarantined_, stopping_, mgrVars>>

\* get_next_server(), under mutex_update_.
GetNextServer ==
  /\ call = "next" /\ i < NumServers
  /\ server_pos' = current_pos_
  /\ current_pos_' = Advance(current_pos_)
  /\ call' = "check"
  /\ UNCHANGED <<up, i, bad, quarantined_, stopping_, mgrVars>>

\* The loop is over: return -1.
OutOfServers ==
  /\ call = "next" /\ i = NumServers
  /\ call' = "none"
  /\ UNCHANGED <<up, current_pos_, i, server_pos, bad, quarantined_, stopping_, mgrVars>>

IsQuarantined(s) == s \in Elements(quarantined_)

\* If server is quarantined, skip.
CheckQuarantined ==
  /\ call = "check"
  /\ IF IsQuarantined(server_pos)
       THEN call' = "next" /\ i' = i + 1 /\ bad' = bad \cup {server_pos}
       ELSE call' = "try" /\ UNCHANGED <<i, bad>>
  /\ UNCHANGED <<up, current_pos_, server_pos, quarantined_, stopping_, mgrVars>>

TrySucceeds ==
  /\ call = "try" /\ server_pos \in up
  /\ call' = "served"
  /\ UNCHANGED <<up, current_pos_, i, server_pos, bad, quarantined_, stopping_, mgrVars>>

TryFails ==
  /\ call = "try" /\ server_pos \notin up
  /\ bad' = bad \cup {server_pos}
  /\ call' = "quarantine"
  /\ UNCHANGED <<up, current_pos_, i, server_pos, quarantined_, stopping_, mgrVars>>

\* ENFILE, EMFILE: the process is out of descriptors, no server is blamed.
TryOutOfDescriptors ==
  /\ call = "try"
  /\ call' = "nofd"
  /\ UNCHANGED <<up, current_pos_, i, server_pos, bad, quarantined_, stopping_, mgrVars>>

\* add_to_quarantine(), and the end of the loop when all are quarantined.
AddToQuarantine ==
  /\ call = "quarantine"
  /\ quarantined_' = IF IsQuarantined(server_pos) THEN quarantined_
                     ELSE Append(quarantined_, server_pos)
  /\ IF Len(quarantined_') = NumServers
       THEN call' = "none" /\ bad' = bad \cup Elements(quarantined_') /\ UNCHANGED i
       ELSE call' = "next" /\ i' = i + 1 /\ UNCHANGED bad
  /\ UNCHANGED <<up, current_pos_, server_pos, stopping_, mgrVars>>

(***************************************************************************)
(* The Quarantine Manager Thread.                                          *)
(***************************************************************************)
Start ==
  /\ mgr = "unborn" /\ ~stopping_
  /\ mgr' = "loop"
  /\ UNCHANGED <<up, callVars, quarantined_, stopping_, cpy, k>>

\* Mutant: the loop does not look at stopping_.
ManagerLoopForever ==
  /\ mgr = "loop"
  /\ mgr' = "wait"
  /\ UNCHANGED <<up, callVars, quarantined_, stopping_, cpy, k>>

\* while (!stopping_)
ManagerLoop ==
  /\ mgr = "loop"
  /\ mgr' = IF stopping_ THEN "done" ELSE "wait"
  /\ UNCHANGED <<up, callVars, quarantined_, stopping_, cpy, k>>

\* wait_for() returns when the quarantine is seen non-empty, or after 2 seconds.
ManagerWakes ==
  /\ mgr = "wait"
  /\ mgr' = IF stopping_ THEN "loop" ELSE "copy"
  /\ UNCHANGED <<up, callVars, quarantined_, stopping_, cpy, k>>

\* cleanup_quarantine() works on a copy ...
CopyQuarantine ==
  /\ mgr = "copy"
  /\ IF quarantined_ = << >> THEN mgr' = "sleep" /\ UNCHANGED cpy
                             ELSE mgr' = "probe" /\ cpy' = quarantined_
  /\ k' = 1
  /\ UNCHANGED <<up, callVars, quarantined_, stopping_>>

\* Mutant: the first server that does not answer ends the pass.
ProbeBreaks ==
  /\ mgr = "probe"
  /\ IF k > Len(cpy) \/ stopping_
       THEN mgr' = "sleep" /\ cpy' = << >> /\ k' = 1
       ELSE mgr' = (IF cpy[k] \in up THEN "erase" ELSE "sleep") /\ UNCHANGED <<cpy, k>>
  /\ UNCHANGED <<up, callVars, quarantined_, stopping_>>

\* ... and tries to connect to each server of it, for a second each.  That may
\* also fail for a server that would answer later, or for want of a descriptor.
Probe ==
  /\ mgr = "probe"
  /\ IF k > Len(cpy) \/ stopping_
       THEN mgr' = "sleep" /\ cpy' = << >> /\ k' = 1
       ELSE /\ \/ cpy[k] \in up /\ mgr' = "erase" /\ UNCHANGED k
               \/ mgr' = "probe" /\ k' = k + 1
            /\ UNCHANGED cpy
  /\ UNCHANGED <<up, callVars, quarantined_, stopping_>>

Without(s, j) == [n \in 1..(Len(s) - 1) |-> IF n < j THEN s[n] ELSE s[n + 1]]

\* Mutant: the last place is erased without std::remove() having moved the
\* server that was probed out of the way.
UnquarantineLast ==
  /\ mgr = "erase"
  /\ quarantined_' = Without(quarantined_, Len(quarantined_))
  /\ mgr' = "probe"
  /\ k' = k + 1
  /\ UNCHANGED <<up, callVars, stopping_, cpy>>

\* quarantined_.erase(std::remove(begin, end, *it)): std::remove() moves what
\* follows the element one place down and returns the last place, which is
\* erased.  Without such an element it returns end(), whose erasure is
\* undefined: no step is given for it, and CopyStillQuarantined rules it out.
Unquarantine ==
  /\ mgr = "erase"
  /\ \E j \in DOMAIN quarantined_ :
       /\ quarantined_[j] = cpy[k]
       /\ quarantined_' = Without(quarantined_, j)
  /\ mgr' = "probe"
  /\ k' = k + 1
  /\ UNCHANGED <<up, callVars, stopping_, cpy>>

\* sleep_for(3 seconds), and back to the loop.
ManagerSleeps ==
  /\ mgr = "sleep"
  /\ mgr' = "loop"
  /\ UNCHANGED <<up, callVars, quarantined_, stopping_, cpy, k>>

\* ~DestRoundRobin(), once the acceptor is gone; it joins the manager thread.
Stop ==
  /\ ~stopping_ /\ call \in {"idle", "served", "none", "nofd"}
  /\ stopping_' = TRUE
  /\ UNCHANGED <<up, callVars, quarantined_, mgrVars>>

Manager ==
  \/ ManagerLoop \/ ManagerWakes \/ CopyQuarantine \/ Probe \/ Unquarantine
  \/ ManagerSleeps

Acceptor ==
  \/ GetNextServer \/ OutOfServers \/ CheckQuarantined
  \/ TrySucceeds \/ TryFails \/ AddToQuarantine

Next ==
  \/ /\ \E s \in Index : ServerChanges(s)
     /\ UNCHANGED <<callVars, quarantined_, stopping_, mgrVars>>
  \/ Call \/ Acceptor \/ TryOutOfDescriptors
  \/ Start \/ Manager \/ Stop

Spec == Init /\ [][Next]_vars

\* A probe of server s is answered in time.
Answers(s) == Probe /\ mgr' = "erase" /\ cpy[k] = s

\* Both threads are scheduled; waits, sleeps and connects have timeouts.  A server
\* that is up is not too slow, and descriptors are not short, at every one of its
\* probes: that is an assumption on the surroundings.
Fairness ==
  /\ WF_vars(Acceptor) /\ WF_vars(Manager)
  /\ \A s \in Index : SF_vars(Answers(s))

(***************************************************************************)
(* Properties.                                                             *)
(***************************************************************************)

\* cleanup_quarantine() works on a copy without the mutex: every server of the
\* copy it has still to look at is in the quarantine itself, whatever the
\* acceptor does meanwhile, so the erase never gets end(); and none is there
\* twice, so that one erase takes it out for good.
CopyStillQuarantined ==
  /\ mgr \in {"probe", "erase"} =>
       \A j \in DOMAIN cpy : j >= k => cpy[j] \in Elements(quarantined_)
  /\ \A a, b \in DOMAIN quarantined_ : quarantined_[a] = quarantined_[b] => a = b

\* get_server_socket(): when it gives up although descriptors are left, every
\* destination was in quarantine or refused a connection at some moment of the
\* call: the position that moves on with every call passes no server over.
NonePassedOver == call = "none" => bad = Index

\* A server that is reachable from some time on, if not within a second at every
\* probe, leaves the quarantine and is not put back, as long as the router runs.
EventuallyReleased ==
  \A s \in Index :
    <>[](s \in up) => (<>[](s \notin Elements(quarantined_)) \/ <>stopping_ \/ [](mgr = "unborn"))

\* The destructor's join() returns.
StopTerminates == stopping_ ~> mgr \in {"done", "unborn"}
===========================================================================
