---------------------------- MODULE DestOrdered ----------------------------
(***************************************************************************)
(* The two destinations that prefer servers by their place in the list:    *)
(* DestFirstAvailable, which goes round the list from the server it used   *)
(* last, and DestNextAvailable, which never goes back.  Here `call' is     *)
(* "idle", "try", "served" or "exhausted".                                 *)
(***************************************************************************)
EXTENDS RouteDestination

VARIABLES
  strategy,      \* the class of the destination
  served,        \* the server handed out last
  abandoned      \* auxiliary: the servers that ever failed

orderedVars == <<strategy, up, current_pos_, call, i, served, bad, abandoned>>

OrderedTypeOK ==
  /\ strategy \in {"first-available", "next-available"}
  /\ up \subseteq Index
  /\ current_pos_ \in 0..NumServers
  /\ call \in {"idle", "try", "served", "exhausted"}
  /\ i \in 0..NumServers
  /\ served \in Index
  /\ bad \subseteq Index
  /\ abandoned \subseteq Index

OrderedInit ==
  /\ strategy \in {"first-available", "next-available"}
  /\ up = Index
  /\ current_pos_ = 0
  /\ call = "idle"
  /\ i = 0
  /\ served = 0
  /\ bad = {}
  /\ abandoned = {}

\* get_server_socket() begins: i starts at 0, or at current_pos_.
OrderedCall ==
  /\ call # "try"
  /\ call' = "try"
  /\ i' = IF strategy = "first-available" THEN 0 ELSE current_pos_
  /\ bad' = {}
  /\ UNCHANGED <<strategy, up, current_pos_, served, abandoned>>

Target == IF strategy = "first-available" THEN current_pos_ ELSE i

Connected ==
  /\ call = "try" /\ i < NumServers
  /\ Target \in up
  /\ served' = Target
  /\ current_pos_' = Target
  /\ call' = "served"
  /\ UNCHANGED <<strategy, up, i, bad, abandoned>>

Refused ==
  /\ call = "try" /\ i < NumServers
  /\ Target \notin up
  /\ bad' = bad \cup {Target}
  /\ abandoned' = abandoned \cup {Target}
  /\ i' = i + 1
  /\ current_pos_' = IF strategy = "first-available" THEN Advance(current_pos_)
                     ELSE current_pos_
  /\ UNCHANGED <<strategy, up, call, served>>

\* Mutant: DestNextAvailable keeps its place when every server failed.
GiveUpInPlace ==
  /\ call = "try" /\ i = NumServers
  /\ call' = "exhausted"
  /\ UNCHANGED <<strategy, up, current_pos_, i, served, bad, abandoned>>

\* The loop is over: return -1.  DestNextAvailable will not try again.
GiveUp ==
  /\ call = "try" /\ i = NumServers
  /\ call' = "exhausted"
  /\ current_pos_' = IF strategy = "first-available" THEN current_pos_ ELSE NumServers
  /\ UNCHANGED <<strategy, up, i, served, bad, abandoned>>

OrderedNext ==
  \/ /\ \E s \in Index : ServerChanges(s)
     /\ UNCHANGED <<strategy, current_pos_, call, i, served, bad, abandoned>>
  \/ OrderedCall \/ Connected \/ Refused \/ GiveUp

OrderedSpec == OrderedInit /\ [][OrderedNext]_orderedVars

\* dest_next_available.cc: "A -> B -> C -> no more connections (regardless of
\* whether A and B go back up or not)": a server that failed once is never
\* handed out again.  DestFirstAvailable, with the same loop and a position that
\* wraps, gives up only when every server failed during the call.
FailedNeverReturns ==
  /\ strategy = "next-available" /\ call = "served" => served \notin abandoned
  /\ strategy = "first-available" /\ call = "exhausted" => bad = Index
=============================================================================
