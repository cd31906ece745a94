-------------------------- MODULE RouteDestination --------------------------
(***************************************************************************)
(* What the destinations with a list of servers from the configuration     *)
(* have in common: the list, the position in it, and one call of           *)
(* get_server_socket(), which only the acceptor thread makes, while the    *)
(* servers come and go.  A server is its index in destinations_, here from *)
(* 0 as in the code.  DestRoundRobin and DestOrdered extend this module,   *)
(* and DestStatic has the three strategies side by side.                   *)
(***************************************************************************)
EXTENDS Integers

CONSTANT NumServers   \* destinations_.size(), fixed once the section runs

ASSUME NumServersAssumption == NumServers \in Nat \ {0}

Index == 0 .. NumServers - 1

VARIABLES
  up,            \* the servers that accept connections now
  current_pos_,
  call,          \* where get_server_socket() is
  i,             \* its loop counter
  bad            \* auxiliary: the servers this call saw failing

\* Servers come and go, whatever the router does.
ServerChanges(s) == up' = IF s \in up THEN up \ {s} ELSE up \cup {s}

\* if (++current_pos_ >= destinations_.size()) current_pos_ = 0
Advance(pos) == IF pos + 1 >= NumServers THEN 0 ELSE pos + 1
=============================================================================
