-------------------------- MODULE RoutingSection --------------------------
(***************************************************************************)
(* What a [routing] section promises to its clients and to the harness,    *)
(* without threads, containers and counters: it listens, then drains, then *)
(* is closed.  A client that knocks while the section listens is at the    *)
(* door, one at a time, and is refused or admitted; its session is served  *)
(* over two sockets or turned away, and is over once its sockets are       *)
(* released.  A client that leaves before it is authenticated is held      *)
(* against its host.  The section closes only when nobody is being served  *)
(* and every session that may still come up has been told to end.          *)
(***************************************************************************)
EXTENDS Naturals, FiniteSets

CONSTANTS Sessions, Clients, NoClient, MaxServed, MaxErrors

VARIABLES phase,    \* "listening", "draining" or "closed"
          sess,     \* the state of each session
          door,     \* the client at the door, its host found acceptable
          owner,    \* the client of each session
          told,     \* the sessions that were told to end
          errors    \* connect errors held against each client

svars == <<phase, sess, door, owner, told, errors>>

SessStates == {"none", "admitted", "served", "ending", "over"}
InState(S) == {c \in Sessions : sess[c] \in S}

SInit ==
  /\ phase = "listening"
  /\ sess = [c \in Sessions |-> "none"]
  /\ door = NoClient
  /\ owner = [c \in Sessions |-> NoClient]
  /\ told = {}
  /\ errors = [h \in Clients |-> 0]

Move(c, from, to) ==
  /\ sess[c] = from
  /\ sess' = [sess EXCEPT ![c] = to]
  /\ UNCHANGED <<phase, told>>

\* A client knocks; its host has not failed too often.
Knock(h) ==
  /\ phase = "listening"
  /\ door = NoClient
  /\ errors[h] < MaxErrors
  /\ door' = h
  /\ UNCHANGED <<phase, sess, owner, told, errors>>

Served == Cardinality(InState({"served", "ending"}))

\* The client at the door gets in: fewer than the limit are being served.
Admit(c) ==
  /\ phase = "listening"
  /\ door \in Clients
  /\ Served < MaxServed
  /\ Move(c, "none", "admitted")
  /\ owner' = [owner EXCEPT ![c] = door]
  /\ door' = NoClient
  /\ UNCHANGED errors

\* The client at the door is refused: the limit is reached.
Refuse ==
  /\ door \in Clients
  /\ Served >= MaxServed
  /\ door' = NoClient
  /\ UNCHANGED <<phase, sess, owner, told, errors>>

\* No server or no thread could be had.
TurnAway(c) == Move(c, "admitted", "over") /\ UNCHANGED <<door, owner, errors>>

\* An admitted session is served; one that was told to end may still get there,
\* also when the section has closed meanwhile.
Serve(c) ==
  /\ phase = "closed" => c \in told
  /\ Move(c, "admitted", "served")
  /\ UNCHANGED <<door, owner, errors>>

\* A session stops being served; unless it was authenticated its own client,
\* and no other, is held responsible, once.
End(c) ==
  /\ Move(c, "served", "ending")
  /\ errors' \in {errors, [errors EXCEPT ![owner[c]] = @ + 1]}
  /\ UNCHANGED <<door, owner>>

Release(c) == Move(c, "ending", "over") /\ UNCHANGED <<door, owner, errors>>

\* Sessions are told to end, and never told otherwise.
Tell ==
  /\ told' \in SUBSET Sessions
  /\ told \subseteq told'
  /\ UNCHANGED <<phase, sess, door, owner, errors>>

Drain ==
  /\ phase = "listening" /\ door = NoClient
  /\ phase' = "draining"
  /\ UNCHANGED <<sess, door, owner, told, errors>>

\* The section closes once nobody is served and whoever is left was told.
Close ==
  /\ phase = "draining" \/ InState(SessStates \ {"none"}) = {}
  /\ InState({"served", "ending"}) = {}
  /\ InState({"admitted"}) \subseteq told
  /\ phase' = "closed"
  /\ UNCHANGED <<sess, door, owner, told, errors>>

SNext ==
  \/ \E h \in Clients : Knock(h)
  \/ Refuse
  \/ \E c \in Sessions : \/ Admit(c) \/ TurnAway(c) \/ Serve(c) \/ End(c) \/ Release(c)
  \/ Tell \/ Drain \/ Close

SSpec == SInit /\ [][SNext]_svars
===========================================================================
