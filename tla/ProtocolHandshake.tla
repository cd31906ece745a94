------------------------- MODULE ProtocolHandshake -------------------------
(***************************************************************************)
(* One routed connection until its handshake is done: the copy loop of     *)
(* MySQLRoutingConnection::run() with copy_packets() of the classic or the *)
(* X protocol, between a client and a server that each follow their        *)
(* protocol, or not, and may go away at any time.  What the loop wants to  *)
(* know is whether a client that leaves has to be held responsible, and    *)
(* whether the server must be calmed with a made-up handshake so that it   *)
(* does not hold the router responsible.                                   *)
(*                                                                         *)
(* A packet is its kind and, in the classic protocol, its sequence number. *)
(* It may be cut in two by the network; what copy_packets() takes a piece  *)
(* for is chosen when it is read.                                          *)
(***************************************************************************)
EXTENDS Naturals, Sequences, FiniteSets, Functions

CONSTANTS MaxInFlight  \* how much may be under way when a peer repeats itself

ASSUME HandshakeAssumption == MaxInFlight \in Nat

VARIABLES
  proto,          \* "classic" or "x"
  honest,         \* the client follows its protocol
  csent, ssent,   \* kinds the client and the server have sent
  cgot, sgot,     \* kinds the client and the server have received
  cq, sq,         \* packets on their way to the router
  copen, sopen,   \* the peers have not closed their ends
  cut,            \* some classic packet was cut in two
  pc,             \* where run() is
  cr, sr,         \* client_is_readable and server_is_readable
  pktnr, handshake_done, connection_is_ok,
  disconnect_,
  why,            \* what ended the loop
  blamed          \* block_client_host() was called

peerVars == <<proto, honest, csent, ssent, cgot, sgot, cq, sq, copen, sopen, cut>>
loopVars == <<pc, cr, sr, pktnr, handshake_done, connection_is_ok, disconnect_, why, blamed>>
vars == <<peerVars, loopVars>>

\* What a client of the X protocol may open with: a valid AuthenticateStart,
\* CapabilitiesGet, CapabilitiesSet or Close.
XOpening == {"opening"}
\* Any other X message, and one of these that cannot be parsed.
XWrong == {"wrong"}
\* A classic client's response: in the clear, or asking for TLS, or one whose
\* first byte, of the capabilities, is 0xff as in an error packet.
Responses == {"plain", "ssl", "ff"}
Verdicts == {"ok", "more", "err"}
\* The classic errors, instead of the greeting and after the response.
Errors == {"refused", "err"}
Kinds == XOpening \cup XWrong \cup Responses \cup Verdicts
           \cup {"greeting", "refused", "malformed", "data", "notice", "fake"}

\* A packet that is cut is a first piece and a tail.  Of a classic packet the
\* first piece may lack part of the header ("short") or be no more than it.
\* An X message may be too big for the buffer.
Parts == {"whole", "head", "header", "short", "tail", "big"}
FirstParts == {"head", "header", "short"}
Packet(n, k, p) == [nr |-> n, kind |-> k, part |-> p]
Packets == [nr : 0..3, kind : Kinds, part : Parts]

\* The receiver has a packet when it has the end of it.
KindsOf(s) == {p.kind : p \in {q \in Range(s) : q.part \notin FirstParts}}

TypeOK ==
  /\ proto \in {"classic", "x"} /\ honest \in BOOLEAN
  /\ {csent, ssent, cgot, sgot} \subseteq SUBSET Kinds
  /\ cq \in Seq(Packets) /\ sq \in Seq(Packets)
  /\ {copen, sopen, cut, cr, sr} \subseteq BOOLEAN
  /\ pc \in {"loop", "poll", "s2c", "c2s", "finish", "closed", "aborted"}
  /\ pktnr \in 0..3
  /\ {handshake_done, connection_is_ok, disconnect_, blamed} \subseteq BOOLEAN
  /\ why \in {"", "timeout", "poll", "gone", "write", "sequence", "content", "size"}

Init ==
  /\ proto \in {"classic", "x"} /\ honest \in BOOLEAN
  /\ csent = {} /\ ssent = {} /\ cgot = {} /\ sgot = {}
  /\ cq = <<>> /\ sq = <<>>
  /\ copen = TRUE /\ sopen = TRUE /\ cut = FALSE
  /\ pc = "loop" /\ cr = FALSE /\ sr = FALSE
  /\ pktnr = 0 /\ handshake_done = FALSE
  /\ connection_is_ok = TRUE /\ disconnect_ = FALSE
  /\ why = "" /\ blamed = FALSE

(***************************************************************************)
(* The peers.                                                              *)
(***************************************************************************)

\* A packet arrives in one piece, or the network cuts it.  The second piece of
\* an X message may also never come.
Pieces(n, k) ==
  {<<Packet(n, k, "whole")>>} \cup
  IF proto = "x"
    THEN {<<Packet(n, k, "head"), Packet(n, k, "tail")>>, <<Packet(n, k, "head")>>,
          <<Packet(n, k, "big")>>}
    ELSE {<<Packet(n, k, h), Packet(n, k, "tail")>> : h \in FirstParts}

\* The rest of what was sent last never comes.
Broken(q) == q # <<>> /\ q[Len(q)].part = "head"

ClientSends(n, k, ps) ==
  /\ copen /\ ~Broken(cq)
  /\ csent' = csent \cup {k}
  /\ cq' = cq \o ps
  /\ cut' = (cut \/ (proto = "classic" /\ Len(ps) > 1))
  /\ UNCHANGED <<proto, honest, ssent, cgot, sgot, sq, copen, sopen, loopVars>>

ServerSends(n, k, ps) ==
  /\ sopen /\ ~Broken(sq)
  /\ ssent' = ssent \cup {k}
  /\ sq' = sq \o ps
  /\ cut' = (cut \/ (proto = "classic" /\ Len(ps) > 1))
  /\ sopen' = (k \notin Errors)
  /\ UNCHANGED <<proto, honest, csent, cgot, sgot, cq, copen, loopVars>>

\* Classic: the client answers the greeting.
ClientResponds ==
  /\ proto = "classic" /\ "greeting" \in cgot /\ csent = {}
  /\ \E k \in Responses : \E ps \in Pieces(1, k) : ClientSends(1, k, ps)

\* X: the client opens the session.
ClientOpens ==
  /\ proto = "x" /\ csent = {}
  /\ \E k \in XOpening : \E ps \in Pieces(0, k) : ClientSends(0, k, ps)

\* The client goes on: with a command after the server accepted it, with TLS
\* records or X messages right away.
ClientContinues ==
  /\ "data" \notin csent
  /\ \/ "ok" \in cgot
     \/ csent \cap ({"ssl"} \cup XOpening) # {}
  /\ ClientSends(0, "data", <<Packet(0, "data", "whole")>>)

\* It may go on doing so; what it repeats once the handshake is done is left out.
ClientMisbehaves ==
  /\ ~honest /\ Len(cq) < MaxInFlight /\ ~handshake_done
  /\ \E n \in 0..2, k \in {"plain", "malformed"} \cup XWrong :
       /\ IF proto = "x" THEN n = 0 /\ k \in XWrong ELSE k \notin XWrong
       /\ k = "malformed" => n = 1
       /\ ClientSends(n, k, <<Packet(n, k, "whole")>>)

ClientCloses ==
  /\ copen
  /\ copen' = FALSE
  /\ UNCHANGED <<proto, honest, csent, ssent, cgot, sgot, cq, sq, sopen, cut, loopVars>>

\* Classic: the server talks first, or refuses.
ServerGreets ==
  /\ proto = "classic" /\ ssent = {}
  /\ \E k \in {"greeting", "refused"} : \E ps \in Pieces(0, k) : ServerSends(0, k, ps)

\* X: the server may send an error at any time, and notices, as many as it likes.
ServerNotifies ==
  /\ proto = "x"
  /\ \E k \in {"notice", "err"} : \E ps \in Pieces(0, k) : ServerSends(0, k, ps)
  /\ "err" \notin ssent' => Len(sq) < MaxInFlight /\ ~handshake_done

\* Classic: what the server makes of the response.
ServerDecides ==
  /\ proto = "classic" /\ sgot \cap {"plain", "ff"} # {} /\ ssent \cap Verdicts = {}
  /\ \E k \in Verdicts : \E ps \in Pieces(2, k) : ServerSends(2, k, ps)

\* The server's part of TLS and of the X protocol.
ServerContinues ==
  /\ sgot \cap ({"ssl"} \cup XOpening) # {}
  /\ "data" \notin ssent
  /\ \E ps \in Pieces(0, "data") : Len(ps) = 1 /\ ServerSends(0, "data", ps)

ServerCloses ==
  /\ sopen
  /\ sopen' = FALSE
  /\ UNCHANGED <<proto, honest, csent, ssent, cgot, sgot, cq, sq, copen, cut, loopVars>>

(***************************************************************************)
(* copy_packets().  It reads some of what has arrived (size), takes it for *)
(* something (look) while the handshake is not done, and forwards it.  The *)
(* outcome says what it returned and why, what it forwarded, and the new   *)
(* pktnr and handshake_done.                                               *)
(***************************************************************************)
Outcome(e, n, d, f) == [err |-> e, nr |-> n, done |-> d, fwd |-> f]

\* What a classic read may be taken for: "short" of a header; an error packet,
\* which throws if it is not complete or not well formed; a response that asks
\* for TLS or not, or says it is longer than the buffer.  buffer[4] and the
\* capabilities may be left over from an earlier read.
ClassicKinds == {"plain", "ssl", "malformed", "err", "throws", "short"}
Look(n, k) == [nr |-> n, kind |-> k]

ClassicLooks(p, alone) ==
  IF p.part = "tail" \/ p.kind = "data"
    THEN {Look(n, k) : n \in 0..3, k \in ClassicKinds}
  ELSE {Look(p.nr, k) : k \in
          IF p.part = "whole" \/ ~alone
            THEN IF p.kind = "ff" THEN {"err", "throws"}
                 ELSE IF p.kind = "refused" THEN {"err"} ELSE {p.kind}
          ELSE IF p.part = "short" THEN {"short"}
          ELSE IF p.part = "header" THEN {"plain", "ssl", "malformed", "throws"}
          ELSE IF p.kind \in Errors \cup {"ff"} THEN {"throws"}
          ELSE {"plain", "ssl", "malformed"}}

\* The flag is set by the call that follows the one that saw packet number 2.
DoneByNumber(nr) == handshake_done \/ nr = 2

\* Mutant: the first packet is not exempt from the check.
OutOfSequenceAlways(nr, p) == p.nr # nr + 1
\* Packet numbers are compared only if the call before saw a packet.
OutOfSequence(nr, p) == nr > 0 /\ p.nr # nr + 1

\* Mutant: an error of the server does not end the handshake.
NumberAfterErrorOwn(p) == p.nr
\* "we assume handshaking is done though there was an error"
NumberAfterError(p) == 2

\* Number 2 stands for a client that switches to TLS.
NumberAfter(p) == IF p.nr = 1 /\ p.kind = "ssl" THEN 2 ELSE p.nr

\* A write to a peer that is gone may fail, or may not yet.
WriteFails(receiverOpen) == IF receiverOpen THEN {FALSE} ELSE BOOLEAN

\* The exception of an ErrorPacket leaves the thread, and std::terminate() ends
\* the process.
ClassicCopy(readable, q, r, werr) ==
  LET done == DoneByNumber(pktnr)
      p == r.look
      data == SubSeq(q, 1, r.size)
  IN IF ~readable THEN Outcome("", 0, done, <<>>)
     ELSE IF q = <<>> THEN Outcome("gone", pktnr, done, <<>>)
     ELSE IF done THEN IF werr THEN Outcome("write", pktnr, done, <<>>)
                               ELSE Outcome("", 0, done, data)
     ELSE IF p.kind = "short" THEN Outcome("content", pktnr, done, <<>>)
     ELSE IF OutOfSequence(pktnr, p) THEN Outcome("sequence", pktnr, done, <<>>)
     ELSE IF p.kind = "throws" THEN Outcome("throws", pktnr, done, <<>>)
     ELSE IF p.kind = "err"
       THEN Outcome("", NumberAfterError(p), done, IF werr THEN <<>> ELSE data)
     ELSE IF p.nr = 1 /\ p.kind = "malformed" THEN Outcome("content", pktnr, done, <<>>)
     ELSE IF werr THEN Outcome("write", pktnr, done, <<>>)
     ELSE Outcome("", NumberAfter(p), done, data)

\* The messages get_next_message() finds before it is told to stop: the client's
\* first one, the server's up to an error.
Inspected(q, k, fromServer) ==
  {i \in 1..k : IF fromServer THEN \A j \in 1..(i - 1) : q[j].kind # "err" ELSE i = 1}

\* While the X handshake is not done the rest of a message that was cut is read
\* before anything else happens; read() blocks until it comes or the peer goes.
XSize(q, k, fromServer) ==
  IF ~handshake_done /\ q[k].part = "head" /\ k \in Inspected(q, k, fromServer)
    THEN k + 1 ELSE k

\* The first message of the client, or whether there is an error of the server; or
\* a message too big for what is left of the buffer.
XLooks(q, k, fromServer) ==
  LET seen == Inspected(q, k, fromServer)
      big == {i \in seen : q[i].part = "big"}
      behind == k > 1 /\ k \in seen /\ q[k].part = "head"
      error == \E i \in DOMAIN q : i <= XSize(q, k, fromServer) /\ q[i].kind = "err"
      found == IF fromServer /\ error THEN "err" ELSE q[1].kind
  IN {Look(0, l) : l \in IF big # {} THEN {"big"} ELSE {found} \cup IF behind THEN {"big"} ELSE {}}

XCopy(readable, q, r, werr, fromServer) ==
  LET data == SubSeq(q, 1, r.size)
      done == handshake_done \/ r.look.kind \in IF fromServer THEN {"err"} ELSE XOpening
  IN IF ~readable THEN Outcome("", pktnr, handshake_done, <<>>)
     ELSE IF q = <<>> THEN Outcome("gone", pktnr, handshake_done, <<>>)
     ELSE IF ~handshake_done /\ r.look.kind = "big"
       THEN Outcome("size", pktnr, handshake_done, <<>>)
     ELSE IF r.size > Len(q) THEN Outcome("gone", pktnr, handshake_done, <<>>)
     ELSE IF ~fromServer /\ ~done THEN Outcome("content", pktnr, handshake_done, <<>>)
     ELSE IF werr THEN Outcome("write", pktnr, done, <<>>)
     ELSE Outcome("", pktnr, done, data)

Held(q, open) == /\ proto = "x" /\ ~handshake_done /\ open
                 /\ Broken(q)

\* What may be read, and what it may be taken for.
Read(n, l) == [size |-> n, look |-> l]
Reads(readable, q, open, fromServer) ==
  IF ~readable \/ q = <<>> THEN {Read(0, Look(0, ""))}
  ELSE IF proto = "classic"
    THEN UNION {{Read(k, l) : l \in ClassicLooks(q[1], k = 1)} : k \in 1..Len(q)}
  ELSE {r \in UNION {{Read(XSize(q, k, fromServer), l) : l \in XLooks(q, k, fromServer)} :
                       k \in 1..Len(q)} :
          r.size <= Len(q) \/ ~open \/ r.look.kind = "big"}

CopyPackets(readable, q, r, werr, fromServer) ==
  IF proto = "classic" THEN ClassicCopy(readable, q, r, werr)
  ELSE XCopy(readable, q, r, werr, fromServer)

Rest(q, readable, size) == IF readable THEN SubSeq(q, size + 1, Len(q)) ELSE q

Returned(o) ==
  /\ pktnr' = o.nr
  /\ handshake_done' = o.done
  /\ connection_is_ok' = (connection_is_ok /\ o.err = "")
  /\ why' = IF why = "" /\ o.err # "throws" THEN o.err ELSE why

(***************************************************************************)
(* The copy loop of MySQLRoutingConnection::run().                         *)
(***************************************************************************)
LoopTest ==
  /\ pc = "loop"
  /\ pc' = IF connection_is_ok /\ ~disconnect_ THEN "poll" ELSE "finish"
  /\ UNCHANGED <<peerVars, cr, sr, pktnr, handshake_done, connection_is_ok,
                 disconnect_, why, blamed>>

Readable(q, open) == q # <<>> \/ ~open

Poll ==
  /\ pc = "poll"
  /\ Readable(cq, copen) \/ Readable(sq, sopen)
  /\ cr' = Readable(cq, copen)
  /\ sr' = Readable(sq, sopen)
  /\ pc' = "s2c"
  /\ UNCHANGED <<peerVars, pktnr, handshake_done, connection_is_ok, disconnect_, why, blamed>>

\* Mutant: a timeout never ends the connection.
PollTimeoutIgnored ==
  /\ pc = "poll"
  /\ ~Readable(cq, copen) /\ ~Readable(sq, sopen)
  /\ pc' = "loop"
  /\ UNCHANGED <<peerVars, cr, sr, pktnr, handshake_done, connection_is_ok,
                 disconnect_, why, blamed>>

\* Nothing happened for client_connect_timeout, or for a second once done.
PollTimeout ==
  /\ pc = "poll"
  /\ ~Readable(cq, copen) /\ ~Readable(sq, sopen)
  /\ IF handshake_done
       THEN pc' = "loop" /\ UNCHANGED <<connection_is_ok, why>>
       ELSE pc' = "finish" /\ connection_is_ok' = FALSE /\ why' = "timeout"
  /\ UNCHANGED <<peerVars, cr, sr, pktnr, handshake_done, disconnect_, blamed>>

PollFails ==
  /\ pc = "poll"
  /\ pc' = "loop"
  /\ connection_is_ok' = FALSE /\ why' = "poll"
  /\ UNCHANGED <<peerVars, cr, sr, pktnr, handshake_done, disconnect_, blamed>>

CopyServerToClient ==
  /\ pc = "s2c"
  /\ \E r \in Reads(sr, sq, sopen, TRUE), werr \in WriteFails(copen) :
       LET o == CopyPackets(sr, sq, r, werr, TRUE)
       IN /\ Returned(o)
          /\ sq' = Rest(sq, sr, r.size)
          /\ cgot' = cgot \cup KindsOf(o.fwd)
          /\ pc' = IF o.err = "throws" THEN "aborted" ELSE "c2s"
  /\ UNCHANGED <<proto, honest, csent, ssent, sgot, cq, copen, sopen, cut,
                 cr, sr, disconnect_, blamed>>

CopyClientToServer ==
  /\ pc = "c2s"
  /\ \E r \in Reads(cr, cq, copen, FALSE), werr \in WriteFails(sopen) :
       LET o == CopyPackets(cr, cq, r, werr, FALSE)
       IN /\ Returned(o)
          /\ cq' = Rest(cq, cr, r.size)
          /\ sgot' = sgot \cup KindsOf(o.fwd)
          /\ pc' = IF o.err = "throws" THEN "aborted" ELSE "loop"
  /\ cr' = FALSE /\ sr' = FALSE
  /\ UNCHANGED <<proto, honest, csent, ssent, cgot, sq, copen, sopen, cut,
                 disconnect_, blamed>>

\* Mutant: the client is counted but the server is not told anything.
FinishSilently ==
  /\ pc = "finish"
  /\ blamed' = ~handshake_done
  /\ pc' = "closed"
  /\ UNCHANGED <<peerVars, cr, sr, pktnr, handshake_done, connection_is_ok, disconnect_, why>>

\* block_client_host() counts the client, and on_block_client_host() sends the
\* server a made-up response (classic) or CapabilitiesGet (X).
Finish ==
  /\ pc = "finish"
  /\ blamed' = ~handshake_done
  /\ sgot' = IF ~handshake_done /\ sopen THEN sgot \cup {"fake"} ELSE sgot
  /\ pc' = "closed"
  /\ UNCHANGED <<proto, honest, csent, ssent, cgot, cq, sq, copen, sopen, cut,
                 cr, sr, pktnr, handshake_done, connection_is_ok, disconnect_, why>>

\* disconnect(), from the acceptor or the refresh thread.
Disconnect ==
  /\ ~disconnect_
  /\ disconnect_' = TRUE
  /\ UNCHANGED <<peerVars, pc, cr, sr, pktnr, handshake_done, connection_is_ok, why, blamed>>

Peers ==
  \/ ClientResponds \/ ClientOpens \/ ClientContinues \/ ClientMisbehaves \/ ClientCloses
  \/ ServerGreets \/ ServerNotifies \/ ServerDecides \/ ServerContinues \/ ServerCloses

Run ==
  \/ LoopTest \/ Poll \/ PollTimeout \/ CopyServerToClient \/ CopyClientToServer \/ Finish

Next == Run \/ (pc \notin {"closed", "aborted"} /\ (Peers \/ PollFails \/ Disconnect))

\* The thread is scheduled, and poll() returns.
Spec == Init /\ [][Next]_vars /\ WF_vars(Run)

(***************************************************************************)
(* Properties.                                                             *)
(***************************************************************************)

\* classic_protocol.cc, x_protocol.cc: a client that has the server's answer (an
\* error included), or whose X session the server has been asked to open, is
\* never counted as a connection error, in whatever order the two directions
\* become readable, packets are cut or joined, and the connection ends.  A
\* classic client that talks out of turn may get the answer joined to the
\* greeting, where it is not looked for; and a refusal that was cut behind its
\* header is passed on without being recognised.
AnsweredNotBlamed ==
  blamed /\ (proto = "x" \/ honest) =>
    /\ cgot \cap Verdicts = {} /\ sgot \cap XOpening = {}
    /\ "refused" \in cgot => cut

\* connection.cc, on_block_client_host(): when the router hangs up, the server
\* has seen a handshake, a real or a made-up one, unless it refused or left
\* itself; so it has no reason to hold the router's host responsible.  Classic
\* packets that were cut, and numbers a client makes up, deceive the router.
ServerSeesHandshake ==
  pc = "closed" /\ sopen /\ (proto = "x" \/ (honest /\ ~cut)) =>
    sgot \cap (Responses \cup {"fake"} \cup XOpening) # {}

\* classic_protocol.cc: *curr_pktnr is shared by both directions and reset by
\* the one that is not readable; still no connection of a client that follows
\* its protocol is given up for a wrong number or an unexpected message, as long
\* as no classic packet is cut.  An X message too big for the buffer is another
\* matter (why = "size"), and so is a classic response that is taken for an error
\* packet: one with the capability byte 0xff is the only one that may end the
\* process.
HonestNotAborted ==
  honest /\ ~cut => /\ why \notin {"sequence", "content"}
                    /\ pc = "aborted" => "ff" \in csent

\* connection.cc: a connection is authenticated or ends, since poll() times out;
\* unless an X peer that sent a part of a message keeps the thread in read(),
\* where no timeout reaches it, or packets keep coming, each of which starts the
\* time anew.  A classic client that follows its protocol cannot do that.
AuthenticatedOrEnded ==
  \/ []<><<Peers /\ (proto = "x" \/ ~honest)>>_vars
  \/ <>(handshake_done \/ pc \in {"closed", "aborted"}
          \/ Held(cq, copen) \/ Held(sq, sopen))
============================================================================
