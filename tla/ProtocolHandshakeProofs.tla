---------------------- MODULE ProtocolHandshakeProofs ----------------------
(***************************************************************************)
(* Proofs about ProtocolHandshake, whatever may be under way between the   *)
(* peers and the router.                                                   *)
(*                                                                         *)
(* First what one call of copy_packets() may do (ClassicCall, XCall), then *)
(* the five kinds of step there are (Steps), then the inductive invariant  *)
(* IInv, with one lemma for each of its parts, and the theorems.           *)
(***************************************************************************)
EXTENDS ProtocolHandshake, SequenceTheorems, TLAPS

\* The classic handshake is open, and the next call will not end it either.
Und == ~handshake_done /\ pktnr # 2

(***************************************************************************)
(* Sequences of packets.                                                   *)
(***************************************************************************)

\* Its members, and when it is empty.
LEMMA MembersOf ==
  ASSUME NEW q \in Seq(Packets)
  PROVE  /\ Len(q) \in Nat /\ DOMAIN q = 1..Len(q)
         /\ q = <<>> <=> Len(q) = 0
         /\ q = <<>> <=> DOMAIN q = {}
         /\ q # <<>> => 1 \in DOMAIN q
         /\ \A j \in DOMAIN q : q[j].kind \in Kinds /\ q[j].nr \in 0..3
<1>1. Len(q) \in Nat /\ DOMAIN q = 1..Len(q)
  OBVIOUS
<1>2. q = <<>> <=> Len(q) = 0
  OBVIOUS
<1>3. q # <<>> => 1 \in DOMAIN q
  BY <1>1, <1>2
<1>4. Len(q) = 0 => DOMAIN q = {}
  BY <1>1
<1>5. \A j \in DOMAIN q : q[j] \in Packets
  OBVIOUS
<1>6. \A p \in Packets : p.kind \in Kinds /\ p.nr \in 0..3
  BY DEF Packets
<1>7. QED BY <1>1, <1>2, <1>3, <1>4, <1>5, <1>6

\* What a read of n packets leaves behind.
LEMMA RestOf ==
  ASSUME NEW q \in Seq(Packets), NEW n \in 1..Len(q)
  PROVE  /\ SubSeq(q, n + 1, Len(q)) \in Seq(Packets)
         /\ Len(SubSeq(q, n + 1, Len(q))) = Len(q) - n
         /\ DOMAIN SubSeq(q, n + 1, Len(q)) = 1..(Len(q) - n)
         /\ \A j \in 1..(Len(q) - n) :
              j + n \in DOMAIN q /\ SubSeq(q, n + 1, Len(q))[j] = q[j + n]
OBVIOUS

\* What it forwards: the packets whose end is in it.
LEMMA KindsForwarded ==
  ASSUME NEW q \in Seq(Packets), NEW n \in 1..Len(q)
  PROVE  /\ KindsOf(<<>>) = {}
         /\ \A k : k \in KindsOf(SubSeq(q, 1, n)) <=>
              \E j \in 1..n : j \in DOMAIN q /\ q[j].part \notin FirstParts /\ q[j].kind = k
<1> DEFINE d == SubSeq(q, 1, n)
<1>1. DOMAIN d = 1..n /\ \A j \in 1..n : d[j] = q[j] /\ j \in DOMAIN q
  OBVIOUS
<1>2. KindsOf(<<>>) = {}
  BY DEF KindsOf, Range
<1> HIDE DEF d
<1>3. \A k : k \in KindsOf(d) <=> \E j \in 1..n : d[j].part \notin FirstParts /\ d[j].kind = k
  BY <1>1 DEF KindsOf, Range
<1>4. QED BY <1>1, <1>2, <1>3 DEF d

\* What is sent comes behind what is under way.
LEMMA Joined ==
  ASSUME NEW q \in Seq(Packets), NEW ps \in Seq(Packets)
  PROVE  /\ q \o ps \in Seq(Packets)
         /\ Len(q \o ps) = Len(q) + Len(ps)
         /\ DOMAIN (q \o ps) = 1..(Len(q) + Len(ps))
         /\ \A j \in 1..Len(q) : (q \o ps)[j] = q[j]
         /\ \A j \in 1..Len(ps) : (q \o ps)[Len(q) + j] = ps[j]
         /\ q = <<>> => q \o ps = ps
OBVIOUS

\* The pieces of a packet.
LEMMA PiecesOf ==
  ASSUME NEW n \in 0..3, NEW k \in Kinds, NEW ps \in Pieces(n, k),
         proto \in {"classic", "x"}
  PROVE  /\ ps \in Seq(Packets) /\ Len(ps) \in {1, 2}
         /\ ps[1].kind = k /\ ps[1].nr = n /\ ps[1].part # "tail"
         /\ proto = "classic" /\ Len(ps) = 1 => ps[1].part = "whole"
         /\ proto = "x" => ps[1].part \in {"whole", "head", "big"}
         /\ Len(ps) = 2 =>
              ps[1].part \in FirstParts /\ ps[2].part = "tail" /\ ps[2].kind = k
<1>1. \A h \in Parts : Packet(n, k, h) \in Packets
  BY DEF Packet, Packets
<1>2. FirstParts \subseteq Parts /\ {"whole", "head", "tail", "big"} \subseteq Parts
      /\ "head" \in FirstParts /\ "tail" \notin FirstParts
  BY DEF Parts, FirstParts
<1>3. CASE ps = <<Packet(n, k, "whole")>>
  BY <1>1, <1>2, <1>3 DEF Packet
<1>4. CASE proto = "x" /\ ps # <<Packet(n, k, "whole")>>
  <2>1. CASE ps = <<Packet(n, k, "head"), Packet(n, k, "tail")>>
    BY <1>1, <1>2, <1>4, <2>1 DEF Packet
  <2>2. CASE ps = <<Packet(n, k, "head")>>
    BY <1>1, <1>2, <1>4, <2>2 DEF Packet
  <2>3. CASE ps = <<Packet(n, k, "big")>>
    BY <1>1, <1>2, <1>4, <2>3 DEF Packet
  <2>4. QED BY <1>4, <2>1, <2>2, <2>3 DEF Pieces
<1>5. CASE proto = "classic" /\ ps # <<Packet(n, k, "whole")>>
  <2>1. PICK h \in FirstParts : ps = <<Packet(n, k, h), Packet(n, k, "tail")>>
    BY <1>5 DEF Pieces
  <2>2. h # "tail"
    BY <1>2
  <2>3. QED BY <1>1, <1>2, <1>5, <2>1, <2>2 DEF Packet
<1>6. QED BY <1>3, <1>4, <1>5

(***************************************************************************)
(* What a call of copy_packets() may do.                                   *)
(***************************************************************************)

\* The types of the flags, one by one.
LEMMA Flags ==
  ASSUME TypeOK
  PROVE  /\ proto \in {"classic", "x"} /\ honest \in BOOLEAN
         /\ copen \in BOOLEAN /\ sopen \in BOOLEAN /\ cut \in BOOLEAN
         /\ cr \in BOOLEAN /\ sr \in BOOLEAN
         /\ handshake_done \in BOOLEAN /\ connection_is_ok \in BOOLEAN
         /\ disconnect_ \in BOOLEAN /\ blamed \in BOOLEAN
         /\ csent \subseteq Kinds /\ ssent \subseteq Kinds
         /\ cgot \subseteq Kinds /\ sgot \subseteq Kinds
         /\ cq \in Seq(Packets) /\ sq \in Seq(Packets) /\ pktnr \in 0..3
BY DEF TypeOK

\* Whatever it does, it takes packets from the front of the queue q, and the
\* receiver gets none but such.
Takes(q, q2, got, got2) ==
  /\ q2 \in Seq(Packets)
  /\ \A j \in DOMAIN q2 : \E i \in DOMAIN q : q2[j] = q[i]
  /\ got \subseteq got2
  /\ \A k \in got2 \ got : \E j \in DOMAIN q : q[j].kind = k

\* A read of n packets, forwarded or not.
LEMMA TakesSome ==
  ASSUME NEW q \in Seq(Packets), NEW n \in 1..Len(q), NEW got,
         NEW got2 \in {got, got \cup KindsOf(SubSeq(q, 1, n))}
  PROVE  Takes(q, SubSeq(q, n + 1, Len(q)), got, got2)
<1>1. got \subseteq got2 /\ got2 \ got \subseteq KindsOf(SubSeq(q, 1, n))
  OBVIOUS
<1>2. \A k \in got2 \ got : \E j \in DOMAIN q : q[j].kind = k
  BY <1>1, KindsForwarded
<1>3. QED BY <1>1, <1>2, RestOf DEF Takes

\* A call that reads nothing, or all there is.
LEMMA TakesNone ==
  ASSUME NEW q \in Seq(Packets), NEW q2 \in {q, <<>>}, NEW got
  PROVE  Takes(q, q2, got, got)
<1>0. <<>> \in Seq(Packets)
  OBVIOUS
<1>1. q2 \in Seq(Packets)
  BY <1>0
<1>2. \A j \in DOMAIN q2 : \E i \in DOMAIN q : q2[j] = q[i]
  <2>1. CASE q2 = q
    BY <2>1
  <2>2. CASE q2 = <<>>
    BY <2>2
  <2>3. QED BY <2>1, <2>2
<1>3. QED BY <1>1, <1>2 DEF Takes

\* A call that succeeds, and one that fails for one of the reasons es; only the
\* first failure is remembered.
Fine == connection_is_ok' = connection_is_ok /\ why' = why
Fails(es) == ~connection_is_ok' /\ why' \in {why} \cup es /\ (why # "" => why' = why)
               /\ (why = "" => why' # "")

\* What copy_packets() returned.
LEMMA ReturnedAs ==
  ASSUME TypeOK, NEW o, Returned(o)
  PROVE  /\ pktnr' = o.nr /\ handshake_done' = o.done /\ connection_is_ok' \in BOOLEAN
         /\ o.err = "" => Fine
         /\ o.err \notin {"", "throws"} => Fails({o.err})
         /\ o.err = "throws" => ~connection_is_ok' /\ why' = why
<1>1. /\ pktnr' = o.nr /\ handshake_done' = o.done
      /\ connection_is_ok' = (connection_is_ok /\ o.err = "")
      /\ why' = IF why = "" /\ o.err # "throws" THEN o.err ELSE why
  BY DEF Returned
<1>2. connection_is_ok \in BOOLEAN
  BY Flags
<1>3. connection_is_ok' \in BOOLEAN
  BY <1>1
<1>4. o.err = "" => Fine
  BY <1>1, <1>2 DEF Fine
<1>5. o.err \notin {"", "throws"} => Fails({o.err})
  BY <1>1, <1>2 DEF Fails
<1>6. o.err = "throws" => ~connection_is_ok' /\ why' = why
  BY <1>1, <1>2
<1>7. QED BY <1>1, <1>3, <1>4, <1>5, <1>6

\* What the first piece of a read may be taken for.
LEMMA LooksOf ==
  ASSUME NEW p \in Packets, NEW alone \in BOOLEAN, NEW l \in ClassicLooks(p, alone)
  PROVE  /\ l.nr \in 0..3
         /\ p.part # "tail" /\ p.kind # "data" => l.nr = p.nr
         /\ p.part = "whole" /\ p.kind # "data" =>
              /\ p.kind = "ff" => l.kind \in {"err", "throws"}
              /\ p.kind = "refused" => l.kind = "err"
              /\ p.kind \notin {"ff", "refused"} => l.kind = p.kind
<1>1. p.nr \in 0..3
  BY DEF Packets
<1>2. CASE p.part = "tail" \/ p.kind = "data"
  <2>1. PICK n \in 0..3, k \in ClassicKinds : l = Look(n, k)
    BY <1>2 DEF ClassicLooks
  <2>2. l.nr = n
    BY <2>1 DEF Look
  <2>3. QED BY <1>2, <2>2
<1>3. CASE ~(p.part = "tail" \/ p.kind = "data")
  <2>1. CASE p.part = "whole"
    <3>1. \E k \in (IF p.kind = "ff" THEN {"err", "throws"}
                     ELSE IF p.kind = "refused" THEN {"err"} ELSE {p.kind}) : l = Look(p.nr, k)
      BY <1>3, <2>1 DEF ClassicLooks
    <3>2. QED BY <1>1, <1>3, <3>1 DEF Look
  <2>2. CASE p.part # "whole"
    <3>1. \E k : l = Look(p.nr, k)
      BY <1>3 DEF ClassicLooks
    <3>2. QED BY <1>1, <2>2, <3>1 DEF Look
  <2>3. QED BY <2>1, <2>2
<1>4. QED BY <1>2, <1>3

\* A classic packet while the handshake is not done: it is refused, or throws, or it
\* is taken for an error, or it is forwarded with what was read with it.
Refuses(l, got, got2) ==
  /\ got2 = got /\ pktnr' = pktnr
  /\ Fails({"write", "sequence", "content"})
  /\ why' = "sequence" => why = "sequence" \/ OutOfSequence(pktnr, l)
  /\ why' = "content" => why = "content" \/ l.kind \in {"short", "malformed"}
Throws(l, got, got2) ==
  /\ l.kind = "throws" /\ got2 = got /\ pktnr' = pktnr
  /\ ~connection_is_ok' /\ why' = why
ForwardsError(q, n, l, got, got2, receiverOpen) ==
  /\ l.kind = "err" /\ pktnr' = 2 /\ Fine
  /\ \/ got2 = got \cup KindsOf(SubSeq(q, 1, n))
     \/ got2 = got /\ ~receiverOpen
Forwards(q, n, l, got, got2) ==
  /\ l.kind \notin {"err", "throws"} /\ pktnr' = NumberAfter(l) /\ Fine
  /\ got2 = got \cup KindsOf(SubSeq(q, 1, n))

Unread(readable, q, q2, got, got2) ==
  /\ ~readable /\ q2 = q /\ got2 = got
  /\ handshake_done' = ~Und /\ pktnr' = 0 /\ Fine
Gone(readable, q, q2, got, got2) ==
  /\ readable /\ q = <<>> /\ q2 = q /\ got2 = got
  /\ handshake_done' = ~Und /\ pktnr' = pktnr /\ Fails({"gone"})
Passes(q, q2, got, got2) ==
  /\ ~Und /\ handshake_done' = TRUE
  /\ Takes(q, q2, got, got2)
  /\ pktnr' \in {0, pktnr} /\ (Fine \/ Fails({"write"}))
Inspects(readable, q, q2, got, got2, receiverOpen, next) ==
  /\ Und /\ readable /\ handshake_done' = FALSE
  /\ \E n \in 1..Len(q), l \in UNION {ClassicLooks(q[1], b) : b \in BOOLEAN} :
       /\ q2 = SubSeq(q, n + 1, Len(q))
       /\ \/ Refuses(l, got, got2) /\ pc' = next
          \/ Throws(l, got, got2) /\ pc' = "aborted"
          \/ ForwardsError(q, n, l, got, got2, receiverOpen) /\ pc' = next
          \/ Forwards(q, n, l, got, got2) /\ pc' = next

ClassicCall(readable, q, q2, got, got2, receiverOpen, next) ==
  \/ Unread(readable, q, q2, got, got2) /\ pc' = next
  \/ Gone(readable, q, q2, got, got2) /\ pc' = next
  \/ Passes(q, q2, got, got2) /\ pc' = next
  \/ Inspects(readable, q, q2, got, got2, receiverOpen, next)

\* What is read, and what it is taken for.
ClassicRead(q, r) ==
  r.size \in 1..Len(q) /\ r.look \in UNION {ClassicLooks(q[1], b) : b \in BOOLEAN}

\* The cases of ClassicCopy().
LEMMA ClassicCalls ==
  ASSUME TypeOK, NEW readable \in BOOLEAN, NEW q \in Seq(Packets), NEW werr \in BOOLEAN,
         NEW receiverOpen \in BOOLEAN, receiverOpen => ~werr, NEW r,
         readable /\ q # <<>> => ClassicRead(q, r),
         NEW next, NEW got, NEW q2, q2 = Rest(q, readable, r.size),
         NEW o, o = ClassicCopy(readable, q, r, werr), Returned(o),
         NEW got2, got2 = got \cup KindsOf(o.fwd),
         pc' = IF o.err = "throws" THEN "aborted" ELSE next
  PROVE  ClassicCall(readable, q, q2, got, got2, receiverOpen, next)
<1> DEFINE data == SubSeq(q, 1, r.size)
           l == r.look
<1>0. /\ pktnr' = o.nr /\ handshake_done' = o.done
      /\ o.err = "" => Fine
      /\ o.err \notin {"", "throws"} => Fails({o.err})
      /\ o.err = "throws" => ~connection_is_ok' /\ why' = why
  BY ReturnedAs
<1>1. KindsOf(<<>>) = {}
  BY DEF KindsOf, Range
<1>2. DoneByNumber(pktnr) \in BOOLEAN /\ (DoneByNumber(pktnr) <=> ~Und)
  BY Flags DEF DoneByNumber, Und
<1>3. CASE ~readable
  <2>1. o = Outcome("", 0, DoneByNumber(pktnr), <<>>) /\ q2 = q
    BY <1>3 DEF ClassicCopy, Rest
  <2>2. /\ pktnr' = 0 /\ handshake_done' = DoneByNumber(pktnr) /\ Fine
        /\ o.err = "" /\ o.fwd = <<>>
    BY ONLY <2>1, <1>0 DEF Outcome
  <2>3. QED BY <1>1, <1>2, <1>3, <2>1, <2>2 DEF ClassicCall, Unread
<1>4. CASE readable /\ q = <<>>
  <2>1. o = Outcome("gone", pktnr, DoneByNumber(pktnr), <<>>)
    BY <1>4 DEF ClassicCopy
  <2>2. /\ pktnr' = pktnr /\ handshake_done' = DoneByNumber(pktnr) /\ Fails({"gone"})
        /\ o.err = "gone" /\ o.fwd = <<>>
    BY <2>1, <1>0 DEF Outcome
  <2>3. q2 = q
    BY <1>4 DEF Rest
  <2>4. QED BY <1>1, <1>2, <1>4, <2>2, <2>3 DEF ClassicCall, Gone
<1>5. CASE readable /\ q # <<>> /\ ~Und
  <2>1. o = Outcome("write", pktnr, TRUE, <<>>) \/ o = Outcome("", 0, TRUE, data)
    BY <1>2, <1>5 DEF ClassicCopy
  <2>2. r.size \in 1..Len(q) /\ q2 = SubSeq(q, r.size + 1, Len(q))
    BY <1>5 DEF Rest, ClassicRead
  <2>3. CASE o = Outcome("write", pktnr, TRUE, <<>>)
    <3>1. /\ pktnr' = pktnr /\ handshake_done' = TRUE /\ Fails({"write"})
          /\ o.err = "write" /\ o.fwd = <<>>
      BY <2>3, <1>0 DEF Outcome
    <3>2. got2 = got
      BY <1>1, <3>1
    <3>3. Takes(q, q2, got, got2)
      BY <2>2, <3>2, TakesSome
    <3>4. QED BY <1>5, <3>1, <3>3 DEF ClassicCall, Passes
  <2>4. CASE o = Outcome("", 0, TRUE, data)
    <3> HIDE DEF data
    <3>1. /\ pktnr' = 0 /\ handshake_done' = TRUE /\ Fine
          /\ o.err = "" /\ o.fwd = data
      BY ONLY <2>4, <1>0 DEF Outcome
    <3>2. Takes(q, q2, got, got2)
      BY <2>2, <3>1, TakesSome DEF data
    <3>3. QED BY <1>5, <3>1, <3>2 DEF ClassicCall, Passes
  <2>5. QED BY <2>1, <2>3, <2>4
<1>6. CASE readable /\ q # <<>> /\ Und
  <2>1. /\ r.size \in 1..Len(q) /\ q2 = SubSeq(q, r.size + 1, Len(q))
        /\ l \in UNION {ClassicLooks(q[1], b) : b \in BOOLEAN}
        /\ DoneByNumber(pktnr) = FALSE
    BY <1>2, <1>6 DEF Rest, ClassicRead
  <2>2. \/ o = Outcome("content", pktnr, FALSE, <<>>) /\ l.kind \in {"short", "malformed"}
        \/ o = Outcome("sequence", pktnr, FALSE, <<>>) /\ OutOfSequence(pktnr, l)
        \/ o = Outcome("throws", pktnr, FALSE, <<>>) /\ l.kind = "throws"
        \/ o = Outcome("write", pktnr, FALSE, <<>>)
        \/ o = Outcome("", 2, FALSE, <<>>) /\ l.kind = "err" /\ ~receiverOpen
        \/ o = Outcome("", 2, FALSE, data) /\ l.kind = "err"
        \/ o = Outcome("", NumberAfter(l), FALSE, data) /\ l.kind \notin {"err", "throws"}
    BY <1>6, <2>1 DEF ClassicCopy, NumberAfterError
  <2> HIDE DEF data
  <2>3. SUFFICES \/ Refuses(l, got, got2) /\ pc' = next
                 \/ Throws(l, got, got2) /\ pc' = "aborted"
                 \/ ForwardsError(q, r.size, l, got, got2, receiverOpen) /\ pc' = next
                 \/ Forwards(q, r.size, l, got, got2) /\ pc' = next
    <3> HIDE DEF l
    <3>0. \E e, n, f : o = Outcome(e, n, FALSE, f)
      BY ONLY <2>2, Zenon
    <3>1. o.done = FALSE
      BY ONLY <3>0 DEF Outcome
    <3>2. handshake_done' = FALSE
      BY <3>1, <1>0
    <3>3. QED BY <1>6, <2>1, <2>3, <3>2 DEF ClassicCall, Inspects
  <2> HIDE DEF l
  <2>4. CASE o = Outcome("content", pktnr, FALSE, <<>>) /\ l.kind \in {"short", "malformed"}
    <3>1. pktnr' = pktnr /\ Fails({"content"}) /\ o.err = "content" /\ o.fwd = <<>>
      BY <2>4, <1>0 DEF Outcome
    <3>2. QED BY <1>1, <2>4, <3>1 DEF Refuses, Fails
  <2>5. CASE o = Outcome("sequence", pktnr, FALSE, <<>>) /\ OutOfSequence(pktnr, l)
    <3>1. pktnr' = pktnr /\ Fails({"sequence"}) /\ o.err = "sequence" /\ o.fwd = <<>>
      BY <2>5, <1>0 DEF Outcome
    <3>2. QED BY <1>1, <2>5, <3>1 DEF Refuses, Fails
  <2>6. CASE o = Outcome("throws", pktnr, FALSE, <<>>) /\ l.kind = "throws"
    <3>1. /\ pktnr' = pktnr /\ ~connection_is_ok' /\ why' = why
          /\ o.err = "throws" /\ o.fwd = <<>>
      BY <2>6, <1>0 DEF Outcome
    <3>2. QED BY <1>1, <2>6, <3>1 DEF Throws
  <2>7. CASE o = Outcome("write", pktnr, FALSE, <<>>)
    <3>1. pktnr' = pktnr /\ Fails({"write"}) /\ o.err = "write" /\ o.fwd = <<>>
      BY <2>7, <1>0 DEF Outcome
    <3>2. QED BY <1>1, <3>1 DEF Refuses, Fails
  <2>8. CASE o = Outcome("", 2, FALSE, <<>>) /\ l.kind = "err" /\ ~receiverOpen
    <3>1. pktnr' = 2 /\ Fine /\ o.err = "" /\ o.fwd = <<>>
      BY ONLY <2>8, <1>0 DEF Outcome
    <3>2. QED BY <1>1, <2>8, <3>1 DEF ForwardsError
  <2>9. CASE o = Outcome("", 2, FALSE, data) /\ l.kind = "err"
    <3>1. pktnr' = 2 /\ Fine /\ o.err = "" /\ o.fwd = data
      BY ONLY <2>9, <1>0 DEF Outcome
    <3>2. QED BY <2>9, <3>1 DEF ForwardsError, data
  <2>10. CASE o = Outcome("", NumberAfter(l), FALSE, data) /\ l.kind \notin {"err", "throws"}
    <3>1. pktnr' = NumberAfter(l) /\ Fine /\ o.err = "" /\ o.fwd = data
      BY ONLY <2>10, <1>0 DEF Outcome
    <3>2. QED BY <2>10, <3>1 DEF Forwards, data
  <2>11. QED BY <2>2, <2>4, <2>5, <2>6, <2>7, <2>8, <2>9, <2>10
<1>7. QED BY <1>3, <1>4, <1>5, <1>6


\* An X message: the call gives up, or everything is forwarded since the handshake is
\* done, or the client opens the session, or the server's messages are passed on.
Abandons(readable, q, q2, got, got2, fromServer) ==
  /\ readable /\ q2 \in Seq(Packets) /\ Takes(q, q2, got, got2) /\ got2 = got
  /\ handshake_done' = handshake_done
  /\ Fails({"gone", "size", "content"})
  /\ why' = "content" => \/ why = "content"
                         \/ ~fromServer /\ ~handshake_done /\ q # <<>> /\ q[1].kind \notin XOpening
PassesOn(q, q2, got, got2) ==
  /\ handshake_done /\ handshake_done' = TRUE
  /\ Takes(q, q2, got, got2)
  /\ Fine \/ Fails({"write"})
Delivers(q, n, got, got2, receiverOpen) ==
  \/ got2 = got \cup KindsOf(SubSeq(q, 1, n)) /\ Fine
  \/ got2 = got /\ ~receiverOpen /\ Fails({"write"})
OpensSession(q, n) ==
  /\ handshake_done' = TRUE
  /\ q[1].kind \in XOpening /\ q[1].part # "big"
  /\ q[1].part = "head" => n >= 2
AnswersMessage(q, n) ==
  /\ handshake_done' \in BOOLEAN
  /\ handshake_done' <=> \E j \in 1..n : q[j].kind = "err"

XCall(readable, q, q2, got, got2, receiverOpen, fromServer) ==
  /\ pktnr' = pktnr
  /\ \/ ~readable /\ q2 = q /\ got2 = got /\ handshake_done' = handshake_done /\ Fine
     \/ Abandons(readable, q, q2, got, got2, fromServer)
     \/ PassesOn(q, q2, got, got2)
     \/ /\ ~handshake_done
        /\ \E n \in 1..Len(q) :
             /\ q2 = SubSeq(q, n + 1, Len(q))
             /\ Delivers(q, n, got, got2, receiverOpen)
             /\ IF fromServer THEN AnswersMessage(q, n) ELSE OpensSession(q, n)

\* What is read, and what it is taken for.
XRead(q, r, fromServer) ==
  /\ r.size \in Nat /\ r.size >= 1
  /\ ~handshake_done /\ r.look.kind # "big" =>
       IF fromServer
         THEN r.look.kind = "err" <=> \E j \in DOMAIN q : j <= r.size /\ q[j].kind = "err"
         ELSE /\ r.look.kind = q[1].kind /\ q[1].part # "big"
              /\ q[1].part = "head" => r.size >= 2

LEMMA ReadsOf ==
  ASSUME TypeOK, NEW q \in Seq(Packets), q # <<>>, NEW open, NEW fromServer \in BOOLEAN,
         NEW r \in Reads(TRUE, q, open, fromServer)
  PROVE  /\ proto = "classic" => ClassicRead(q, r)
         /\ proto = "x" => XRead(q, r, fromServer)
<1>1. CASE proto = "classic"
  <2>1. PICK k \in 1..Len(q) : r \in {Read(k, l) : l \in ClassicLooks(q[1], k = 1)}
    BY <1>1 DEF Reads
  <2>2. PICK l \in ClassicLooks(q[1], k = 1) : r = Read(k, l)
    BY <2>1
  <2>3. r.size = k /\ r.look = l
    BY ONLY <2>2 DEF Read
  <2>4. (k = 1) \in BOOLEAN
    OBVIOUS
  <2>5. l \in UNION {ClassicLooks(q[1], b) : b \in BOOLEAN}
    BY <2>2, <2>4, Zenon
  <2>6. QED BY <1>1, <2>3, <2>5 DEF ClassicRead
<1>2. CASE proto = "x"
  <2>1. PICK k \in 1..Len(q) : r \in {Read(XSize(q, k, fromServer), l) : l \in XLooks(q, k, fromServer)}
    BY <1>2 DEF Reads
  <2>2. PICK l \in XLooks(q, k, fromServer) : r = Read(XSize(q, k, fromServer), l)
    BY <2>1
  <2>3. r.size = XSize(q, k, fromServer) /\ r.look = l
    BY ONLY <2>2 DEF Read
  <2>4. k \in Nat /\ k >= 1 /\ 1 \in DOMAIN q /\ 1 \in 1..k
    BY MembersOf
  <2>5. r.size \in {k, k + 1}
    BY <2>3 DEF XSize
  <2>6. r.size \in Nat /\ r.size >= 1
    BY <2>4, <2>5
  <2> DEFINE seen == Inspected(q, k, fromServer)
             big == {i \in seen : q[i].part = "big"}
             error == \E i \in DOMAIN q : i <= XSize(q, k, fromServer) /\ q[i].kind = "err"
             found == IF fromServer /\ error THEN "err" ELSE q[1].kind
  <2>7. ASSUME l.kind # "big"
        PROVE  big = {} /\ l.kind = found
    <3>1. \E m : /\ l = Look(0, m)
                 /\ m = "big" \/ (big = {} /\ m = found)
      BY <2>2 DEF XLooks
    <3>2. PICK m : l = Look(0, m) /\ (m = "big" \/ (big = {} /\ m = found))
      BY <3>1
    <3> HIDE DEF big, found
    <3>3. l.kind = m
      BY ONLY <3>2 DEF Look
    <3>4. QED BY <2>7, <3>2, <3>3
  <2>8. CASE fromServer
    <3>1. ~error => q[1].kind # "err"
      BY <2>3, <2>4, <2>6
    <3>2. l.kind # "big" => (l.kind = "err" <=> error)
      BY <2>7, <2>8, <3>1
    <3>3. error <=> \E j \in DOMAIN q : j <= r.size /\ q[j].kind = "err"
      BY <2>3
    <3>4. QED BY <1>2, <2>3, <2>6, <2>8, <3>2, <3>3 DEF XRead
  <2>9. CASE ~fromServer
    <3>1. seen = {1}
      BY <2>4, <2>9 DEF Inspected
    <3>2. l.kind # "big" => l.kind = q[1].kind /\ q[1].part # "big"
      BY <2>7, <2>9, <3>1
    <3>3. ~handshake_done /\ q[1].part = "head" => r.size >= 2
      BY <2>3, <2>4, <3>1 DEF XSize
    <3>4. QED BY <1>2, <2>3, <2>6, <2>9, <3>2, <3>3 DEF XRead
  <2>10. QED BY <2>8, <2>9
<1>3. QED BY <1>1, <1>2

\* The cases of XCopy().
LEMMA XCalls ==
  ASSUME TypeOK, NEW readable \in BOOLEAN, NEW q \in Seq(Packets), NEW werr \in BOOLEAN,
         NEW receiverOpen \in BOOLEAN, receiverOpen => ~werr, NEW fromServer \in BOOLEAN, NEW r,
         readable /\ q # <<>> => XRead(q, r, fromServer),
         NEW got, NEW q2, q2 = Rest(q, readable, r.size),
         readable /\ q = <<>> => r.size = 0,
         NEW o, o = XCopy(readable, q, r, werr, fromServer), Returned(o),
         NEW got2, got2 = got \cup KindsOf(o.fwd)
  PROVE  XCall(readable, q, q2, got, got2, receiverOpen, fromServer)
<1> DEFINE data == SubSeq(q, 1, r.size)
           k == r.look.kind
<1>0. /\ pktnr' = o.nr /\ handshake_done' = o.done
      /\ o.err = "" => Fine
      /\ o.err \notin {"", "throws"} => Fails({o.err})
  BY ReturnedAs
<1>1. KindsOf(<<>>) = {}
  BY DEF KindsOf, Range
<1>2. handshake_done \in BOOLEAN
  BY Flags
<1>3. CASE ~readable
  <2>1. o = Outcome("", pktnr, handshake_done, <<>>) /\ q2 = q
    BY <1>3 DEF XCopy, Rest
  <2>2. pktnr' = pktnr /\ handshake_done' = handshake_done /\ Fine /\ o.fwd = <<>>
    BY ONLY <2>1, <1>0 DEF Outcome
  <2>3. QED BY <1>1, <1>3, <2>1, <2>2 DEF XCall
<1>4. ASSUME readable, NEW e \in {"gone", "size", "content"},
             o = Outcome(e, pktnr, handshake_done, <<>>),
             e = "content" => ~fromServer /\ ~handshake_done /\ q # <<>> /\ q[1].kind \notin XOpening
      PROVE  XCall(readable, q, q2, got, got2, receiverOpen, fromServer)
  <2>1. pktnr' = pktnr /\ handshake_done' = handshake_done /\ Fails({e}) /\ o.fwd = <<>>
    BY ONLY <1>4, <1>0 DEF Outcome
  <2>2. got2 = got
    BY <1>1, <2>1
  <2>3. q2 = <<>> \/ (r.size \in 1..Len(q) /\ q2 = SubSeq(q, r.size + 1, Len(q)))
    <3>1. CASE q = <<>>
      BY <1>4, <3>1 DEF Rest
    <3>2. CASE q # <<>>
      BY <1>4, <3>2 DEF Rest, XRead
    <3>3. QED BY <3>1, <3>2
  <2>4. Takes(q, q2, got, got2)
    BY <2>2, <2>3, TakesNone, TakesSome
  <2>5. q2 \in Seq(Packets)
    BY <2>4 DEF Takes
  <2>6. QED BY <1>4, <2>1, <2>2, <2>4, <2>5 DEF XCall, Abandons, Fails
<1>5. CASE readable /\ q = <<>>
  <2>1. o = Outcome("gone", pktnr, handshake_done, <<>>)
    BY <1>5 DEF XCopy
  <2>2. QED BY <1>4, <1>5, <2>1
<1>6. CASE readable /\ q # <<>> /\ (r.size > Len(q) \/ (~handshake_done /\ k = "big"))
  <2>1. \/ o = Outcome("gone", pktnr, handshake_done, <<>>)
        \/ o = Outcome("size", pktnr, handshake_done, <<>>)
    BY <1>6 DEF XCopy
  <2>2. QED BY <1>4, <1>6, <2>1
<1>7. CASE readable /\ q # <<>> /\ ~(r.size > Len(q)) /\ handshake_done
  <2>1. o = Outcome("write", pktnr, TRUE, <<>>) \/ o = Outcome("", pktnr, TRUE, data)
    BY <1>7 DEF XCopy
  <2>2. r.size \in 1..Len(q) /\ q2 = SubSeq(q, r.size + 1, Len(q))
    BY <1>7 DEF Rest, XRead
  <2> HIDE DEF data
  <2>3. CASE o = Outcome("write", pktnr, TRUE, <<>>)
    <3>1. pktnr' = pktnr /\ handshake_done' = TRUE /\ Fails({"write"}) /\ o.fwd = <<>>
      BY ONLY <2>3, <1>0 DEF Outcome
    <3>2. Takes(q, q2, got, got2)
      BY <1>1, <2>2, <3>1, TakesSome
    <3>3. QED BY <1>7, <3>1, <3>2 DEF XCall, PassesOn
  <2>4. CASE o = Outcome("", pktnr, TRUE, data)
    <3>1. pktnr' = pktnr /\ handshake_done' = TRUE /\ Fine /\ o.fwd = data
      BY ONLY <2>4, <1>0 DEF Outcome
    <3>2. Takes(q, q2, got, got2)
      BY <2>2, <3>1, TakesSome DEF data
    <3>3. QED BY <1>7, <3>1, <3>2 DEF XCall, PassesOn
  <2>5. QED BY <2>1, <2>3, <2>4
<1>8. CASE readable /\ q # <<>> /\ ~(r.size > Len(q)) /\ ~handshake_done /\ k # "big"
  <2>1. r.size \in 1..Len(q) /\ q2 = SubSeq(q, r.size + 1, Len(q)) /\ DOMAIN q = 1..Len(q)
    BY <1>8 DEF Rest, XRead
  <2>2. CASE ~fromServer /\ k \notin XOpening
    <3>1. o = Outcome("content", pktnr, handshake_done, <<>>)
      BY <1>8, <2>2 DEF XCopy
    <3>2. q[1].kind \notin XOpening
      BY <1>8, <2>2 DEF XRead
    <3>3. QED BY <1>4, <1>8, <2>2, <3>1, <3>2
  <2>3. CASE fromServer \/ k \in XOpening
    <3> DEFINE d == k \in IF fromServer THEN {"err"} ELSE XOpening
    <3>1. \/ o = Outcome("write", pktnr, d, <<>>) /\ ~receiverOpen
          \/ o = Outcome("", pktnr, d, data)
      <4> DEFINE done == handshake_done \/ d
      <4>1. done = d
        BY <1>2, <1>8
      <4>2. \/ o = Outcome("write", pktnr, done, <<>>) /\ ~receiverOpen
            \/ o = Outcome("", pktnr, done, data)
        BY <1>8, <2>3 DEF XCopy
      <4> HIDE DEF done, d, data
      <4>3. QED BY ONLY <4>1, <4>2
    <3>2. CASE fromServer
      <4>1. d <=> \E j \in DOMAIN q : j <= r.size /\ q[j].kind = "err"
        BY <1>8, <3>2 DEF XRead
      <4>2. (\E j \in DOMAIN q : j <= r.size /\ q[j].kind = "err")
              <=> \E j \in 1..r.size : q[j].kind = "err"
        BY <2>1
      <4>3. d \in BOOLEAN
        OBVIOUS
      <4> HIDE DEF d, data
      <4>4. CASE o = Outcome("write", pktnr, d, <<>>) /\ ~receiverOpen
        <5>1. pktnr' = pktnr /\ handshake_done' = d /\ Fails({"write"}) /\ o.fwd = <<>>
          BY ONLY <4>4, <1>0 DEF Outcome
        <5>2. Delivers(q, r.size, got, got2, receiverOpen)
          BY <1>1, <4>4, <5>1 DEF Delivers
        <5>3. QED BY <1>8, <2>1, <3>2, <4>1, <4>2, <4>3, <5>1, <5>2 DEF XCall, AnswersMessage
      <4>5. CASE o = Outcome("", pktnr, d, data)
        <5>1. pktnr' = pktnr /\ handshake_done' = d /\ Fine /\ o.fwd = data
          BY ONLY <4>5, <1>0 DEF Outcome
        <5>2. Delivers(q, r.size, got, got2, receiverOpen)
          BY <5>1 DEF Delivers, data
        <5>3. QED BY <1>8, <2>1, <3>2, <4>1, <4>2, <4>3, <5>1, <5>2 DEF XCall, AnswersMessage
      <4>6. QED BY <3>1, <4>4, <4>5
    <3>3. CASE ~fromServer
      <4>1. d = TRUE
        BY <2>3, <3>3
      <4>2. q[1].kind \in XOpening /\ q[1].part # "big" /\ (q[1].part = "head" => r.size >= 2)
        BY <1>8, <2>3, <3>3 DEF XRead
      <4> HIDE DEF d, data
      <4>3. CASE o = Outcome("write", pktnr, d, <<>>) /\ ~receiverOpen
        <5>1. pktnr' = pktnr /\ handshake_done' = d /\ Fails({"write"}) /\ o.fwd = <<>>
          BY ONLY <4>3, <1>0 DEF Outcome
        <5>2. Delivers(q, r.size, got, got2, receiverOpen)
          BY <1>1, <4>3, <5>1 DEF Delivers
        <5>3. QED BY <1>8, <2>1, <3>3, <4>1, <4>2, <5>1, <5>2 DEF XCall, OpensSession
      <4>4. CASE o = Outcome("", pktnr, d, data)
        <5>1. pktnr' = pktnr /\ handshake_done' = d /\ Fine /\ o.fwd = data
          BY ONLY <4>4, <1>0 DEF Outcome
        <5>2. Delivers(q, r.size, got, got2, receiverOpen)
          BY <5>1 DEF Delivers, data
        <5>3. QED BY <1>8, <2>1, <3>3, <4>1, <4>2, <5>1, <5>2 DEF XCall, OpensSession
      <4>5. QED BY <3>1, <4>3, <4>4
    <3>4. QED BY <3>2, <3>3
  <2>4. QED BY <2>2, <2>3
<1>9. QED BY <1>3, <1>5, <1>6, <1>7, <1>8

\* A call of either protocol takes packets from the front.
LEMMA ClassicTakes ==
  ASSUME NEW q \in Seq(Packets), NEW readable, NEW q2, NEW got, NEW got2,
         NEW receiverOpen, NEW next,
         ClassicCall(readable, q, q2, got, got2, receiverOpen, next)
  PROVE  Takes(q, q2, got, got2)
<1>1. CASE Unread(readable, q, q2, got, got2) \/ Gone(readable, q, q2, got, got2)
  BY <1>1, TakesNone DEF Unread, Gone
<1>2. CASE Passes(q, q2, got, got2)
  BY <1>2 DEF Passes
<1>3. CASE Inspects(readable, q, q2, got, got2, receiverOpen, next)
  <2>0. PICK n \in 1..Len(q) : \E l :
          /\ q2 = SubSeq(q, n + 1, Len(q))
          /\ \/ Refuses(l, got, got2)
             \/ Throws(l, got, got2)
             \/ ForwardsError(q, n, l, got, got2, receiverOpen)
             \/ Forwards(q, n, l, got, got2)
    BY <1>3 DEF Inspects
  <2>1. PICK l :
          /\ q2 = SubSeq(q, n + 1, Len(q))
          /\ \/ Refuses(l, got, got2)
             \/ Throws(l, got, got2)
             \/ ForwardsError(q, n, l, got, got2, receiverOpen)
             \/ Forwards(q, n, l, got, got2)
    BY <2>0
  <2>2. got2 \in {got, got \cup KindsOf(SubSeq(q, 1, n))}
    BY <2>1 DEF Refuses, Throws, ForwardsError, Forwards
  <2>3. QED BY <2>1, <2>2, TakesSome
<1>4. QED BY <1>1, <1>2, <1>3 DEF ClassicCall

LEMMA XTakes ==
  ASSUME NEW q \in Seq(Packets), NEW readable, NEW q2, NEW got, NEW got2,
         NEW receiverOpen, NEW fromServer,
         XCall(readable, q, q2, got, got2, receiverOpen, fromServer)
  PROVE  Takes(q, q2, got, got2)
<1>1. CASE q2 = q /\ got2 = got
  BY <1>1, TakesNone
<1>2. CASE \/ Abandons(readable, q, q2, got, got2, fromServer)
           \/ PassesOn(q, q2, got, got2)
  BY <1>2 DEF Abandons, PassesOn
<1>3. CASE \E n \in 1..Len(q) :
             /\ q2 = SubSeq(q, n + 1, Len(q))
             /\ Delivers(q, n, got, got2, receiverOpen)
  <2>1. PICK n \in 1..Len(q) :
             /\ q2 = SubSeq(q, n + 1, Len(q))
             /\ Delivers(q, n, got, got2, receiverOpen)
    BY <1>3
  <2>2. got2 \in {got, got \cup KindsOf(SubSeq(q, 1, n))}
    BY <2>1 DEF Delivers
  <2>3. QED BY <2>1, <2>2, TakesSome
<1>4. QED BY <1>1, <1>2, <1>3 DEF XCall

\* No call of the X protocol throws.
LEMMA XDoesNotThrow ==
  ASSUME NEW readable, NEW q, NEW r, NEW werr, NEW fromServer
  PROVE  XCopy(readable, q, r, werr, fromServer).err # "throws"
BY DEF XCopy, Outcome

\* What a step of each direction does.
ServerCopied ==
  /\ pc = "s2c" /\ pc' \in {"c2s", "aborted"}
  /\ Takes(sq, sq', cgot, cgot')
  /\ proto = "classic" => ClassicCall(sr, sq, sq', cgot, cgot', copen, "c2s")
  /\ proto = "x" => pc' = "c2s" /\ XCall(sr, sq, sq', cgot, cgot', copen, TRUE)
  /\ connection_is_ok' \in BOOLEAN
  /\ UNCHANGED <<proto, honest, csent, ssent, sgot, cq, copen, sopen, cut,
                 cr, sr, disconnect_, blamed>>
ClientCopied ==
  /\ pc = "c2s" /\ pc' \in {"loop", "aborted"}
  /\ Takes(cq, cq', sgot, sgot')
  /\ proto = "classic" => ClassicCall(cr, cq, cq', sgot, sgot', sopen, "loop")
  /\ proto = "x" => pc' = "loop" /\ XCall(cr, cq, cq', sgot, sgot', sopen, FALSE)
  /\ connection_is_ok' \in BOOLEAN
  /\ cr' = FALSE /\ sr' = FALSE
  /\ UNCHANGED <<proto, honest, csent, ssent, cgot, sq, copen, sopen, cut,
                 disconnect_, blamed>>

\* The two directions.
LEMMA ServerCall ==
  ASSUME TypeOK, CopyServerToClient
  PROVE  ServerCopied
<1>1. PICK r \in Reads(sr, sq, sopen, TRUE), werr \in WriteFails(copen) :
        /\ Returned(CopyPackets(sr, sq, r, werr, TRUE))
        /\ sq' = Rest(sq, sr, r.size)
        /\ cgot' = cgot \cup KindsOf(CopyPackets(sr, sq, r, werr, TRUE).fwd)
        /\ pc' = IF CopyPackets(sr, sq, r, werr, TRUE).err = "throws" THEN "aborted" ELSE "c2s"
  BY DEF CopyServerToClient
<1>2. werr \in BOOLEAN /\ (copen => ~werr)
  BY Flags DEF WriteFails
<1>3. sr \in BOOLEAN /\ sq \in Seq(Packets) /\ sopen \in BOOLEAN /\ copen \in BOOLEAN
  BY Flags
<1>4. sr /\ sq = <<>> => r.size = 0
  <2>1. sr /\ sq = <<>> => r = Read(0, Look(0, ""))
    BY <1>3 DEF Reads
  <2>2. Read(0, Look(0, "")).size = 0
    BY ONLY DEF Read
  <2>3. QED BY <2>1, <2>2
<1>5. sr /\ sq # <<>> => /\ proto = "classic" => ClassicRead(sq, r)
                         /\ proto = "x" => XRead(sq, r, TRUE)
  <2> SUFFICES ASSUME sr, sq # <<>>
               PROVE  /\ proto = "classic" => ClassicRead(sq, r)
                      /\ proto = "x" => XRead(sq, r, TRUE)
    OBVIOUS
  <2>1. sr = TRUE
    BY <1>3
  <2>2. r \in Reads(TRUE, sq, sopen, TRUE)
    BY <2>1, Zenon
  <2>3. QED BY <1>3, <2>2, ReadsOf
<1>6. PICK o : o = CopyPackets(sr, sq, r, werr, TRUE)
  OBVIOUS
<1>7. /\ Returned(o) /\ cgot' = cgot \cup KindsOf(o.fwd)
      /\ pc' = IF o.err = "throws" THEN "aborted" ELSE "c2s"
  BY ONLY <1>1, <1>6
<1>8. connection_is_ok' \in BOOLEAN
  BY <1>7, ReturnedAs
<1>9. pc = "s2c"
      /\ UNCHANGED <<proto, honest, csent, ssent, sgot, cq, copen, sopen, cut,
                     cr, sr, disconnect_, blamed>>
  BY DEF CopyServerToClient
<1>10. CASE proto = "classic"
  <2>1. o = ClassicCopy(sr, sq, r, werr)
    BY <1>6, <1>10 DEF CopyPackets
  <2>2. sr /\ sq # <<>> => ClassicRead(sq, r)
    BY <1>5, <1>10
  <2>3. ClassicCall(sr, sq, sq', cgot, cgot', copen, "c2s")
    BY <1>1, <1>2, <1>3, <1>7, <2>1, <2>2, ClassicCalls
  <2>4. Takes(sq, sq', cgot, cgot')
    BY <1>3, <2>3, ClassicTakes
  <2>5. pc' \in {"c2s", "aborted"}
    BY <1>7
  <2>6. QED BY <1>8, <1>9, <1>10, <2>3, <2>4, <2>5 DEF ServerCopied
<1>11. CASE proto = "x"
  <2>1. o = XCopy(sr, sq, r, werr, TRUE)
    BY <1>6, <1>11 DEF CopyPackets
  <2>2. sr /\ sq # <<>> => XRead(sq, r, TRUE)
    BY <1>5, <1>11
  <2>3. XCall(sr, sq, sq', cgot, cgot', copen, TRUE)
    BY <1>1, <1>2, <1>3, <1>4, <1>7, <2>1, <2>2, XCalls
  <2>4. Takes(sq, sq', cgot, cgot')
    BY <1>3, <2>3, XTakes
  <2>5. pc' = "c2s"
    BY <1>7, <2>1, XDoesNotThrow
  <2>6. QED BY <1>8, <1>9, <1>11, <2>3, <2>4, <2>5 DEF ServerCopied
<1>12. QED BY <1>10, <1>11, Flags

LEMMA ClientCall ==
  ASSUME TypeOK, CopyClientToServer
  PROVE  ClientCopied
<1>1. PICK r \in Reads(cr, cq, copen, FALSE), werr \in WriteFails(sopen) :
        /\ Returned(CopyPackets(cr, cq, r, werr, FALSE))
        /\ cq' = Rest(cq, cr, r.size)
        /\ sgot' = sgot \cup KindsOf(CopyPackets(cr, cq, r, werr, FALSE).fwd)
        /\ pc' = IF CopyPackets(cr, cq, r, werr, FALSE).err = "throws" THEN "aborted" ELSE "loop"
  BY DEF CopyClientToServer
<1>2. werr \in BOOLEAN /\ (sopen => ~werr)
  BY Flags DEF WriteFails
<1>3. cr \in BOOLEAN /\ cq \in Seq(Packets) /\ copen \in BOOLEAN /\ sopen \in BOOLEAN
  BY Flags
<1>4. cr /\ cq = <<>> => r.size = 0
  <2>1. cr /\ cq = <<>> => r = Read(0, Look(0, ""))
    BY <1>3 DEF Reads
  <2>2. Read(0, Look(0, "")).size = 0
    BY ONLY DEF Read
  <2>3. QED BY <2>1, <2>2
<1>5. cr /\ cq # <<>> => /\ proto = "classic" => ClassicRead(cq, r)
                         /\ proto = "x" => XRead(cq, r, FALSE)
  <2> SUFFICES ASSUME cr, cq # <<>>
               PROVE  /\ proto = "classic" => ClassicRead(cq, r)
                      /\ proto = "x" => XRead(cq, r, FALSE)
    OBVIOUS
  <2>1. cr = TRUE
    BY <1>3
  <2>2. r \in Reads(TRUE, cq, copen, FALSE)
    BY <2>1, Zenon
  <2>3. QED BY <1>3, <2>2, ReadsOf
<1>6. PICK o : o = CopyPackets(cr, cq, r, werr, FALSE)
  OBVIOUS
<1>7. /\ Returned(o) /\ sgot' = sgot \cup KindsOf(o.fwd)
      /\ pc' = IF o.err = "throws" THEN "aborted" ELSE "loop"
  BY ONLY <1>1, <1>6
<1>8. connection_is_ok' \in BOOLEAN
  BY <1>7, ReturnedAs
<1>9. pc = "c2s"
      /\ cr' = FALSE /\ sr' = FALSE
      /\ UNCHANGED <<proto, honest, csent, ssent, cgot, sq, copen, sopen, cut,
                     disconnect_, blamed>>
  BY DEF CopyClientToServer
<1>10. CASE proto = "classic"
  <2>1. o = ClassicCopy(cr, cq, r, werr)
    BY <1>6, <1>10 DEF CopyPackets
  <2>2. cr /\ cq # <<>> => ClassicRead(cq, r)
    BY <1>5, <1>10
  <2>3. ClassicCall(cr, cq, cq', sgot, sgot', sopen, "loop")
    BY <1>1, <1>2, <1>3, <1>7, <2>1, <2>2, ClassicCalls
  <2>4. Takes(cq, cq', sgot, sgot')
    BY <1>3, <2>3, ClassicTakes
  <2>5. pc' \in {"loop", "aborted"}
    BY <1>7
  <2>6. QED BY <1>8, <1>9, <1>10, <2>3, <2>4, <2>5 DEF ClientCopied
<1>11. CASE proto = "x"
  <2>1. o = XCopy(cr, cq, r, werr, FALSE)
    BY <1>6, <1>11 DEF CopyPackets
  <2>2. cr /\ cq # <<>> => XRead(cq, r, FALSE)
    BY <1>5, <1>11
  <2>3. XCall(cr, cq, cq', sgot, sgot', sopen, FALSE)
    BY <1>1, <1>2, <1>3, <1>4, <1>7, <2>1, <2>2, XCalls
  <2>4. Takes(cq, cq', sgot, sgot')
    BY <1>3, <2>3, XTakes
  <2>5. pc' = "loop"
    BY <1>7, <2>1, XDoesNotThrow
  <2>6. QED BY <1>8, <1>9, <1>11, <2>3, <2>4, <2>5 DEF ClientCopied
<1>12. QED BY <1>10, <1>11, Flags

(***************************************************************************)
(* The kinds of step: a message of the client, one of the server, a call   *)
(* of copy_packets() for either direction, and all the steps that leave    *)
(* the messages alone.                                                     *)
(***************************************************************************)

\* ps is a packet of number n and kind k, in one or two pieces.
Split(n, k, ps) ==
  /\ n \in 0..3 /\ k \in Kinds
  /\ ps \in Seq(Packets) /\ Len(ps) \in {1, 2}
  /\ ps[1].kind = k /\ ps[1].nr = n /\ ps[1].part # "tail"
  /\ proto = "classic" /\ Len(ps) = 1 => ps[1].part = "whole"
  /\ proto = "x" => ps[1].part \in {"whole", "head", "big"}
  /\ Len(ps) = 2 => ps[1].part \in FirstParts /\ ps[2].part = "tail" /\ ps[2].kind = k

\* Every way the network delivers a packet is such a split ...
LEMMA SplitPieces ==
  ASSUME TypeOK, NEW n \in 0..3, NEW k \in Kinds, NEW ps \in Pieces(n, k)
  PROVE  Split(n, k, ps)
<1>1. proto \in {"classic", "x"}
  BY Flags
<1>2. QED BY <1>1, PiecesOf DEF Split

\* ... and so is a packet that is not cut.
LEMMA SplitWhole ==
  ASSUME TypeOK, NEW n \in 0..3, NEW k \in Kinds
  PROVE  Split(n, k, <<Packet(n, k, "whole")>>) /\ Len(<<Packet(n, k, "whole")>>) = 1
<1>1. <<Packet(n, k, "whole")>> \in Pieces(n, k)
  BY DEF Pieces
<1>2. QED BY <1>1, SplitPieces

\* q2 is q with the pieces ps behind it.
Appended(q, ps, q2) ==
  /\ q2 \in Seq(Packets) /\ q2 # <<>> /\ Len(q2) = Len(q) + Len(ps)
  /\ \A j \in DOMAIN q2 :
       \/ j \in DOMAIN q /\ q2[j] = q[j]
       \/ j = Len(q) + 1 /\ q2[j] = ps[1]
       \/ Len(ps) = 2 /\ j = Len(q) + 2 /\ q2[j] = ps[2]
  /\ q # <<>> => q2[1] = q[1]
  /\ q = <<>> => q2 = ps

\* Sending appends.
LEMMA Appends ==
  ASSUME NEW q \in Seq(Packets), NEW ps \in Seq(Packets), Len(ps) \in {1, 2}
  PROVE  Appended(q, ps, q \o ps)
<1> DEFINE q2 == q \o ps
<1>1. /\ q2 \in Seq(Packets) /\ Len(q2) = Len(q) + Len(ps)
      /\ DOMAIN q2 = 1..(Len(q) + Len(ps))
      /\ \A j \in 1..Len(q) : q2[j] = q[j]
      /\ \A j \in 1..Len(ps) : q2[Len(q) + j] = ps[j]
      /\ q = <<>> => q2 = ps
  BY Joined
<1> HIDE DEF q2
<1>2. q2 # <<>>
  BY <1>1
<1>3. \A j \in DOMAIN q2 :
        \/ j \in DOMAIN q /\ q2[j] = q[j]
        \/ j = Len(q) + 1 /\ q2[j] = ps[1]
        \/ Len(ps) = 2 /\ j = Len(q) + 2 /\ q2[j] = ps[2]
  <2> SUFFICES ASSUME NEW j \in 1..(Len(q) + Len(ps)), ~(j \in 1..Len(q))
               PROVE  \/ j = Len(q) + 1 /\ q2[j] = ps[1]
                      \/ Len(ps) = 2 /\ j = Len(q) + 2 /\ q2[j] = ps[2]
    BY <1>1
  <2>1. Len(q) \in Nat /\ 1 \in 1..1 /\ 1 \in 1..2 /\ 2 \in 1..2
    OBVIOUS
  <2>2. CASE Len(ps) = 1
    <3>1. j \in 1..(Len(q) + 1)
      BY <2>2
    <3>2. j = Len(q) + 1
      BY <2>1, <3>1
    <3>3. QED BY <1>1, <2>1, <2>2, <3>2
  <2>3. CASE Len(ps) = 2
    <3>1. j \in 1..(Len(q) + 2)
      BY <2>3
    <3>2. j = Len(q) + 1 \/ j = Len(q) + 2
      BY <2>1, <3>1
    <3>3. QED BY <1>1, <2>1, <2>3, <3>2
  <2>4. QED BY <2>2, <2>3
<1>4. q # <<>> => q2[1] = q[1]
  BY <1>1
<1>5. QED BY <1>1, <1>2, <1>3, <1>4 DEF Appended, q2

ClientSays(n, k, ps) ==
  /\ Split(n, k, ps) /\ Appended(cq, ps, cq')
  /\ copen /\ ~Broken(cq) /\ csent' = csent \cup {k}
  /\ cut' = (cut \/ (proto = "classic" /\ Len(ps) > 1))
  /\ UNCHANGED <<proto, honest, ssent, cgot, sgot, sq, copen, sopen, loopVars>>
  /\ \/ /\ proto = "classic" /\ "greeting" \in cgot /\ csent = {}
        /\ n = 1 /\ k \in Responses
     \/ proto = "x" /\ csent = {} /\ k \in XOpening
     \/ /\ "ok" \in cgot \/ csent \cap ({"ssl"} \cup XOpening) # {}
        /\ n = 0 /\ k = "data" /\ Len(ps) = 1
     \/ /\ ~honest /\ Len(ps) = 1
        /\ proto = "x" => k \in XWrong
        /\ proto = "classic" => k \in {"plain", "malformed"}

ServerSays(n, k, ps) ==
  /\ Split(n, k, ps) /\ Appended(sq, ps, sq')
  /\ sopen /\ sopen' = (k \notin Errors) /\ ssent' = ssent \cup {k}
  /\ cut' = (cut \/ (proto = "classic" /\ Len(ps) > 1))
  /\ UNCHANGED <<proto, honest, csent, cgot, sgot, cq, copen, loopVars>>
  /\ \/ /\ proto = "classic" /\ ssent = {}
        /\ n = 0 /\ k \in {"greeting", "refused"}
     \/ proto = "x" /\ k \in {"notice", "err"}
     \/ /\ proto = "classic" /\ sgot \cap {"plain", "ff"} # {} /\ ssent \cap Verdicts = {}
        /\ n = 2 /\ k \in Verdicts
     \/ /\ sgot \cap ({"ssl"} \cup XOpening) # {} /\ "data" \notin ssent
        /\ n = 0 /\ k = "data" /\ Len(ps) = 1

\* A message of the client, by the action that sends it.
LEMMA ClientTalks ==
  ASSUME TypeOK, ClientResponds \/ ClientOpens \/ ClientContinues \/ ClientMisbehaves
  PROVE  \E n \in 0..3, k \in Kinds, ps \in Seq(Packets) : ClientSays(n, k, ps)
<1>1. ASSUME NEW n \in 0..3, NEW k \in Kinds, NEW ps, Split(n, k, ps), ClientSends(n, k, ps)
      PROVE  /\ ps \in Seq(Packets) /\ Appended(cq, ps, cq')
             /\ copen /\ ~Broken(cq) /\ csent' = csent \cup {k}
             /\ cut' = (cut \/ (proto = "classic" /\ Len(ps) > 1))
             /\ UNCHANGED <<proto, honest, ssent, cgot, sgot, sq, copen, sopen, loopVars>>
  <2>1. ps \in Seq(Packets) /\ Len(ps) \in {1, 2} /\ cq \in Seq(Packets)
    BY <1>1, Flags DEF Split
  <2>2. Appended(cq, ps, cq')
    BY <1>1, <2>1, Appends DEF ClientSends
  <2>3. QED BY <1>1, <2>1, <2>2 DEF ClientSends
<1>2. CASE ClientResponds
  <2>0. PICK k \in Responses : \E ps \in Pieces(1, k) : ClientSends(1, k, ps)
    BY <1>2 DEF ClientResponds
  <2>1. PICK ps \in Pieces(1, k) : ClientSends(1, k, ps)
    BY <2>0
  <2>2. k \in Kinds /\ 1 \in 0..3
    BY DEF Kinds, Responses, XOpening
  <2>3. Split(1, k, ps)
    BY <2>2, SplitPieces
  <2>4. proto = "classic" /\ "greeting" \in cgot /\ csent = {}
    BY <1>2 DEF ClientResponds
  <2>5. ClientSays(1, k, ps)
    BY <1>1, <2>1, <2>2, <2>3, <2>4 DEF ClientSays
  <2>6. QED BY <1>1, <2>1, <2>2, <2>3, <2>5
<1>3. CASE ClientOpens
  <2>0. PICK k \in XOpening : \E ps \in Pieces(0, k) : ClientSends(0, k, ps)
    BY <1>3 DEF ClientOpens
  <2>1. PICK ps \in Pieces(0, k) : ClientSends(0, k, ps)
    BY <2>0
  <2>2. k \in Kinds /\ 0 \in 0..3
    BY DEF Kinds, Responses, XOpening
  <2>3. Split(0, k, ps)
    BY <2>2, SplitPieces
  <2>4. proto = "x" /\ csent = {}
    BY <1>3 DEF ClientOpens
  <2>5. ClientSays(0, k, ps)
    BY <1>1, <2>1, <2>2, <2>3, <2>4 DEF ClientSays
  <2>6. QED BY <1>1, <2>1, <2>2, <2>3, <2>5
<1>4. CASE ClientContinues
  <2> DEFINE ps == <<Packet(0, "data", "whole")>>
  <2>1. ClientSends(0, "data", ps) /\ ("ok" \in cgot \/ csent \cap ({"ssl"} \cup XOpening) # {})
    BY <1>4 DEF ClientContinues
  <2>2. "data" \in Kinds /\ 0 \in 0..3
    BY DEF Kinds, Responses, XOpening
  <2>3. Split(0, "data", ps) /\ Len(ps) = 1
    BY <2>2, SplitWhole
  <2> HIDE DEF ps
  <2>5. ClientSays(0, "data", ps)
    BY <1>1, <2>1, <2>2, <2>3 DEF ClientSays
  <2>6. QED BY <1>1, <2>1, <2>2, <2>3, <2>5
<1>5. CASE ClientMisbehaves
  <2>1. PICK n \in 0..2, k \in {"plain", "malformed"} \cup XWrong :
          /\ IF proto = "x" THEN n = 0 /\ k \in XWrong ELSE k \notin XWrong
          /\ ClientSends(n, k, <<Packet(n, k, "whole")>>)
    BY <1>5 DEF ClientMisbehaves
  <2> DEFINE ps == <<Packet(n, k, "whole")>>
  <2>2. k \in Kinds /\ n \in 0..3
    BY DEF Kinds, XWrong, Responses
  <2>3. Split(n, k, ps) /\ Len(ps) = 1
    BY <2>2, SplitWhole
  <2>4. ClientSends(n, k, ps)
    BY <2>1
  <2>5. /\ ~honest
        /\ proto = "x" => k \in XWrong
        /\ proto = "classic" => k \in {"plain", "malformed"}
    BY <1>5, <2>1 DEF ClientMisbehaves
  <2> HIDE DEF ps
  <2>6. ClientSays(n, k, ps)
    BY <1>1, <2>2, <2>3, <2>4, <2>5 DEF ClientSays
  <2>7. QED BY <1>1, <2>2, <2>3, <2>4, <2>6
<1>6. QED BY <1>2, <1>3, <1>4, <1>5

\* A message of the server, by the action that sends it.
LEMMA ServerTalks ==
  ASSUME TypeOK, ServerGreets \/ ServerNotifies \/ ServerDecides \/ ServerContinues
  PROVE  \E n \in 0..3, k \in Kinds, ps \in Seq(Packets) : ServerSays(n, k, ps)
<1>1. ASSUME NEW n \in 0..3, NEW k \in Kinds, NEW ps, Split(n, k, ps), ServerSends(n, k, ps)
      PROVE  /\ ps \in Seq(Packets) /\ Appended(sq, ps, sq')
             /\ sopen /\ sopen' = (k \notin Errors) /\ ssent' = ssent \cup {k}
             /\ cut' = (cut \/ (proto = "classic" /\ Len(ps) > 1))
             /\ UNCHANGED <<proto, honest, csent, cgot, sgot, cq, copen, loopVars>>
  <2>1. ps \in Seq(Packets) /\ Len(ps) \in {1, 2} /\ sq \in Seq(Packets)
    BY <1>1, Flags DEF Split
  <2>2. Appended(sq, ps, sq')
    BY <1>1, <2>1, Appends DEF ServerSends
  <2>3. QED BY <1>1, <2>1, <2>2 DEF ServerSends
<1>2. Verdicts \cup {"greeting", "refused", "notice", "err", "data"} \subseteq Kinds /\ {0, 2} \subseteq 0..3
  BY DEF Kinds, Verdicts
<1>3. CASE ServerGreets
  <2>1. proto = "classic" /\ ssent = {}
    BY <1>3 DEF ServerGreets
  <2>2. PICK k \in {"greeting", "refused"} : \E ps \in Pieces(0, k) : ServerSends(0, k, ps)
    BY <1>3 DEF ServerGreets
  <2>3. PICK ps \in Pieces(0, k) : ServerSends(0, k, ps)
    BY <2>2
  <2>4. k \in Kinds /\ 0 \in 0..3
    BY <1>2
  <2>5. Split(0, k, ps)
    BY <2>4, SplitPieces
  <2>6. ServerSays(0, k, ps)
    BY <1>1, <2>1, <2>3, <2>4, <2>5 DEF ServerSays
  <2>7. QED BY <1>1, <2>3, <2>4, <2>5, <2>6
<1>4. CASE ServerNotifies
  <2>1. proto = "x"
    BY <1>4 DEF ServerNotifies
  <2>2. PICK k \in {"notice", "err"} : \E ps \in Pieces(0, k) : ServerSends(0, k, ps)
    BY <1>4 DEF ServerNotifies
  <2>3. PICK ps \in Pieces(0, k) : ServerSends(0, k, ps)
    BY <2>2
  <2>4. k \in Kinds /\ 0 \in 0..3
    BY <1>2
  <2>5. Split(0, k, ps)
    BY <2>4, SplitPieces
  <2>6. ServerSays(0, k, ps)
    BY <1>1, <2>1, <2>3, <2>4, <2>5 DEF ServerSays
  <2>7. QED BY <1>1, <2>3, <2>4, <2>5, <2>6
<1>5. CASE ServerDecides
  <2>1. proto = "classic" /\ sgot \cap {"plain", "ff"} # {} /\ ssent \cap Verdicts = {}
    BY <1>5 DEF ServerDecides
  <2>2. PICK k \in Verdicts : \E ps \in Pieces(2, k) : ServerSends(2, k, ps)
    BY <1>5 DEF ServerDecides
  <2>3. PICK ps \in Pieces(2, k) : ServerSends(2, k, ps)
    BY <2>2
  <2>4. k \in Kinds /\ 2 \in 0..3
    BY <1>2
  <2>5. Split(2, k, ps)
    BY <2>4, SplitPieces
  <2>6. ServerSays(2, k, ps)
    BY <1>1, <2>1, <2>3, <2>4, <2>5 DEF ServerSays
  <2>7. QED BY <1>1, <2>3, <2>4, <2>5, <2>6
<1>6. CASE ServerContinues
  <2>1. sgot \cap ({"ssl"} \cup XOpening) # {} /\ "data" \notin ssent
    BY <1>6 DEF ServerContinues
  <2>2. PICK k \in {"data"} : \E ps \in Pieces(0, k) : Len(ps) = 1 /\ ServerSends(0, k, ps)
    BY <1>6 DEF ServerContinues
  <2>3. PICK ps \in Pieces(0, k) : Len(ps) = 1 /\ ServerSends(0, k, ps)
    BY <2>2
  <2>4. k \in Kinds /\ 0 \in 0..3
    BY <1>2
  <2>5. Split(0, k, ps)
    BY <2>4, SplitPieces
  <2>6. ServerSays(0, k, ps)
    BY <1>1, <2>1, <2>3, <2>4, <2>5 DEF ServerSays
  <2>7. QED BY <1>1, <2>3, <2>4, <2>5, <2>6
<1>7. QED BY <1>3, <1>4, <1>5, <1>6

\* A step of the loop around the calls, a peer that closes, disconnect().
Quiet ==
  /\ UNCHANGED <<proto, honest, csent, ssent, cgot, cq, sq, cut, pktnr, handshake_done>>
  /\ sgot' \in {sgot, sgot \cup {"fake"}}
  /\ copen' \in {copen, FALSE} /\ sopen' \in {sopen, FALSE}
  /\ {connection_is_ok', disconnect_', cr', sr', blamed'} \subseteq BOOLEAN
  /\ \/ UNCHANGED <<connection_is_ok, why>>
     \/ ~connection_is_ok' /\ why' \in {"timeout", "poll"} /\ pc' \in {"loop", "finish"}
  /\ \/ UNCHANGED <<pc, cr, sr, blamed, sgot>>
     \/ pc = "poll" /\ pc' = "s2c" /\ UNCHANGED <<blamed, sgot>>
     \/ /\ pc \in {"loop", "poll"} /\ pc' \in {"loop", "poll", "finish"}
        /\ pc' = "poll" => connection_is_ok
        /\ UNCHANGED <<cr, sr, blamed, sgot>>
     \/ /\ pc = "finish" /\ pc' = "closed" /\ UNCHANGED <<cr, sr, sopen>>
        /\ blamed' = ~handshake_done
        /\ ~handshake_done /\ sopen => "fake" \in sgot'

\* The actions that leave the messages alone.
LEMMA QuietSteps ==
  ASSUME TypeOK,
         \/ LoopTest \/ Poll \/ PollTimeout \/ PollFails \/ Finish
         \/ ClientCloses \/ ServerCloses \/ Disconnect \/ UNCHANGED vars
  PROVE  Quiet
<1> USE Flags
<1>1. CASE LoopTest
  BY <1>1 DEF LoopTest, Quiet, peerVars
<1>2. CASE Poll
  BY <1>2 DEF Poll, Quiet, peerVars, Readable
<1>3. CASE PollTimeout
  BY <1>3 DEF PollTimeout, Quiet, peerVars
<1>4. CASE PollFails
  BY <1>4 DEF PollFails, Quiet, peerVars
<1>5. CASE Finish
  BY <1>5 DEF Finish, Quiet
<1>6. CASE ClientCloses
  BY <1>6 DEF ClientCloses, Quiet, loopVars
<1>7. CASE ServerCloses
  BY <1>7 DEF ServerCloses, Quiet, loopVars
<1>8. CASE Disconnect
  BY <1>8 DEF Disconnect, Quiet, peerVars
<1>9. CASE UNCHANGED vars
  BY <1>9 DEF Quiet, vars, peerVars, loopVars
<1>10. QED BY <1>1, <1>2, <1>3, <1>4, <1>5, <1>6, <1>7, <1>8, <1>9

\* Every step is of one of these kinds.
Talks == \/ \E n \in 0..3, k \in Kinds, ps \in Seq(Packets) : ClientSays(n, k, ps)
         \/ \E n \in 0..3, k \in Kinds, ps \in Seq(Packets) : ServerSays(n, k, ps)

LEMMA Steps ==
  ASSUME TypeOK, [Next]_vars
  PROVE  (pc \notin {"closed", "aborted"} /\ Talks) \/ ServerCopied \/ ClientCopied \/ Quiet
<1>1. CASE CopyServerToClient
  BY <1>1, ServerCall
<1>2. CASE CopyClientToServer
  BY <1>2, ClientCall
<1>3. CASE /\ pc \notin {"closed", "aborted"}
           /\ \/ ClientResponds \/ ClientOpens \/ ClientContinues \/ ClientMisbehaves
              \/ ServerGreets \/ ServerNotifies \/ ServerDecides \/ ServerContinues
  BY <1>3, ClientTalks, ServerTalks DEF Talks
<1>4. CASE \/ LoopTest \/ Poll \/ PollTimeout \/ PollFails \/ Finish
           \/ ClientCloses \/ ServerCloses \/ Disconnect \/ UNCHANGED vars
  BY <1>4, QuietSteps
<1>5. QED BY <1>1, <1>2, <1>3, <1>4 DEF Next, Run, Peers

(***************************************************************************)
(* The inductive invariant.                                                *)
(***************************************************************************)

\* The client may still be read from.
Listening == connection_is_ok \/ pc = "c2s"

\* The loop goes on only while nothing failed, and what failed is known.
Going ==
  /\ pc \in {"poll", "s2c"} => connection_is_ok
  /\ ~connection_is_ok /\ pc # "aborted" => why # ""

\* X: what the server may have said.  An error is its last word.
XServer == proto = "x" =>
  /\ cgot \cap {"ok", "more", "refused"} = {}
  /\ \A j \in DOMAIN sq : sq[j].kind \in {"notice", "err", "data"}
  /\ \A j \in DOMAIN sq : sq[j].kind = "err" => ~sopen

\* X: the message that opens the session is the first that the client sends, so
\* the router finds it at the front of what it reads, or not at all.
XClient == proto = "x" /\ Listening /\ ~handshake_done =>
  /\ csent = {} => cq = <<>>
  /\ \A j \in DOMAIN cq : cq[j].kind \in XOpening =>
       cq[1].kind \in XOpening /\ cq[1].part # "tail"
  /\ cq # <<>> /\ cq[1].kind \in XOpening /\ cq[1].part \in FirstParts =>
       /\ cq[1].part = "head"
       /\ Len(cq) > 1 => cq[2].kind \in XOpening /\ cq[2].part = "tail"
  /\ honest /\ csent # {} => cq # <<>> /\ cq[1].kind \in XOpening

\* X: the flag tells whether the server was asked to open the session, or refused.
XOpened == proto = "x" =>
  IF handshake_done THEN ~sopen \/ sgot \cap XOpening # {}
  ELSE "err" \notin cgot /\ sgot \cap XOpening = {}

\* Classic: the server talks first, then the client, once, then the server decides
\* or goes on with TLS; and no X message is about.
CTurns == proto = "classic" =>
  /\ sgot \cap XOpening = {} /\ \A j \in DOMAIN cq : cq[j].kind \notin XOpening
  /\ honest =>
       /\ csent \subseteq Responses \cup {"data"}
       /\ \A a, b \in csent \cap Responses : a = b
       /\ csent # {} => csent \cap Responses # {} /\ "greeting" \in cgot
       /\ sgot \subseteq csent \cup {"fake"}
       /\ \A j \in DOMAIN cq : cq[j].kind \in csent
       /\ cgot \subseteq ssent
       /\ \A j \in DOMAIN sq : sq[j].kind \in ssent
       /\ ssent \subseteq Verdicts \cup {"greeting", "refused", "data"}
       /\ ssent \cap Verdicts # {} => sgot \cap {"plain", "ff"} # {}
       /\ "data" \in ssent => "ssl" \in sgot
       /\ "refused" \in ssent => ~sopen

\* Classic, undecided: at most one packet of the server is under way, its end comes
\* last, and a verdict is there from its beginning; the greeting was read to its end
\* when the client has it.
CServer == proto = "classic" /\ honest /\ Und /\ connection_is_ok =>
  /\ \A i, j \in DOMAIN sq : sq[i].kind = sq[j].kind
  /\ \A j \in DOMAIN sq : sq[j].part \notin FirstParts => j = Len(sq)
  /\ \A j \in DOMAIN sq : sq[j].kind \in Verdicts => sq[1].nr = 2 /\ sq[1].part # "tail"
  /\ "greeting" \in cgot => \A j \in DOMAIN sq : sq[j].kind \in Verdicts \cup {"data"}

\* Classic: an answer that the client got was seen: its number is pktnr until the
\* next call, which sets the flag.
CVerdict == /\ proto = "classic" /\ honest
            /\ cgot \cap Verdicts # {} \/ ("refused" \in cgot /\ ~cut)
            => handshake_done \/ (pc = "c2s" /\ pktnr = 2)

\* Classic, nothing cut: what may be in the two queues.
WholeClient == proto = "classic" /\ honest /\ ~cut =>
  \A j \in DOMAIN cq : cq[j].part = "whole" /\ (cq[j].kind # "data" => cq[j].nr = 1)
WholeServer == proto = "classic" /\ honest /\ ~cut =>
  \A j \in DOMAIN sq : sq[j].part = "whole" /\ (sq[j].kind = "greeting" => sq[j].nr = 0)

\* Classic, nothing cut, undecided: the response is at the front of the client's
\* queue until it is forwarded, and one that decides has not been.
WholeQueue == proto = "classic" /\ honest /\ ~cut /\ Und /\ Listening =>
  /\ sgot \cap {"ssl", "ff"} = {}
  /\ cq # <<>> => cq[1].kind \in Responses
  /\ "plain" \in csent => csent = {"plain"} /\ Len(cq) <= 1
  /\ "plain" \in sgot => cq = <<>>
  /\ csent # {} /\ sgot \cap Responses = {} => cq # <<>>

\* Classic, nothing cut: number 2 is only seen once the server got a response, or
\* refused.
WholeDone == proto = "classic" /\ honest /\ ~cut /\ ~Und =>
  ~sopen \/ sgot \cap Responses # {}

\* Classic, nothing cut, undecided: pktnr is 1 only between the response and the
\* verdict.
WholeNumbers == proto = "classic" /\ honest /\ ~cut /\ Und /\ connection_is_ok =>
  pktnr = 0 \/ (pktnr = 1 /\ "plain" \in sgot)

\* How a connection ends.
Blame == blamed => pc = "closed" /\ ~handshake_done
Calmed == pc = "closed" /\ ~handshake_done /\ sopen => "fake" \in sgot

IInv ==
  /\ TypeOK /\ Going
  /\ XServer /\ XClient /\ XOpened
  /\ CTurns /\ CServer /\ CVerdict
  /\ WholeClient /\ WholeServer /\ WholeQueue /\ WholeDone /\ WholeNumbers
  /\ Blame /\ Calmed /\ HonestNotAborted

(***************************************************************************)
(* Types, the loop, and the X protocol.                                    *)
(***************************************************************************)

\* How a call ends: well, or with a reason, or not at all.
Reasons == {"gone", "write", "sequence", "content", "size"}
Ends == \/ Fine /\ pc' # "aborted"
        \/ Fails(Reasons) /\ pc' # "aborted"
        \/ pc' = "aborted" /\ ~connection_is_ok' /\ why' = why

LEMMA ClassicEnds ==
  ASSUME TypeOK, NEW q \in Seq(Packets), NEW readable, NEW q2, NEW got, NEW got2,
         NEW receiverOpen, NEW next, next # "aborted",
         ClassicCall(readable, q, q2, got, got2, receiverOpen, next)
  PROVE  Ends /\ handshake_done' \in BOOLEAN /\ pktnr' \in 0..3
<1> USE Flags
<1>1. CASE (Unread(readable, q, q2, got, got2) \/ Gone(readable, q, q2, got, got2)) /\ pc' = next
  <2>1. Ends
    BY <1>1 DEF Unread, Gone, Ends, Fails, Reasons
  <2>2. handshake_done' \in BOOLEAN /\ pktnr' \in {0, pktnr}
    BY <1>1 DEF Unread, Gone, Und
  <2>3. QED BY <2>1, <2>2
<1>2. CASE Passes(q, q2, got, got2) /\ pc' = next
  <2>1. Ends
    BY <1>2 DEF Passes, Ends, Fails, Reasons
  <2>2. handshake_done' \in BOOLEAN /\ pktnr' \in {0, pktnr}
    BY <1>2 DEF Passes
  <2>3. QED BY <2>1, <2>2
<1>3. CASE Inspects(readable, q, q2, got, got2, receiverOpen, next)
  <2>1. handshake_done' = FALSE
    BY <1>3 DEF Inspects
  <2>2. PICK n \in 1..Len(q), l \in UNION {ClassicLooks(q[1], b) : b \in BOOLEAN} :
          \/ Refuses(l, got, got2) /\ pc' = next
          \/ Throws(l, got, got2) /\ pc' = "aborted"
          \/ ForwardsError(q, n, l, got, got2, receiverOpen) /\ pc' = next
          \/ Forwards(q, n, l, got, got2) /\ pc' = next
    BY <1>3 DEF Inspects
  <2>3. Ends
    BY <2>2 DEF Refuses, Throws, ForwardsError, Forwards, Ends, Fails, Reasons
  <2>4. NumberAfter(l) \in 0..3
    <3>1. q[1] \in Packets
      OBVIOUS
    <3>2. PICK b \in BOOLEAN : l \in ClassicLooks(q[1], b)
      BY <2>2
    <3>3. l.nr \in 0..3
      BY <3>1, <3>2, LooksOf
    <3>4. QED BY <3>3 DEF NumberAfter
  <2>5. pktnr' \in {pktnr, 2, NumberAfter(l)}
    BY <2>2 DEF Refuses, Throws, ForwardsError, Forwards
  <2>6. pktnr \in 0..3 /\ 2 \in 0..3
    OBVIOUS
  <2>7. pktnr' \in 0..3
    BY ONLY <2>4, <2>5, <2>6
  <2>8. QED BY <2>1, <2>3, <2>7
<1>4. QED BY <1>1, <1>2, <1>3 DEF ClassicCall

LEMMA XEnds ==
  ASSUME TypeOK, NEW q \in Seq(Packets), NEW readable, NEW q2, NEW got, NEW got2,
         NEW receiverOpen, NEW fromServer, pc' # "aborted",
         XCall(readable, q, q2, got, got2, receiverOpen, fromServer)
  PROVE  Ends /\ handshake_done' \in BOOLEAN /\ pktnr' \in 0..3
<1>1. pktnr' \in 0..3 /\ handshake_done \in BOOLEAN
  BY Flags DEF XCall
<1>2. handshake_done' \in BOOLEAN
  BY <1>1 DEF XCall, Abandons, PassesOn, OpensSession, AnswersMessage
<1>3. Ends
  BY DEF XCall, Abandons, PassesOn, Delivers, Ends, Fails, Reasons
<1>4. QED BY <1>1, <1>2, <1>3

\* The same for the two directions of the loop.
LEMMA CopiedEnds ==
  ASSUME TypeOK, ServerCopied \/ ClientCopied
  PROVE  Ends /\ handshake_done' \in BOOLEAN /\ pktnr' \in 0..3
<1>0. sq \in Seq(Packets) /\ cq \in Seq(Packets) /\ proto \in {"classic", "x"}
  BY Flags
<1>1. CASE ServerCopied
  <2>1. proto = "classic" => ClassicCall(sr, sq, sq', cgot, cgot', copen, "c2s")
    BY <1>1 DEF ServerCopied
  <2>2. proto = "x" => pc' = "c2s" /\ XCall(sr, sq, sq', cgot, cgot', copen, TRUE)
    BY <1>1 DEF ServerCopied
  <2>3. QED BY <1>0, <2>1, <2>2, ClassicEnds, XEnds
<1>2. CASE ClientCopied
  <2>1. proto = "classic" => ClassicCall(cr, cq, cq', sgot, sgot', sopen, "loop")
    BY <1>2 DEF ClientCopied
  <2>2. proto = "x" => pc' = "loop" /\ XCall(cr, cq, cq', sgot, sgot', sopen, FALSE)
    BY <1>2 DEF ClientCopied
  <2>3. QED BY <1>0, <2>1, <2>2, ClassicEnds, XEnds
<1>3. QED BY <1>1, <1>2

\* Types.
LEMMA TypeStep ==
  ASSUME TypeOK, [Next]_vars
  PROVE  TypeOK'
<1> USE Flags
<1>1. ASSUME NEW n \in 0..3, NEW k \in Kinds, NEW ps \in Seq(Packets), ClientSays(n, k, ps)
      PROVE  TypeOK'
  BY <1>1 DEF ClientSays, Appended, TypeOK, loopVars
<1>2. ASSUME NEW n \in 0..3, NEW k \in Kinds, NEW ps \in Seq(Packets), ServerSays(n, k, ps)
      PROVE  TypeOK'
  BY <1>2 DEF ServerSays, Appended, TypeOK, loopVars
<1>3. ASSUME NEW q \in Seq(Packets), NEW q2, NEW got, NEW got2, got \subseteq Kinds,
             Takes(q, q2, got, got2)
      PROVE  got2 \subseteq Kinds
  <2>1. \A j \in DOMAIN q : q[j].kind \in Kinds
    BY MembersOf
  <2>2. QED BY <1>3, <2>1 DEF Takes
<1>4. ASSUME ServerCopied \/ ClientCopied
      PROVE  /\ handshake_done' \in BOOLEAN /\ pktnr' \in 0..3
             /\ why' \in {why} \cup Reasons
  BY <1>4, CopiedEnds DEF Ends, Fine, Fails
<1>5. why' \in {why} \cup Reasons =>
        why' \in {"", "timeout", "poll", "gone", "write", "sequence", "content", "size"}
  BY DEF TypeOK, Reasons
<1>6. CASE ServerCopied
  <2>1. sq' \in Seq(Packets) /\ cgot' \subseteq Kinds
    <3>1. Takes(sq, sq', cgot, cgot') /\ cgot \subseteq Kinds /\ sq \in Seq(Packets)
      BY <1>6 DEF ServerCopied
    <3>2. cgot' \subseteq Kinds
      BY <1>3, <3>1
    <3>3. QED BY <3>1, <3>2 DEF Takes
  <2>2. QED BY <1>4, <1>5, <1>6, <2>1 DEF ServerCopied, TypeOK
<1>7. CASE ClientCopied
  <2>1. cq' \in Seq(Packets) /\ sgot' \subseteq Kinds
    <3>1. Takes(cq, cq', sgot, sgot') /\ sgot \subseteq Kinds /\ cq \in Seq(Packets)
      BY <1>7 DEF ClientCopied
    <3>2. sgot' \subseteq Kinds
      BY <1>3, <3>1
    <3>3. QED BY <3>1, <3>2 DEF Takes
  <2>2. QED BY <1>4, <1>5, <1>7, <2>1 DEF ClientCopied, TypeOK
<1>8. CASE Quiet
  <2>1. "fake" \in Kinds
    BY DEF Kinds
  <2>2. sgot' \subseteq Kinds
    BY <1>8, <2>1 DEF Quiet
  <2>3. copen' \in BOOLEAN /\ sopen' \in BOOLEAN
    BY <1>8 DEF Quiet
  <2>4. pc' \in {"loop", "poll", "s2c", "c2s", "finish", "closed", "aborted"}
    BY <1>8 DEF Quiet, TypeOK
  <2>5. why' \in {"", "timeout", "poll", "gone", "write", "sequence", "content", "size"}
    BY <1>8 DEF Quiet, TypeOK
  <2>6. /\ proto' \in {"classic", "x"} /\ honest' \in BOOLEAN /\ cut' \in BOOLEAN
        /\ handshake_done' \in BOOLEAN /\ pktnr' \in 0..3
        /\ csent' \subseteq Kinds /\ ssent' \subseteq Kinds /\ cgot' \subseteq Kinds
        /\ cq' \in Seq(Packets) /\ sq' \in Seq(Packets)
        /\ {connection_is_ok', disconnect_', cr', sr', blamed'} \subseteq BOOLEAN
    BY <1>8 DEF Quiet
  <2>7. QED BY <2>2, <2>3, <2>4, <2>5, <2>6 DEF TypeOK
<1>9. QED BY <1>1, <1>2, <1>6, <1>7, <1>8, Steps DEF Talks

\* The loop.
LEMMA GoingStep ==
  ASSUME TypeOK, Going, [Next]_vars
  PROVE  Going'
<1> USE Flags
<1>1. CASE Talks
  BY <1>1 DEF Talks, ClientSays, ServerSays, loopVars, Going
<1>2. CASE ServerCopied \/ ClientCopied
  <2>1. pc' \notin {"poll", "s2c"} /\ Ends
    BY <1>2, CopiedEnds DEF ServerCopied, ClientCopied
  <2>2. connection_is_ok \/ why # "" \/ pc = "aborted"
    BY DEF Going
  <2>3. pc # "aborted"
    BY <1>2 DEF ServerCopied, ClientCopied
  <2>4. ~connection_is_ok' /\ pc' # "aborted" => why' # ""
    <3>1. CASE Fine
      BY <2>2, <2>3, <3>1 DEF Fine
    <3>2. CASE Fails(Reasons)
      BY <3>2 DEF Fails
    <3>3. QED BY <2>1, <3>1, <3>2 DEF Ends
  <2>5. QED BY <2>1, <2>4 DEF Going
<1>3. CASE Quiet
  <2>1. why' # "" \/ (UNCHANGED <<connection_is_ok, why>> /\ (pc' # "aborted" => pc # "aborted"))
    BY <1>3 DEF Quiet
  <2>2. pc' \in {"poll", "s2c"} => connection_is_ok'
    <3>1. CASE UNCHANGED <<connection_is_ok, why>>
      <4>1. pc' \in {"poll", "s2c"} => connection_is_ok
        BY <1>3 DEF Quiet, Going
      <4>2. QED BY <3>1, <4>1
    <3>2. CASE pc' \in {"loop", "finish"}
      BY <3>2
    <3>3. QED BY <1>3, <3>1, <3>2 DEF Quiet
  <2>3. QED BY <2>1, <2>2 DEF Going
<1>4. QED BY <1>1, <1>2, <1>3, Steps

\* Who may still be read from could be before.
LEMMA ListenedBefore ==
  ASSUME TypeOK, Going, [Next]_vars, Listening'
  PROVE  Listening
<1>1. CASE Talks
  BY <1>1 DEF Talks, ClientSays, ServerSays, loopVars, Listening
<1>2. CASE ServerCopied \/ ClientCopied
  BY <1>2 DEF ServerCopied, ClientCopied, Listening, Going
<1>3. CASE Quiet
  BY <1>3 DEF Quiet, Listening
<1>4. QED BY <1>1, <1>2, <1>3, Steps

\* X: the server.
LEMMA XServerStep ==
  ASSUME TypeOK, XServer, [Next]_vars
  PROVE  XServer'
<1> USE Flags
<1>0. {"notice", "err", "data"} \cap {"ok", "more", "refused"} = {} /\ "err" \in Errors
  BY DEF Errors
<1>1. ASSUME NEW n \in 0..3, NEW k \in Kinds, NEW ps \in Seq(Packets), ClientSays(n, k, ps)
      PROVE  XServer'
  BY <1>1 DEF ClientSays, XServer
<1>2. ASSUME NEW n \in 0..3, NEW k \in Kinds, NEW ps \in Seq(Packets), ServerSays(n, k, ps)
      PROVE  XServer'
  BY <1>0, <1>2 DEF ServerSays, Appended, Split, XServer
<1>3. CASE ServerCopied
  BY <1>0, <1>3 DEF ServerCopied, Takes, XServer
<1>4. CASE ClientCopied
  BY <1>4 DEF ClientCopied, XServer
<1>5. CASE Quiet
  BY <1>5 DEF Quiet, XServer
<1>6. QED BY <1>1, <1>2, <1>3, <1>4, <1>5, Steps DEF Talks

\* X, a call that leaves the handshake undone: the client's messages go nowhere, and
\* the call fails unless there were none ...
LEMMA XClientStill ==
  ASSUME NEW readable, NEW q \in Seq(Packets), NEW q2, NEW got, NEW got2, NEW ro,
         XCall(readable, q, q2, got, got2, ro, FALSE), ~handshake_done'
  PROVE  ~handshake_done /\ got2 = got /\ (connection_is_ok' => q2 = q)
<1>1. CASE ~readable /\ q2 = q /\ got2 = got /\ handshake_done' = handshake_done /\ Fine
  BY <1>1
<1>2. CASE Abandons(readable, q, q2, got, got2, FALSE)
  BY <1>2 DEF Abandons, Fails
<1>3. CASE PassesOn(q, q2, got, got2) \/ \E n \in 1..Len(q) : OpensSession(q, n)
  BY <1>3 DEF PassesOn, OpensSession
<1>4. QED BY <1>1, <1>2, <1>3 DEF XCall

\* ... and the server's are no error.
LEMMA XServerStill ==
  ASSUME NEW readable, NEW q \in Seq(Packets), NEW q2, NEW got, NEW got2, NEW ro,
         XCall(readable, q, q2, got, got2, ro, TRUE), ~handshake_done'
  PROVE  ~handshake_done /\ ("err" \in got2 => "err" \in got)
<1>1. CASE got2 = got /\ ~handshake_done
  BY <1>1
<1>2. CASE /\ ~handshake_done
           /\ \E n \in 1..Len(q) : Delivers(q, n, got, got2, ro) /\ AnswersMessage(q, n)
  <2>1. PICK n \in 1..Len(q) : Delivers(q, n, got, got2, ro) /\ AnswersMessage(q, n)
    BY <1>2
  <2>2. \A j \in 1..n : q[j].kind # "err"
    BY <2>1 DEF AnswersMessage
  <2>3. "err" \notin KindsOf(SubSeq(q, 1, n))
    BY <2>2, KindsForwarded
  <2>4. QED BY <1>2, <2>1, <2>3 DEF Delivers
<1>3. QED BY <1>1, <1>2 DEF XCall, Abandons, PassesOn

\* X: the client.
LEMMA XClientStep ==
  ASSUME TypeOK, Going, XServer, XClient, [Next]_vars
  PROVE  XClient'
<1> USE Flags
<1>0. SUFFICES ASSUME proto' = "x", Listening', ~handshake_done'
               PROVE  XClient'
  BY DEF XClient
<1>1. Listening
  BY <1>0, ListenedBefore
<1>2. ASSUME NEW n \in 0..3, NEW k \in Kinds, NEW ps \in Seq(Packets), ClientSays(n, k, ps)
      PROVE  XClient'
  <2>1. /\ csent' # {} /\ cq' # <<>> /\ "ok" \notin cgot /\ proto = "x" /\ ~handshake_done
        /\ UNCHANGED honest /\ ~Broken(cq) /\ cq' \in Seq(Packets) /\ cq \in Seq(Packets)
        /\ Appended(cq, ps, cq') /\ Split(n, k, ps)
    BY <1>0, <1>2 DEF ClientSays, Appended, XServer, loopVars
  <2>2. /\ csent = {} => cq = <<>>
        /\ \A j \in DOMAIN cq : cq[j].kind \in XOpening =>
             cq[1].kind \in XOpening /\ cq[1].part # "tail"
        /\ cq # <<>> /\ cq[1].kind \in XOpening /\ cq[1].part \in FirstParts =>
             /\ cq[1].part = "head"
             /\ Len(cq) > 1 => cq[2].kind \in XOpening /\ cq[2].part = "tail"
        /\ honest /\ csent # {} => cq # <<>> /\ cq[1].kind \in XOpening
    BY <1>1, <2>1 DEF XClient
  <2>3. CASE csent = {} /\ k \in XOpening
    <3>1. /\ cq = <<>> /\ cq' = ps /\ ps[1].kind \in XOpening
          /\ ps[1].part \in {"whole", "head", "big"}
          /\ Len(ps) \in {1, 2} /\ (Len(ps) = 2 => ps[2].kind \in XOpening /\ ps[2].part = "tail")
      BY <2>1, <2>2, <2>3 DEF Appended, Split
    <3>2. QED BY <2>1, <3>1 DEF XClient, FirstParts
  <2>4. CASE k \in {"data"} \cup XWrong /\ Len(ps) = 1 /\ (honest => csent # {})
    <3>1. k \notin XOpening /\ ps[1].kind = k
      BY <2>1, <2>4 DEF XOpening, XWrong, Split
    <3>2. \A j \in DOMAIN cq' : cq'[j].kind \in XOpening => j \in DOMAIN cq /\ cq'[j] = cq[j]
      BY <2>1, <2>4, <3>1 DEF Appended
    <3>3. \A j \in DOMAIN cq : cq # <<>>
      OBVIOUS
    <3>4. cq # <<>> => cq'[1] = cq[1]
      BY <2>1 DEF Appended
    <3>5. cq # <<>> /\ cq[1].part = "head" => Len(cq) > 1
      <4>1. cq # <<>> => Len(cq) >= 1 /\ Len(cq) \in Nat
        OBVIOUS
      <4>2. QED BY <2>1, <4>1 DEF Broken
    <3>6. Len(cq) > 1 => cq'[2] = cq[2]
      <4>1. Len(cq) > 1 => 2 \in DOMAIN cq' /\ 2 # Len(cq) + 1
        BY <2>1, <2>4 DEF Appended
      <4>2. QED BY <2>1, <2>4, <4>1 DEF Appended
    <3>7. cq = <<>> => cq'[1].kind \notin XOpening
      BY <2>1, <3>1 DEF Appended
    <3>8. QED BY <2>1, <2>2, <2>4, <3>2, <3>3, <3>4, <3>5, <3>6, <3>7 DEF XClient
  <2>5. QED BY <1>2, <2>1, <2>3, <2>4 DEF ClientSays
<1>3. ASSUME NEW n \in 0..3, NEW k \in Kinds, NEW ps \in Seq(Packets), ServerSays(n, k, ps)
      PROVE  XClient'
  BY <1>0, <1>1, <1>3 DEF ServerSays, XClient, loopVars
<1>4. CASE ServerCopied
  <2>1. ~handshake_done
    <3>1. XCall(sr, sq, sq', cgot, cgot', copen, TRUE)
      BY <1>0, <1>4 DEF ServerCopied
    <3>2. QED BY <1>0, <3>1, XServerStill
  <2>2. QED BY <1>0, <1>1, <1>4, <2>1 DEF ServerCopied, XClient
<1>5. CASE ClientCopied
  <2>1. XCall(cr, cq, cq', sgot, sgot', sopen, FALSE) /\ pc' = "loop"
        /\ UNCHANGED <<proto, honest, csent>>
    BY <1>0, <1>5 DEF ClientCopied
  <2>2. connection_is_ok'
    BY <1>0, <2>1 DEF Listening
  <2>3. ~handshake_done /\ cq' = cq
    <3>1. cq \in Seq(Packets) /\ ~handshake_done'
      BY <1>0
    <3>2. XCall(cr, cq, cq', sgot, sgot', sopen, FALSE)
      BY <2>1
    <3>3. QED BY ONLY <2>2, <3>1, <3>2, XClientStill, Zenon
  <2>4. QED BY <1>0, <1>1, <2>1, <2>3 DEF XClient
<1>6. CASE Quiet
  BY <1>0, <1>1, <1>6 DEF Quiet, XClient
<1>7. QED BY <1>2, <1>3, <1>4, <1>5, <1>6, Steps DEF Talks

\* X: the flag.
LEMMA XOpenedStep ==
  ASSUME TypeOK, XServer, XClient, XOpened, [Next]_vars
  PROVE  XOpened'
<1> USE Flags
<1>1. ASSUME NEW n \in 0..3, NEW k \in Kinds, NEW ps \in Seq(Packets), ClientSays(n, k, ps)
      PROVE  XOpened'
  BY <1>1 DEF ClientSays, XOpened, loopVars
<1>2. ASSUME NEW n \in 0..3, NEW k \in Kinds, NEW ps \in Seq(Packets), ServerSays(n, k, ps)
      PROVE  XOpened'
  BY <1>2 DEF ServerSays, XOpened, loopVars
<1>3. CASE ServerCopied
  <2> SUFFICES ASSUME proto = "x" PROVE XOpened'
    BY <1>3 DEF ServerCopied, XOpened
  <2>1. XCall(sr, sq, sq', cgot, cgot', copen, TRUE) /\ UNCHANGED <<proto, sopen, sgot>>
    BY <1>3 DEF ServerCopied
  <2>2. ~handshake_done' => ~handshake_done /\ "err" \notin cgot'
    <3> SUFFICES ASSUME ~handshake_done' PROVE ~handshake_done /\ "err" \notin cgot'
      OBVIOUS
    <3>1. XCall(sr, sq, sq', cgot, cgot', copen, TRUE)
      BY <2>1
    <3>2. ~handshake_done /\ ("err" \in cgot' => "err" \in cgot)
      BY <3>1, XServerStill
    <3>3. QED BY <3>2 DEF XOpened
  <2>3. ASSUME handshake_done', ~handshake_done PROVE ~sopen
    <3>1. PICK n \in 1..Len(sq) : AnswersMessage(sq, n)
      BY <2>1, <2>3 DEF XCall, Abandons, PassesOn
    <3>2. PICK j \in 1..n : sq[j].kind = "err"
      BY <2>3, <3>1 DEF AnswersMessage
    <3>3. j \in DOMAIN sq
      OBVIOUS
    <3>4. QED BY <3>2, <3>3 DEF XServer
  <2>4. QED BY <2>1, <2>2, <2>3 DEF XOpened
<1>4. CASE ClientCopied
  <2> SUFFICES ASSUME proto = "x" PROVE XOpened'
    BY <1>4 DEF ClientCopied, XOpened
  <2>1. /\ XCall(cr, cq, cq', sgot, sgot', sopen, FALSE)
        /\ UNCHANGED <<proto, sopen, cgot>> /\ sgot \subseteq sgot' /\ Listening
    BY <1>4 DEF ClientCopied, Takes, Listening
  <2>2. ~handshake_done' => ~handshake_done /\ sgot' = sgot
    <3> SUFFICES ASSUME ~handshake_done' PROVE ~handshake_done /\ sgot' = sgot
      OBVIOUS
    <3>1. XCall(cr, cq, cq', sgot, sgot', sopen, FALSE)
      BY <2>1
    <3>2. cq \in Seq(Packets)
      OBVIOUS
    <3>3. QED BY ONLY <3>1, <3>2, ~handshake_done', XClientStill, Zenon
  <2>3. ASSUME handshake_done', ~handshake_done, sopen
        PROVE  sgot' \cap XOpening # {}
    <3>1. PICK n \in 1..Len(cq) : OpensSession(cq, n) /\ Delivers(cq, n, sgot, sgot', sopen)
      BY <2>1, <2>3 DEF XCall, Abandons, PassesOn
    <3>2. 1 \in 1..n /\ 1 \in DOMAIN cq /\ cq # <<>> /\ n \in Nat /\ n <= Len(cq) /\ Len(cq) \in Nat
      OBVIOUS
    <3>3. sgot' = sgot \cup KindsOf(SubSeq(cq, 1, n))
      BY <2>3, <3>1 DEF Delivers
    <3>4. cq[1].kind \in XOpening /\ (cq[1].part = "head" => n >= 2)
      BY <3>1 DEF OpensSession
    <3>5. CASE cq[1].part \notin FirstParts
      <4>1. cq[1].kind \in KindsOf(SubSeq(cq, 1, n))
        BY <3>2, <3>5, KindsForwarded
      <4>2. QED BY <3>3, <3>4, <4>1
    <3>6. CASE cq[1].part \in FirstParts
      <4>1. cq[1].part = "head" /\ (Len(cq) > 1 => cq[2].kind \in XOpening /\ cq[2].part = "tail")
        BY <2>1, <2>3, <3>2, <3>4, <3>6 DEF XClient
      <4>2. 2 \in 1..n /\ 2 \in DOMAIN cq /\ Len(cq) > 1
        BY <3>2, <3>4, <4>1
      <4>3. cq[2].kind \in XOpening /\ cq[2].part \notin FirstParts
        BY <4>1, <4>2 DEF FirstParts
      <4>4. cq[2].kind \in KindsOf(SubSeq(cq, 1, n))
        BY <4>2, <4>3, KindsForwarded
      <4>5. QED BY <3>3, <4>3, <4>4
    <3>7. QED BY <3>5, <3>6
  <2>4. QED BY <2>1, <2>2, <2>3 DEF XOpened
<1>5. CASE Quiet
  <2>1. "fake" \notin XOpening
    BY DEF XOpening
  <2>2. sgot' \cap XOpening = sgot \cap XOpening
    BY <1>5, <2>1 DEF Quiet
  <2>3. UNCHANGED <<proto, cgot, handshake_done>>
    BY <1>5 DEF Quiet
  <2>4. ~sopen => ~sopen'
    BY <1>5 DEF Quiet
  <2>5. QED BY <2>2, <2>3, <2>4 DEF XOpened
<1>6. QED BY <1>1, <1>2, <1>3, <1>4, <1>5, Steps DEF Talks

(***************************************************************************)
(* The classic protocol.  Once a call has seen number 2 the next sets the  *)
(* flag, so only the steps that leave the connection undecided count.      *)
(***************************************************************************)

\* What the first packet p of a read was taken for.
Seen(p, l) ==
  /\ l.nr \in 0..3
  /\ p.part # "tail" /\ p.kind # "data" => l.nr = p.nr
  /\ p.part = "whole" /\ p.kind # "data" =>
       /\ p.kind = "ff" => l.kind \in {"err", "throws"}
       /\ p.kind = "refused" => l.kind = "err"
       /\ p.kind \notin {"ff", "refused"} => l.kind = p.kind

\* A call that reads n packets of q and forwards them, and the number it sees is not 2.
Moves(q, q2, got, got2, n, l) ==
  /\ q2 = SubSeq(q, n + 1, Len(q)) /\ got2 = got \cup KindsOf(SubSeq(q, 1, n))
  /\ Seen(q[1], l) /\ l.kind \notin {"err", "throws"}
  /\ pktnr' = NumberAfter(l) /\ NumberAfter(l) # 2

StaysUnd(readable, q, q2, got, got2) ==
  \/ ~readable /\ q2 = q /\ got2 = got /\ pktnr' = 0
  \/ readable /\ \E n \in 1..Len(q) : \E l : Moves(q, q2, got, got2, n, l)

LEMMA FirstSeen ==
  ASSUME NEW q \in Seq(Packets), NEW n \in 1..Len(q),
         NEW l \in UNION {ClassicLooks(q[1], b) : b \in BOOLEAN}
  PROVE  1 \in DOMAIN q /\ 1 \in 1..n /\ q # <<>> /\ Seen(q[1], l)
<1>1. q[1] \in Packets /\ 1 \in DOMAIN q /\ 1 \in 1..n /\ q # <<>>
  OBVIOUS
<1>2. PICK b \in BOOLEAN : l \in ClassicLooks(q[1], b)
  OBVIOUS
<1>3. QED BY <1>1, <1>2, LooksOf DEF Seen

\* A connection that is undecided after a call was so before, and if the call did
\* not fail then either nothing was read or it was passed on ...
LEMMA UndBefore ==
  ASSUME TypeOK, NEW readable, NEW q \in Seq(Packets), NEW q2, NEW got, NEW got2, NEW ro, NEW next,
         ClassicCall(readable, q, q2, got, got2, ro, next), Und'
  PROVE  /\ Und
         /\ connection_is_ok' => connection_is_ok /\ StaysUnd(readable, q, q2, got, got2)
<1>0. handshake_done' # TRUE /\ pktnr' # 2 /\ connection_is_ok \in BOOLEAN
  BY Flags DEF Und
<1>1. CASE Unread(readable, q, q2, got, got2)
  BY <1>0, <1>1 DEF Unread, StaysUnd, Fine, Und
<1>2. CASE Gone(readable, q, q2, got, got2)
  BY <1>0, <1>2 DEF Gone, Fails, Und
<1>3. CASE Passes(q, q2, got, got2)
  BY <1>0, <1>3 DEF Passes
<1>4. CASE Inspects(readable, q, q2, got, got2, ro, next)
  <2>1. PICK n \in 1..Len(q), l \in UNION {ClassicLooks(q[1], b) : b \in BOOLEAN} :
          /\ q2 = SubSeq(q, n + 1, Len(q))
          /\ \/ Refuses(l, got, got2)
             \/ Throws(l, got, got2)
             \/ ForwardsError(q, n, l, got, got2, ro)
             \/ Forwards(q, n, l, got, got2)
    BY <1>4 DEF Inspects
  <2>2. Und /\ readable
    BY <1>4 DEF Inspects
  <2>3. CASE Refuses(l, got, got2) \/ Throws(l, got, got2)
    BY <2>2, <2>3 DEF Refuses, Throws, Fails
  <2>4. CASE ForwardsError(q, n, l, got, got2, ro)
    BY <1>0, <2>4 DEF ForwardsError
  <2>5. CASE Forwards(q, n, l, got, got2)
    <3>1. Seen(q[1], l)
      BY FirstSeen
    <3>2. Moves(q, q2, got, got2, n, l) /\ connection_is_ok' = connection_is_ok
      BY <1>0, <2>1, <2>5, <3>1 DEF Forwards, Moves, Fine
    <3>3. QED BY <2>2, <3>2 DEF StaysUnd
  <2>6. QED BY <2>1, <2>3, <2>4, <2>5
<1>5. QED BY <1>1, <1>2, <1>3, <1>4 DEF ClassicCall

\* ... and one that was decided has its flag set by the call.
LEMMA Decided ==
  ASSUME NEW readable, NEW q, NEW q2, NEW got, NEW got2, NEW ro, NEW next,
         ClassicCall(readable, q, q2, got, got2, ro, next), ~Und
  PROVE  handshake_done'
BY DEF ClassicCall, Unread, Gone, Passes, Inspects

\* A call that sees number 2, or an error, passes something on.
LEMMA Decides ==
  ASSUME TypeOK, NEW readable, NEW q \in Seq(Packets), NEW q2, NEW got, NEW got2, NEW ro, NEW next,
         ClassicCall(readable, q, q2, got, got2, ro, next), Und, ~Und'
  PROVE  \E n \in 1..Len(q) : \E l :
           /\ Seen(q[1], l)
           /\ l.kind = "err" \/ NumberAfter(l) = 2
           /\ got2 = got \cup KindsOf(SubSeq(q, 1, n)) \/ (~ro /\ l.kind = "err")
<1>0. pktnr # 2 /\ (handshake_done' \/ pktnr' = 2) /\ Und = TRUE
  BY DEF Und
<1>1. CASE \/ Unread(readable, q, q2, got, got2) \/ Gone(readable, q, q2, got, got2)
           \/ Passes(q, q2, got, got2)
  <2>1. CASE Unread(readable, q, q2, got, got2)
    <3>1. handshake_done' = ~Und /\ pktnr' = 0
      BY <2>1 DEF Unread
    <3>2. pktnr' = 2
      BY ONLY <1>0, <3>1, Zenon
    <3>3. QED BY <3>1, <3>2
  <2>2. CASE Gone(readable, q, q2, got, got2)
    BY <1>0, <2>2 DEF Gone
  <2>3. CASE Passes(q, q2, got, got2)
    BY <2>3 DEF Passes
  <2>4. QED BY <1>1, <2>1, <2>2, <2>3
<1>2. CASE Inspects(readable, q, q2, got, got2, ro, next)
  <2>1. PICK n \in 1..Len(q), l \in UNION {ClassicLooks(q[1], b) : b \in BOOLEAN} :
          \/ Refuses(l, got, got2)
          \/ Throws(l, got, got2)
          \/ ForwardsError(q, n, l, got, got2, ro)
          \/ Forwards(q, n, l, got, got2)
    BY <1>2 DEF Inspects
  <2>2. pktnr' = 2
    BY <1>0, <1>2 DEF Inspects
  <2>3. Seen(q[1], l)
    BY FirstSeen
  <2>4. CASE Refuses(l, got, got2) \/ Throws(l, got, got2)
    BY <1>0, <2>2, <2>4 DEF Refuses, Throws
  <2>5. CASE ForwardsError(q, n, l, got, got2, ro) \/ Forwards(q, n, l, got, got2)
    BY <2>2, <2>3, <2>5 DEF ForwardsError, Forwards
  <2>6. QED BY <2>1, <2>4, <2>5
<1>3. QED BY <1>1, <1>2 DEF ClassicCall

\* The same for the two directions of the loop.
LEMMA ServerUnd ==
  ASSUME TypeOK, ServerCopied, proto = "classic", Und'
  PROVE  Und /\ (connection_is_ok' => connection_is_ok /\ StaysUnd(sr, sq, sq', cgot, cgot'))
<1>1. ClassicCall(sr, sq, sq', cgot, cgot', copen, "c2s") /\ sq \in Seq(Packets)
  BY Flags DEF ServerCopied
<1>2. QED BY <1>1, UndBefore

LEMMA ClientUnd ==
  ASSUME TypeOK, ClientCopied, proto = "classic", Und'
  PROVE  Und /\ (connection_is_ok' => connection_is_ok /\ StaysUnd(cr, cq, cq', sgot, sgot'))
<1>1. ClassicCall(cr, cq, cq', sgot, sgot', sopen, "loop") /\ cq \in Seq(Packets)
  BY Flags DEF ClientCopied
<1>2. QED BY <1>1, UndBefore

LEMMA CopiedDecided ==
  ASSUME ServerCopied \/ ClientCopied, proto = "classic", ~Und
  PROVE  handshake_done'
BY Decided DEF ServerCopied, ClientCopied

\* Classic: the turns are kept.
LEMMA CTurnsStep ==
  ASSUME TypeOK, CTurns, [Next]_vars
  PROVE  CTurns'
<1> USE Flags
<1>0. /\ (Responses \cup {"data", "malformed", "fake"}) \cap XOpening = {}
      /\ {"plain", "ssl", "ff"} = Responses /\ Verdicts = {"ok", "more", "err"}
      /\ Errors = {"refused", "err"}
  BY DEF XOpening, Responses, Verdicts, Errors
<1>1. ASSUME NEW n \in 0..3, NEW k \in Kinds, NEW ps \in Seq(Packets), ClientSays(n, k, ps)
      PROVE  CTurns'
  <2> SUFFICES ASSUME proto = "classic" PROVE CTurns'
    BY <1>1 DEF ClientSays, CTurns
  <2>1. csent' = csent \cup {k} /\ UNCHANGED <<proto, honest, cgot, sgot, sq, ssent, sopen>>
    BY <1>1 DEF ClientSays
  <2>2. \A j \in DOMAIN cq' : cq'[j].kind = k \/ (j \in DOMAIN cq /\ cq'[j] = cq[j])
    BY <1>1 DEF ClientSays, Appended, Split
  <2>3. k \notin XOpening
    BY <1>0, <1>1 DEF ClientSays
  <2>4. sgot' \cap XOpening = {} /\ \A j \in DOMAIN cq' : cq'[j].kind \notin XOpening
    BY <2>1, <2>2, <2>3 DEF CTurns
  <2>5. ASSUME honest
        PROVE  \/ k \in Responses /\ csent = {} /\ "greeting" \in cgot
               \/ k = "data" /\ csent # {}
    <3>1. \/ k \in Responses /\ csent = {} /\ "greeting" \in cgot
          \/ k = "data" /\ ("ok" \in cgot \/ csent \cap ({"ssl"} \cup XOpening) # {})
      BY <1>1, <2>5 DEF ClientSays
    <3>2. "ok" \in cgot => csent # {}
      BY <1>0, <2>5 DEF CTurns
    <3>3. QED BY <3>1, <3>2
  <2>6. ASSUME honest
        PROVE  /\ csent' \subseteq Responses \cup {"data"}
               /\ \A a, b \in csent' \cap Responses : a = b
               /\ csent' \cap Responses # {} /\ "greeting" \in cgot'
    <3>1. CASE k \in Responses /\ csent = {} /\ "greeting" \in cgot
      BY <2>1, <3>1
    <3>2. CASE k = "data" /\ csent # {}
      BY <1>0, <2>1, <2>6, <3>2 DEF CTurns
    <3>3. QED BY <2>5, <2>6, <3>1, <3>2
  <2>7. honest => /\ sgot' \subseteq csent' \cup {"fake"}
                  /\ \A j \in DOMAIN cq' : cq'[j].kind \in csent'
    BY <2>1, <2>2 DEF CTurns
  <2>8. QED BY <2>1, <2>4, <2>6, <2>7 DEF CTurns
<1>2. ASSUME NEW n \in 0..3, NEW k \in Kinds, NEW ps \in Seq(Packets), ServerSays(n, k, ps)
      PROVE  CTurns'
  <2> SUFFICES ASSUME proto = "classic" PROVE CTurns'
    BY <1>2 DEF ServerSays, CTurns
  <2>1. /\ ssent' = ssent \cup {k} /\ UNCHANGED <<proto, honest, csent, cgot, sgot, cq>>
        /\ sopen /\ sopen' = (k \notin Errors)
    BY <1>2 DEF ServerSays
  <2>2. \A j \in DOMAIN sq' : sq'[j].kind = k \/ (j \in DOMAIN sq /\ sq'[j] = sq[j])
    BY <1>2 DEF ServerSays, Appended, Split
  <2>3. \/ k \in {"greeting", "refused"}
        \/ k \in Verdicts /\ sgot \cap {"plain", "ff"} # {}
        \/ k = "data" /\ sgot \cap ({"ssl"} \cup XOpening) # {}
    BY <1>2 DEF ServerSays
  <2>4. "data" = k => "ssl" \in sgot
    BY <1>0, <2>3 DEF CTurns
  <2>5. QED BY <1>0, <2>1, <2>2, <2>3, <2>4 DEF CTurns
<1>3. CASE ServerCopied
  BY <1>3 DEF ServerCopied, Takes, CTurns
<1>4. CASE ClientCopied
  BY <1>4 DEF ClientCopied, Takes, CTurns
<1>5. CASE Quiet
  BY <1>0, <1>5 DEF Quiet, CTurns
<1>6. QED BY <1>1, <1>2, <1>3, <1>4, <1>5, Steps DEF Talks

\* Undecided, the server sends a packet only when nothing of it is under way.
LEMMA ServerAlone ==
  ASSUME TypeOK, CTurns, CServer, proto = "classic", honest, Und, connection_is_ok,
         NEW n \in 0..3, NEW k \in Kinds, NEW ps \in Seq(Packets), ServerSays(n, k, ps)
  PROVE  /\ sq' = ps
         /\ k \in Verdicts => n = 2
         /\ "greeting" \in cgot => k \in Verdicts \cup {"data"}
<1> USE Flags
<1>0. /\ {"plain", "ssl", "ff"} = Responses /\ Verdicts = {"ok", "more", "err"}
      /\ sgot \cap XOpening = {}
  BY DEF XOpening, Responses, Verdicts, CTurns
<1>1. /\ csent \subseteq Responses \cup {"data"}
      /\ \A a, b \in csent \cap Responses : a = b
      /\ csent # {} => "greeting" \in cgot
      /\ sgot \subseteq csent \cup {"fake"} /\ cgot \subseteq ssent
      /\ \A j \in DOMAIN sq : sq[j].kind \in ssent
      /\ ssent \cap Verdicts # {} => sgot \cap {"plain", "ff"} # {}
      /\ "data" \in ssent => "ssl" \in sgot
  BY DEF CTurns
<1>2. "greeting" \in cgot => \A j \in DOMAIN sq : sq[j].kind \in Verdicts \cup {"data"}
  BY DEF CServer
<1>3. ~("ssl" \in sgot /\ sgot \cap {"plain", "ff"} # {})
  BY <1>0, <1>1
<1>4. DOMAIN sq = {}
  <2>1. CASE ssent = {}
    BY <1>1, <2>1
  <2>2. CASE sgot \cap {"plain", "ff"} # {} /\ ssent \cap Verdicts = {}
    <3>1. "greeting" \in cgot /\ "data" \notin ssent
      BY <1>0, <1>1, <1>3, <2>2
    <3>2. QED BY <1>1, <1>2, <2>2, <3>1
  <2>3. CASE sgot \cap ({"ssl"} \cup XOpening) # {} /\ "data" \notin ssent
    <3>1. "ssl" \in sgot
      BY <1>0, <2>3
    <3>2. "greeting" \in cgot /\ ssent \cap Verdicts = {}
      BY <1>0, <1>1, <1>3, <3>1
    <3>3. QED BY <1>1, <1>2, <2>3, <3>2
  <2>4. QED BY <2>1, <2>2, <2>3 DEF ServerSays
<1>5. sq = <<>>
  BY <1>4, MembersOf
<1>6. sq' = ps
  BY <1>5 DEF ServerSays, Appended
<1>7. k \in Verdicts => n = 2
  BY <1>0 DEF ServerSays
<1>8. "greeting" \in cgot => k \in Verdicts \cup {"data"}
  BY <1>1 DEF ServerSays
<1>9. QED BY <1>6, <1>7, <1>8

\* What is read while the connection stays undecided is no verdict.
LEMMA NoVerdictMoved ==
  ASSUME TypeOK, CServer, proto = "classic", honest, Und, connection_is_ok,
         NEW n \in 1..Len(sq), NEW l, Moves(sq, sq', cgot, cgot', n, l)
  PROVE  \A j \in DOMAIN sq : sq[j].kind \notin Verdicts
<1> SUFFICES ASSUME NEW j \in DOMAIN sq, sq[j].kind \in Verdicts PROVE FALSE
  OBVIOUS
<1>1. 1 \in DOMAIN sq
  BY Flags
<1>2. sq[1].kind \in Verdicts /\ sq[1].nr = 2 /\ sq[1].part # "tail"
  BY <1>1 DEF CServer
<1>3. l.nr = 2
  BY <1>2 DEF Moves, Seen, Verdicts
<1>4. QED BY <1>3 DEF Moves, NumberAfter

\* Classic, undecided: the server's queue.
LEMMA CServerStep ==
  ASSUME TypeOK, CTurns, CServer, [Next]_vars
  PROVE  CServer'
<1> USE Flags
<1>0. SUFFICES ASSUME proto' = "classic", honest', Und', connection_is_ok'
               PROVE  CServer'
  BY DEF CServer
<1>1. ASSUME NEW n \in 0..3, NEW k \in Kinds, NEW ps \in Seq(Packets), ClientSays(n, k, ps)
      PROVE  CServer'
  BY <1>0, <1>1 DEF ClientSays, CServer, loopVars, Und
<1>2. ASSUME NEW n \in 0..3, NEW k \in Kinds, NEW ps \in Seq(Packets), ServerSays(n, k, ps)
      PROVE  CServer'
  <2>1. proto = "classic" /\ honest /\ Und /\ connection_is_ok /\ cgot' = cgot
    BY <1>0, <1>2 DEF ServerSays, loopVars, Und
  <2>2. /\ sq' = ps /\ (k \in Verdicts => n = 2)
        /\ "greeting" \in cgot => k \in Verdicts \cup {"data"}
    BY <1>2, <2>1, ServerAlone
  <2>3. /\ Len(ps) \in {1, 2} /\ ps[1].kind = k /\ ps[1].nr = n /\ ps[1].part # "tail"
        /\ Len(ps) = 2 => ps[1].part \in FirstParts /\ ps[2].kind = k
    BY <1>2 DEF ServerSays, Split
  <2>4. DOMAIN ps = 1..Len(ps) /\ \A j \in DOMAIN ps : j = 1 \/ (Len(ps) = 2 /\ j = 2)
    BY <2>3
  <2>5. \A j \in DOMAIN ps : ps[j].kind = k
    BY <2>3, <2>4
  <2>6. \A j \in DOMAIN ps : ps[j].part \notin FirstParts => j = Len(ps)
    BY <2>3, <2>4
  <2>7. QED BY <2>1, <2>2, <2>3, <2>5, <2>6 DEF CServer
<1>3. CASE ServerCopied
  <2>1. proto = "classic" /\ honest
    BY <1>0, <1>3 DEF ServerCopied
  <2>2. Und /\ connection_is_ok /\ StaysUnd(sr, sq, sq', cgot, cgot')
    BY <1>0, <1>3, <2>1, ServerUnd
  <2>3. CASE sq' = sq /\ cgot' = cgot
    BY <2>1, <2>2, <2>3 DEF CServer
  <2>4. CASE \E n \in 1..Len(sq) : \E l : Moves(sq, sq', cgot, cgot', n, l)
    <3>0. PICK n \in 1..Len(sq) : \E l : Moves(sq, sq', cgot, cgot', n, l)
      BY <2>4
    <3>1. PICK l : Moves(sq, sq', cgot, cgot', n, l)
      BY <3>0
    <3>2. sq' = SubSeq(sq, n + 1, Len(sq)) /\ cgot' = cgot \cup KindsOf(SubSeq(sq, 1, n))
      BY <3>1 DEF Moves
    <3>3. /\ sq' \in Seq(Packets) /\ Len(sq') = Len(sq) - n
          /\ DOMAIN sq' = 1..(Len(sq) - n)
          /\ \A j \in DOMAIN sq' : j + n \in DOMAIN sq /\ sq'[j] = sq[j + n]
      BY <3>2, RestOf
    <3>4. \A j \in DOMAIN sq : sq[j].kind \notin Verdicts
      BY <2>1, <2>2, <3>1, NoVerdictMoved
    <3>5. \A i, j \in DOMAIN sq' : sq'[i].kind = sq'[j].kind
      BY <2>1, <2>2, <3>3 DEF CServer
    <3>6. \A j \in DOMAIN sq' : sq'[j].part \notin FirstParts => j = Len(sq')
      <4> SUFFICES ASSUME NEW j \in DOMAIN sq', sq'[j].part \notin FirstParts
                   PROVE  j = Len(sq')
        OBVIOUS
      <4>1. j + n \in DOMAIN sq /\ sq[j + n].part \notin FirstParts
        BY <3>3
      <4>2. j + n = Len(sq)
        BY <2>1, <2>2, <4>1 DEF CServer
      <4>3. j \in Nat /\ n \in Nat /\ Len(sq) \in Nat
        BY <3>3
      <4>4. QED BY <3>3, <4>2, <4>3
    <3>7. \A j \in DOMAIN sq' : sq'[j].kind \notin Verdicts
      BY <3>3, <3>4
    <3>8. "greeting" \in cgot' => \A j \in DOMAIN sq' : sq'[j].kind \in Verdicts \cup {"data"}
      <4>1. CASE "greeting" \in cgot
        BY <2>1, <2>2, <3>3, <4>1 DEF CServer
      <4>2. CASE "greeting" \in KindsOf(SubSeq(sq, 1, n))
        <5>1. PICK j \in 1..n : j \in DOMAIN sq /\ sq[j].part \notin FirstParts
          BY <4>2, KindsForwarded
        <5>2. j = Len(sq)
          BY <2>1, <2>2, <5>1 DEF CServer
        <5>3. Len(sq) - n = 0
          BY <5>2
        <5>4. QED BY <3>3, <5>3
      <4>3. QED BY <3>2, <4>1, <4>2
    <3>9. QED BY <3>5, <3>6, <3>7, <3>8 DEF CServer
  <2>5. QED BY <2>2, <2>3, <2>4 DEF StaysUnd
<1>4. CASE ClientCopied
  <2>1. proto = "classic" /\ honest /\ UNCHANGED <<sq, cgot>>
    BY <1>0, <1>4 DEF ClientCopied
  <2>2. Und /\ connection_is_ok
    BY <1>0, <1>4, <2>1, ClientUnd
  <2>3. QED BY <2>1, <2>2 DEF CServer
<1>5. CASE Quiet
  BY <1>0, <1>5 DEF Quiet, CServer, Und
<1>6. QED BY <1>1, <1>2, <1>3, <1>4, <1>5, Steps DEF Talks

\* Classic, nothing cut: the queues.
LEMMA WholeClientStep ==
  ASSUME TypeOK, WholeClient, [Next]_vars
  PROVE  WholeClient'
<1> USE Flags
<1>0. SUFFICES ASSUME proto' = "classic", honest', ~cut'
               PROVE  WholeClient'
  BY DEF WholeClient
<1>1. ASSUME NEW n \in 0..3, NEW k \in Kinds, NEW ps \in Seq(Packets), ClientSays(n, k, ps)
      PROVE  WholeClient'
  <2>1. /\ proto = "classic" /\ honest /\ ~cut /\ Len(ps) = 1
        /\ Appended(cq, ps, cq') /\ Split(n, k, ps)
    BY <1>0, <1>1 DEF ClientSays, Split
  <2>2. k # "data" => n = 1
    BY <1>1, <2>1 DEF ClientSays
  <2>3. ps[1].part = "whole" /\ ps[1].kind = k /\ ps[1].nr = n
    BY <2>1 DEF Split
  <2>4. QED BY <2>1, <2>2, <2>3 DEF Appended, WholeClient
<1>2. ASSUME NEW n \in 0..3, NEW k \in Kinds, NEW ps \in Seq(Packets), ServerSays(n, k, ps)
      PROVE  WholeClient'
  BY <1>0, <1>2 DEF ServerSays, WholeClient
<1>3. CASE ServerCopied
  BY <1>0, <1>3 DEF ServerCopied, WholeClient
<1>4. CASE ClientCopied
  BY <1>0, <1>4 DEF ClientCopied, Takes, WholeClient
<1>5. CASE Quiet
  BY <1>0, <1>5 DEF Quiet, WholeClient
<1>6. QED BY <1>1, <1>2, <1>3, <1>4, <1>5, Steps DEF Talks

LEMMA WholeServerStep ==
  ASSUME TypeOK, WholeServer, [Next]_vars
  PROVE  WholeServer'
<1> USE Flags
<1>0. SUFFICES ASSUME proto' = "classic", honest', ~cut'
               PROVE  WholeServer'
  BY DEF WholeServer
<1>1. ASSUME NEW n \in 0..3, NEW k \in Kinds, NEW ps \in Seq(Packets), ClientSays(n, k, ps)
      PROVE  WholeServer'
  BY <1>0, <1>1 DEF ClientSays, WholeServer
<1>2. ASSUME NEW n \in 0..3, NEW k \in Kinds, NEW ps \in Seq(Packets), ServerSays(n, k, ps)
      PROVE  WholeServer'
  <2>1. /\ proto = "classic" /\ honest /\ ~cut /\ Len(ps) = 1
        /\ Appended(sq, ps, sq') /\ Split(n, k, ps)
    BY <1>0, <1>2 DEF ServerSays, Split
  <2>2. k = "greeting" => n = 0
    BY <1>2, <2>1 DEF ServerSays, Verdicts
  <2>3. ps[1].part = "whole" /\ ps[1].kind = k /\ ps[1].nr = n
    BY <2>1 DEF Split
  <2>4. QED BY <2>1, <2>2, <2>3 DEF Appended, WholeServer
<1>3. CASE ServerCopied
  BY <1>0, <1>3 DEF ServerCopied, Takes, WholeServer
<1>4. CASE ClientCopied
  BY <1>0, <1>4 DEF ClientCopied, WholeServer
<1>5. CASE Quiet
  BY <1>0, <1>5 DEF Quiet, WholeServer
<1>6. QED BY <1>1, <1>2, <1>3, <1>4, <1>5, Steps DEF Talks

\* A message leaves the loop alone, and what was received.
LEMMA TalksKeep ==
  ASSUME TypeOK, Talks
  PROVE  /\ UNCHANGED <<proto, honest, cgot, sgot>>
         /\ UNCHANGED <<pc, pktnr, handshake_done, connection_is_ok, why, blamed>>
         /\ ~cut' => ~cut
         /\ csent \subseteq csent' /\ (sopen' => sopen)
<1> USE Flags
<1>1. ASSUME NEW n \in 0..3, NEW k \in Kinds, NEW ps \in Seq(Packets), ClientSays(n, k, ps)
      PROVE  /\ UNCHANGED <<proto, honest, cgot, sgot>>
             /\ UNCHANGED <<pc, pktnr, handshake_done, connection_is_ok, why, blamed>>
             /\ ~cut' => ~cut
             /\ csent \subseteq csent' /\ (sopen' => sopen)
  BY <1>1 DEF ClientSays, loopVars
<1>2. ASSUME NEW n \in 0..3, NEW k \in Kinds, NEW ps \in Seq(Packets), ServerSays(n, k, ps)
      PROVE  /\ UNCHANGED <<proto, honest, cgot, sgot>>
             /\ UNCHANGED <<pc, pktnr, handshake_done, connection_is_ok, why, blamed>>
             /\ ~cut' => ~cut
             /\ csent \subseteq csent' /\ (sopen' => sopen)
  BY <1>2 DEF ServerSays, loopVars
<1>3. QED BY <1>1, <1>2 DEF Talks

\* Classic: an answer that reaches the client is seen.
LEMMA CVerdictStep ==
  ASSUME TypeOK, Going, CServer, CVerdict, WholeServer, [Next]_vars
  PROVE  CVerdict'
<1> USE Flags
<1>0. SUFFICES ASSUME proto' = "classic", honest',
                      (cgot \cap Verdicts # {} \/ ("refused" \in cgot /\ ~cut))'
               PROVE  handshake_done' \/ (pc' = "c2s" /\ pktnr' = 2)
  BY DEF CVerdict
<1>1. CASE Talks
  BY <1>0, <1>1, TalksKeep DEF CVerdict
<1>2. CASE ServerCopied
  <2>1. /\ proto = "classic" /\ honest /\ connection_is_ok /\ UNCHANGED cut
        /\ ClassicCall(sr, sq, sq', cgot, cgot', copen, "c2s") /\ pc = "s2c"
    BY <1>0, <1>2 DEF ServerCopied, Going
  <2>2. CASE ~Und
    BY <1>2, <2>1, <2>2, CopiedDecided
  <2>3. CASE Und
    <3>1. cgot \cap Verdicts = {} /\ ~("refused" \in cgot /\ ~cut)
      BY <2>1, <2>3 DEF CVerdict, Und
    <3>2. cgot' # cgot
      BY <1>0, <2>1, <3>1
    <3>3. Inspects(sr, sq, sq', cgot, cgot', copen, "c2s")
      BY <2>1, <2>3, <3>2 DEF ClassicCall, Unread, Gone, Passes
    <3>4. PICK n \in 1..Len(sq), l \in UNION {ClassicLooks(sq[1], b) : b \in BOOLEAN} :
            /\ pc' = "c2s"
            /\ ForwardsError(sq, n, l, cgot, cgot', copen) \/ Forwards(sq, n, l, cgot, cgot')
      BY <3>2, <3>3 DEF Inspects, Refuses, Throws
    <3>5. CASE ForwardsError(sq, n, l, cgot, cgot', copen)
      BY <3>4, <3>5 DEF ForwardsError
    <3>6. CASE Forwards(sq, n, l, cgot, cgot')
      <4>1. Seen(sq[1], l) /\ 1 \in DOMAIN sq
        BY FirstSeen
      <4>2. cgot' = cgot \cup KindsOf(SubSeq(sq, 1, n)) /\ pktnr' = NumberAfter(l) /\ l.kind # "err"
        BY <3>6 DEF Forwards
      <4>3. PICK k \in KindsOf(SubSeq(sq, 1, n)) : k \in Verdicts \/ (k = "refused" /\ ~cut)
        BY <1>0, <2>1, <3>1, <4>2
      <4>4. PICK j \in 1..n : j \in DOMAIN sq /\ sq[j].kind = k
        BY KindsForwarded
      <4>5. sq[1].kind = k
        BY <2>1, <2>3, <4>1, <4>4 DEF CServer
      <4>6. CASE k \in Verdicts
        <5>1. sq[1].nr = 2 /\ sq[1].part # "tail" /\ sq[1].kind # "data"
          BY <2>1, <2>3, <4>1, <4>5, <4>6 DEF CServer, Verdicts
        <5>2. l.nr = 2
          BY <4>1, <5>1 DEF Seen
        <5>3. QED BY <3>4, <4>2, <5>2 DEF NumberAfter
      <4>7. CASE k = "refused" /\ ~cut
        <5>1. sq[1].part = "whole"
          BY <2>1, <4>1, <4>7 DEF WholeServer
        <5>2. l.kind = "err"
          BY <4>1, <4>5, <4>7, <5>1 DEF Seen
        <5>3. QED BY <4>2, <5>2
      <4>8. QED BY <4>3, <4>6, <4>7
    <3>7. QED BY <3>4, <3>5, <3>6
  <2>4. QED BY <2>2, <2>3
<1>3. CASE ClientCopied
  <2>1. proto = "classic" /\ honest /\ UNCHANGED <<cgot, cut>>
    BY <1>0, <1>3 DEF ClientCopied
  <2>2. ~Und
    BY <1>0, <2>1 DEF CVerdict, Und
  <2>3. QED BY <1>3, <2>1, <2>2, CopiedDecided
<1>4. CASE Quiet
  BY <1>0, <1>4 DEF Quiet, CVerdict
<1>5. QED BY <1>1, <1>2, <1>3, <1>4, Steps

\* Undecided, nothing cut: the packet of the client that is passed on is its only one,
\* a response in the clear.
LEMMA PlainMoved ==
  ASSUME TypeOK, CTurns, WholeClient, WholeQueue, proto = "classic", honest, ~cut, Und, Listening,
         NEW n \in 1..Len(cq), NEW l, Moves(cq, cq', sgot, sgot', n, l)
  PROVE  /\ cq' = <<>> /\ sgot' = sgot \cup {"plain"} /\ csent = {"plain"}
         /\ pktnr' = 1
<1> USE Flags
<1>1. 1 \in DOMAIN cq /\ cq # <<>> /\ Len(cq) \in Nat
  OBVIOUS
<1>2. /\ cq[1].kind \in Responses /\ cq[1].part = "whole" /\ cq[1].nr = 1 /\ cq[1].kind \in csent
  BY <1>1 DEF WholeQueue, WholeClient, CTurns, Responses
<1>3. /\ l.nr = 1
      /\ cq[1].kind = "ff" => l.kind \in {"err", "throws"}
      /\ cq[1].kind = "ssl" => l.kind = "ssl"
      /\ l.kind \notin {"err", "throws"} /\ NumberAfter(l) # 2 /\ pktnr' = NumberAfter(l)
  BY <1>2 DEF Moves, Seen, Responses
<1>4. cq[1].kind = "plain"
  BY <1>2, <1>3 DEF NumberAfter, Responses
<1>5. csent = {"plain"} /\ Len(cq) <= 1
  BY <1>2, <1>4 DEF WholeQueue
<1>6. n = 1 /\ Len(cq) = 1
  <2>1. n \in Nat /\ n >= 1 /\ n <= Len(cq) /\ Len(cq) \in Nat
    OBVIOUS
  <2>2. Len(cq) <= 1
    BY <1>5
  <2>3. \A a, b \in Nat : a >= 1 /\ a <= b /\ b <= 1 => a = 1 /\ b = 1
    OBVIOUS
  <2>4. QED BY ONLY <2>1, <2>2, <2>3
<1>7. cq' = <<>>
  BY <1>6 DEF Moves
<1>8. sgot' = sgot \cup KindsOf(SubSeq(cq, 1, n))
  BY DEF Moves
<1>9. KindsOf(SubSeq(cq, 1, n)) = {"plain"}
  <2>1. "whole" \notin FirstParts
    BY DEF FirstParts
  <2>2. \A k : k \in KindsOf(SubSeq(cq, 1, n)) <=>
          \E j \in 1..n : j \in DOMAIN cq /\ cq[j].part \notin FirstParts /\ cq[j].kind = k
    BY KindsForwarded
  <2>3. \A j \in 1..n : j = 1
    BY <1>6
  <2>4. 1 \in 1..n
    OBVIOUS
  <2> HIDE DEF KindsOf
  <2>5. \A k : k \in KindsOf(SubSeq(cq, 1, n)) <=> k = "plain"
    BY ONLY <1>1, <1>2, <1>4, <2>1, <2>2, <2>3, <2>4
  <2>6. QED BY <2>5
<1>10. pktnr' = 1
  BY <1>2, <1>3, <1>4 DEF NumberAfter, Moves, Seen
<1>11. QED BY <1>5, <1>7, <1>8, <1>9, <1>10

\* Classic, nothing cut, undecided: the client's queue.
LEMMA WholeQueueStep ==
  ASSUME TypeOK, Going, CTurns, CVerdict, WholeClient, WholeQueue, [Next]_vars
  PROVE  WholeQueue'
<1> USE Flags
<1>a. Responses = {"plain", "ssl", "ff"}
  BY DEF Responses
<1>0. SUFFICES ASSUME proto' = "classic", honest', ~cut', Und', Listening'
               PROVE  WholeQueue'
  BY DEF WholeQueue
<1>b. Listening
  BY <1>0, ListenedBefore
<1>1. ASSUME NEW n \in 0..3, NEW k \in Kinds, NEW ps \in Seq(Packets), ClientSays(n, k, ps)
      PROVE  WholeQueue'
  <2>1. /\ proto = "classic" /\ honest /\ ~cut /\ Und
        /\ csent' = csent \cup {k} /\ UNCHANGED sgot
        /\ Len(ps) = 1 /\ ps[1].kind = k /\ Appended(cq, ps, cq')
    BY <1>0, <1>1 DEF ClientSays, loopVars, Und, Split
  <2>2. /\ sgot \cap {"ssl", "ff"} = {}
        /\ cq # <<>> => cq[1].kind \in Responses
        /\ csent # {} /\ sgot \cap Responses = {} => cq # <<>>
    BY <1>b, <2>1 DEF WholeQueue
  <2>3. /\ sgot \subseteq csent \cup {"fake"} /\ \A j \in DOMAIN cq : cq[j].kind \in csent
        /\ csent \subseteq Responses \cup {"data"} /\ \A a, b \in csent \cap Responses : a = b
    BY <2>1 DEF CTurns
  <2>4. CASE k \in Responses /\ csent = {}
    <3>1. cq = <<>>
      BY <2>3, <2>4, MembersOf
    <3>2. cq' = ps /\ csent' = {k} /\ cq' # <<>>
      BY <2>1, <2>4, <3>1 DEF Appended
    <3>3. sgot \cap Responses = {}
      BY <1>a, <2>3, <2>4
    <3>4. Len(cq') = 1 /\ cq'[1].kind \in Responses
      BY <2>1, <2>4, <3>2
    <3>5. "plain" \in csent' => csent' = {"plain"}
      BY <3>2
    <3>6. "plain" \notin sgot' /\ sgot' \cap {"ssl", "ff"} = {}
      BY <1>a, <2>1, <3>3
    <3>7. QED BY <3>2, <3>4, <3>5, <3>6 DEF WholeQueue
  <2>5. CASE k = "data" /\ "ssl" \in csent
    <3>1. "plain" \notin csent /\ "plain" \notin sgot /\ sgot \cap Responses = {}
      BY <1>a, <2>2, <2>3, <2>5
    <3>2. cq # <<>> /\ cq' # <<>> /\ cq'[1] = cq[1] /\ "plain" \notin csent'
      BY <2>1, <2>2, <2>5, <3>1 DEF Appended
    <3>3. QED BY <2>1, <2>2, <3>1, <3>2 DEF WholeQueue
  <2>6. "ok" \notin cgot
    BY <2>1 DEF CVerdict, Und, Verdicts
  <2>7. csent \cap XOpening = {}
    BY <1>a, <2>3 DEF XOpening
  <2>8. QED BY <1>1, <2>1, <2>4, <2>5, <2>6, <2>7 DEF ClientSays
<1>2. ASSUME NEW n \in 0..3, NEW k \in Kinds, NEW ps \in Seq(Packets), ServerSays(n, k, ps)
      PROVE  WholeQueue'
  BY <1>0, <1>b, <1>2 DEF ServerSays, loopVars, Und, WholeQueue
<1>3. CASE ServerCopied
  <2>1. proto = "classic" /\ honest /\ ~cut /\ UNCHANGED <<csent, sgot, cq>>
    BY <1>0, <1>3 DEF ServerCopied
  <2>2. Und
    BY <1>0, <1>3, <2>1, ServerUnd
  <2>3. QED BY <1>b, <2>1, <2>2 DEF WholeQueue
<1>4. CASE ClientCopied
  <2>1. proto = "classic" /\ honest /\ ~cut /\ UNCHANGED csent
    BY <1>0, <1>4 DEF ClientCopied
  <2>2. connection_is_ok'
    BY <1>0, <1>4 DEF Listening, ClientCopied
  <2>3. Und /\ StaysUnd(cr, cq, cq', sgot, sgot')
    BY <1>0, <1>4, <2>1, <2>2, ClientUnd
  <2>4. CASE cq' = cq /\ sgot' = sgot
    BY <1>b, <2>1, <2>3, <2>4 DEF WholeQueue
  <2>5. CASE \E n \in 1..Len(cq) : \E l : Moves(cq, cq', sgot, sgot', n, l)
    <3>1. cq' = <<>> /\ sgot' = sgot \cup {"plain"} /\ csent = {"plain"}
      BY <1>b, <2>1, <2>3, <2>5, PlainMoved
    <3>2. sgot \cap {"ssl", "ff"} = {}
      BY <1>b, <2>1, <2>3 DEF WholeQueue
    <3>3. Len(cq') = 0
      BY <3>1
    <3>4. QED BY <1>a, <2>1, <3>1, <3>2, <3>3 DEF WholeQueue
  <2>6. QED BY <2>3, <2>4, <2>5 DEF StaysUnd
<1>5. CASE Quiet
  BY <1>0, <1>a, <1>b, <1>5 DEF Quiet, Und, WholeQueue
<1>6. QED BY <1>1, <1>2, <1>3, <1>4, <1>5, Steps DEF Talks

\* Classic, nothing cut: what the server has under way.
LEMMA ServerFirst ==
  ASSUME TypeOK, CTurns, WholeServer, proto = "classic", honest, ~cut, sq # <<>>
  PROVE  /\ sq[1].part = "whole"
         /\ \/ sq[1].kind = "greeting" /\ sq[1].nr = 0
            \/ sq[1].kind = "refused" /\ ~sopen
            \/ sq[1].kind \in Verdicts /\ sgot \cap {"plain", "ff"} # {}
            \/ sq[1].kind = "data" /\ "ssl" \in sgot
<1>1. 1 \in DOMAIN sq
  BY Flags
<1>2. sq[1].kind \in ssent
  BY <1>1 DEF CTurns
<1>3. sq[1].kind \in Verdicts \cup {"greeting", "refused", "data"}
  BY <1>2 DEF CTurns
<1>4. sq[1].part = "whole" /\ (sq[1].kind = "greeting" => sq[1].nr = 0)
  BY <1>1 DEF WholeServer
<1>5. sq[1].kind \in Verdicts => sgot \cap {"plain", "ff"} # {}
  BY <1>2 DEF CTurns
<1>6. (sq[1].kind = "data" => "ssl" \in sgot) /\ (sq[1].kind = "refused" => ~sopen)
  BY <1>2 DEF CTurns
<1>7. QED BY <1>3, <1>4, <1>5, <1>6

\* Classic, nothing cut: number 2.
LEMMA WholeDoneStep ==
  ASSUME TypeOK, CTurns, WholeClient, WholeServer, WholeQueue, WholeDone, [Next]_vars
  PROVE  WholeDone'
<1> USE Flags
<1>a. Responses = {"plain", "ssl", "ff"}
  BY DEF Responses
<1>0. SUFFICES ASSUME proto' = "classic", honest', ~cut', ~Und'
               PROVE  ~sopen' \/ sgot' \cap Responses # {}
  BY DEF WholeDone
<1>1. CASE Talks
  BY <1>0, <1>1, TalksKeep DEF Und, WholeDone
<1>2. CASE ServerCopied
  <2>1. /\ proto = "classic" /\ honest /\ ~cut /\ UNCHANGED <<sopen, sgot>>
        /\ ClassicCall(sr, sq, sq', cgot, cgot', copen, "c2s")
    BY <1>0, <1>2 DEF ServerCopied
  <2>2. CASE ~Und
    BY <2>1, <2>2 DEF WholeDone
  <2>3. CASE Und
    <3>0. PICK n \in 1..Len(sq) : \E l : Seen(sq[1], l) /\ (l.kind = "err" \/ NumberAfter(l) = 2)
      BY <1>0, <2>1, <2>3, Decides
    <3>1. PICK l : Seen(sq[1], l) /\ (l.kind = "err" \/ NumberAfter(l) = 2)
      BY <3>0
    <3>2. sq # <<>>
      OBVIOUS
    <3>3. ~(sq[1].kind = "greeting" /\ sq[1].nr = 0 /\ sq[1].part = "whole")
      BY <3>1 DEF Seen, NumberAfter
    <3>4. ~sopen \/ sgot \cap {"plain", "ff"} # {} \/ "ssl" \in sgot
      BY <2>1, <3>2, <3>3, ServerFirst
    <3>5. QED BY <1>a, <2>1, <3>4
  <2>4. QED BY <2>2, <2>3
<1>3. CASE ClientCopied
  <2>1. /\ proto = "classic" /\ honest /\ ~cut /\ UNCHANGED sopen /\ sgot \subseteq sgot'
        /\ ClassicCall(cr, cq, cq', sgot, sgot', sopen, "loop") /\ Listening
    BY <1>0, <1>3 DEF ClientCopied, Takes, Listening
  <2>2. CASE ~Und
    BY <2>1, <2>2 DEF WholeDone
  <2>3. CASE Und
    <3>0. PICK n \in 1..Len(cq) :
            sgot' = sgot \cup KindsOf(SubSeq(cq, 1, n)) \/ ~sopen
      BY <1>0, <2>1, <2>3, Decides
    <3>1. ~sopen \/ sgot' = sgot \cup KindsOf(SubSeq(cq, 1, n))
      BY <3>0
    <3>2. 1 \in DOMAIN cq /\ cq # <<>> /\ 1 \in 1..n
      OBVIOUS
    <3>3. cq[1].kind \in Responses /\ cq[1].part = "whole"
      BY <2>1, <2>3, <3>2 DEF WholeQueue, WholeClient
    <3>4. cq[1].kind \in KindsOf(SubSeq(cq, 1, n))
      BY <3>2, <3>3, KindsForwarded DEF FirstParts
    <3>5. QED BY <2>1, <3>1, <3>3, <3>4
  <2>4. QED BY <2>2, <2>3
<1>4. CASE Quiet
  BY <1>0, <1>4 DEF Quiet, Und, WholeDone
<1>5. QED BY <1>1, <1>2, <1>3, <1>4, Steps

\* Classic, nothing cut, undecided: the numbers.
LEMMA WholeNumbersStep ==
  ASSUME TypeOK, Going, CTurns, CServer, WholeClient, WholeServer, WholeQueue, WholeNumbers,
         [Next]_vars
  PROVE  WholeNumbers'
<1> USE Flags
<1>0. SUFFICES ASSUME proto' = "classic", honest', ~cut', Und', connection_is_ok'
               PROVE  pktnr' = 0 \/ (pktnr' = 1 /\ "plain" \in sgot')
  BY DEF WholeNumbers
<1>1. CASE Talks
  BY <1>0, <1>1, TalksKeep DEF Und, WholeNumbers
<1>2. CASE ServerCopied
  <2>1. proto = "classic" /\ honest /\ ~cut
    BY <1>0, <1>2 DEF ServerCopied
  <2>2. Und /\ connection_is_ok /\ StaysUnd(sr, sq, sq', cgot, cgot') /\ Listening
    BY <1>0, <1>2, <2>1, ServerUnd DEF Listening
  <2>3. CASE \E n \in 1..Len(sq) : \E l : Moves(sq, sq', cgot, cgot', n, l)
    <3>0. PICK n \in 1..Len(sq) : \E l : Moves(sq, sq', cgot, cgot', n, l)
      BY <2>3
    <3>1. PICK l : Moves(sq, sq', cgot, cgot', n, l)
      BY <3>0
    <3>2. 1 \in DOMAIN sq /\ sq # <<>>
      OBVIOUS
    <3>3. sq[1].kind \notin Verdicts
      BY <2>1, <2>2, <3>1, <3>2, NoVerdictMoved
    <3>4. "ssl" \notin sgot
      BY <2>1, <2>2 DEF WholeQueue
    <3>5. /\ sq[1].part = "whole"
          /\ \/ sq[1].kind = "greeting" /\ sq[1].nr = 0
             \/ sq[1].kind = "refused"
      BY <2>1, <3>2, <3>3, <3>4, ServerFirst
    <3>6. sq[1].kind # "refused"
      BY <3>1, <3>5 DEF Moves, Seen
    <3>7. l.nr = 0
      BY <3>1, <3>5, <3>6 DEF Moves, Seen
    <3>8. QED BY <3>1, <3>7 DEF Moves, NumberAfter
  <2>4. QED BY <2>2, <2>3 DEF StaysUnd
<1>3. CASE ClientCopied
  <2>1. proto = "classic" /\ honest /\ ~cut /\ Listening
    BY <1>0, <1>3 DEF ClientCopied, Listening
  <2>2. Und /\ StaysUnd(cr, cq, cq', sgot, sgot')
    BY <1>0, <1>3, <2>1, ClientUnd
  <2>3. CASE \E n \in 1..Len(cq) : \E l : Moves(cq, cq', sgot, sgot', n, l)
    <3>1. sgot' = sgot \cup {"plain"} /\ pktnr' = 1
      BY <2>1, <2>2, <2>3, PlainMoved
    <3>2. QED BY <3>1
  <2>4. QED BY <2>2, <2>3 DEF StaysUnd
<1>4. CASE Quiet
  BY <1>0, <1>4 DEF Quiet, Und, WholeNumbers
<1>5. QED BY <1>1, <1>2, <1>3, <1>4, Steps

\* An honest client, nothing cut: a packet of the server is refused for none of the two
\* reasons, and does not throw ...
LEMMA ServerHonest ==
  ASSUME TypeOK, Going, CTurns, CServer, WholeServer, WholeQueue, WholeNumbers, HonestNotAborted,
         ServerCopied, proto = "classic", honest, ~cut
  PROVE  why' \notin {"sequence", "content"} /\ pc' # "aborted"
<1> USE Flags
<1>1. /\ connection_is_ok /\ Listening
      /\ ClassicCall(sr, sq, sq', cgot, cgot', copen, "c2s")
      /\ why \notin {"sequence", "content"}
  BY DEF ServerCopied, Going, Listening, HonestNotAborted
<1>2. CASE /\ \/ Unread(sr, sq, sq', cgot, cgot') \/ Gone(sr, sq, sq', cgot, cgot')
              \/ Passes(sq, sq', cgot, cgot')
           /\ pc' = "c2s"
  BY <1>1, <1>2 DEF Unread, Gone, Passes, Fine, Fails
<1>3. CASE Inspects(sr, sq, sq', cgot, cgot', copen, "c2s")
  <2>1. PICK n \in 1..Len(sq), l \in UNION {ClassicLooks(sq[1], b) : b \in BOOLEAN} :
          \/ Refuses(l, cgot, cgot') /\ pc' = "c2s"
          \/ Throws(l, cgot, cgot')
          \/ ForwardsError(sq, n, l, cgot, cgot', copen) /\ pc' = "c2s"
          \/ Forwards(sq, n, l, cgot, cgot') /\ pc' = "c2s"
    BY <1>3 DEF Inspects
  <2>2. Und
    BY <1>3 DEF Inspects
  <2>3. Seen(sq[1], l) /\ 1 \in DOMAIN sq /\ sq # <<>>
    BY FirstSeen
  <2>4. "ssl" \notin sgot
    BY <1>1, <2>2 DEF WholeQueue
  <2>5. /\ sq[1].part = "whole"
        /\ \/ sq[1].kind = "greeting" \/ sq[1].kind = "refused" \/ sq[1].kind \in Verdicts
    BY <2>3, <2>4, ServerFirst
  <2>6. l.kind \in {"greeting", "ok", "more", "err"}
    BY <2>3, <2>5 DEF Seen, Verdicts
  <2>7. ~OutOfSequence(pktnr, l)
    <3> SUFFICES ASSUME pktnr > 0 PROVE l.nr = pktnr + 1
      BY DEF OutOfSequence
    <3>1. pktnr = 1 /\ "plain" \in sgot
      BY <1>1, <2>2 DEF WholeNumbers
    <3>2. "greeting" \in cgot
      BY <3>1 DEF CTurns, Responses
    <3>3. sq[1].kind \in Verdicts \cup {"data"}
      BY <1>1, <2>2, <2>3, <3>2 DEF CServer
    <3>4. sq[1].kind \in Verdicts /\ sq[1].kind # "data"
      BY <2>5, <3>3 DEF Verdicts
    <3>5. sq[1].nr = 2
      BY <1>1, <2>2, <2>3, <3>4 DEF CServer
    <3>6. l.nr = 2
      BY <2>3, <2>5, <3>4, <3>5 DEF Seen
    <3>7. QED BY <3>1, <3>6
  <2>8. QED BY <1>1, <2>1, <2>6, <2>7 DEF Refuses, Throws, ForwardsError, Forwards, Fine
<1>4. QED BY <1>1, <1>2, <1>3 DEF ClassicCall

\* ... and one of the client throws only if its first byte is 0xff.
LEMMA ClientHonest ==
  ASSUME TypeOK, Going, CTurns, WholeClient, WholeQueue, WholeNumbers, HonestNotAborted,
         ClientCopied, proto = "classic", honest, ~cut
  PROVE  why' \notin {"sequence", "content"} /\ (pc' = "aborted" => "ff" \in csent)
<1> USE Flags
<1>1. /\ Listening /\ pc # "aborted"
      /\ ClassicCall(cr, cq, cq', sgot, sgot', sopen, "loop")
      /\ why \notin {"sequence", "content"}
  BY DEF ClientCopied, Listening, HonestNotAborted
<1>2. CASE /\ \/ Unread(cr, cq, cq', sgot, sgot') \/ Gone(cr, cq, cq', sgot, sgot')
              \/ Passes(cq, cq', sgot, sgot')
           /\ pc' = "loop"
  BY <1>1, <1>2 DEF Unread, Gone, Passes, Fine, Fails
<1>3. CASE Inspects(cr, cq, cq', sgot, sgot', sopen, "loop")
  <2>1. PICK n \in 1..Len(cq), l \in UNION {ClassicLooks(cq[1], b) : b \in BOOLEAN} :
          \/ Refuses(l, sgot, sgot') /\ pc' = "loop"
          \/ Throws(l, sgot, sgot')
          \/ ForwardsError(cq, n, l, sgot, sgot', sopen) /\ pc' = "loop"
          \/ Forwards(cq, n, l, sgot, sgot') /\ pc' = "loop"
    BY <1>3 DEF Inspects
  <2>2. Und
    BY <1>3 DEF Inspects
  <2>3. Seen(cq[1], l) /\ 1 \in DOMAIN cq /\ cq # <<>>
    BY FirstSeen
  <2>4. cq[1].kind \in Responses /\ cq[1].part = "whole" /\ cq[1].kind \in csent
    BY <1>1, <2>2, <2>3 DEF WholeQueue, WholeClient, CTurns
  <2>5. /\ l.kind \in {"plain", "ssl", "err", "throws"}
        /\ l.kind = "throws" => cq[1].kind = "ff"
    BY <2>3, <2>4 DEF Seen, Responses
  <2>6. connection_is_ok => ~OutOfSequence(pktnr, l)
    <3> SUFFICES ASSUME connection_is_ok, pktnr > 0 PROVE FALSE
      BY DEF OutOfSequence
    <3>1. "plain" \in sgot
      BY <2>2 DEF WholeNumbers
    <3>2. QED BY <1>1, <2>2, <2>3, <3>1 DEF WholeQueue
  <2>7. ~connection_is_ok => why # ""
    BY <1>1 DEF Going
  <2>8. CASE Refuses(l, sgot, sgot') /\ pc' = "loop"
    <3>1. why' # "content"
      BY <1>1, <2>5, <2>8 DEF Refuses
    <3>2. why' # "sequence"
      BY <1>1, <2>6, <2>7, <2>8 DEF Refuses, Fails
    <3>3. QED BY <2>8, <3>1, <3>2
  <2>9. CASE Throws(l, sgot, sgot')
    BY <1>1, <2>4, <2>5, <2>9 DEF Throws
  <2>10. CASE /\ \/ ForwardsError(cq, n, l, sgot, sgot', sopen)
                 \/ Forwards(cq, n, l, sgot, sgot')
              /\ pc' = "loop"
    BY <1>1, <2>10 DEF ForwardsError, Forwards, Fine
  <2>11. QED BY <2>1, <2>8, <2>9, <2>10
<1>4. QED BY <1>1, <1>2, <1>3 DEF ClassicCall

\* X: the calls of the two directions.
LEMMA XHonest ==
  ASSUME TypeOK, XClient, HonestNotAborted, ServerCopied \/ ClientCopied,
         proto = "x", honest, ~cut
  PROVE  why' \notin {"sequence", "content"} /\ pc' # "aborted"
<1> USE Flags
<1>0. why \notin {"sequence", "content"}
  BY DEF HonestNotAborted
<1>1. ASSUME NEW readable, NEW q, NEW q2, NEW got, NEW got2, NEW ro, NEW fs \in BOOLEAN,
             XCall(readable, q, q2, got, got2, ro, fs),
             ~fs /\ ~handshake_done /\ q # <<>> => q[1].kind \in XOpening
      PROVE  why' \notin {"sequence", "content"}
  <2>1. CASE Abandons(readable, q, q2, got, got2, fs)
    BY <1>0, <1>1, <2>1 DEF Abandons, Fails
  <2>2. CASE Fine \/ Fails({"write"})
    BY <1>0, <2>2 DEF Fine, Fails
  <2>3. QED BY <1>1, <2>1, <2>2 DEF XCall, PassesOn, Delivers
<1>2. CASE ServerCopied
  <2>1. XCall(sr, sq, sq', cgot, cgot', copen, TRUE) /\ pc' = "c2s"
    BY <1>2 DEF ServerCopied
  <2>2. QED BY <1>1, <2>1
<1>3. CASE ClientCopied
  <2>1. XCall(cr, cq, cq', sgot, sgot', sopen, FALSE) /\ pc' = "loop" /\ Listening
    BY <1>3 DEF ClientCopied, Listening
  <2>2. ~handshake_done /\ cq # <<>> => cq[1].kind \in XOpening
    BY <2>1 DEF XClient
  <2>3. QED BY <1>1, <2>1, <2>2
<1>4. QED BY <1>2, <1>3

LEMMA HonestStep ==
  ASSUME TypeOK, Going, XClient, CTurns, CServer, WholeClient, WholeServer, WholeQueue,
         WholeNumbers, HonestNotAborted, [Next]_vars
  PROVE  HonestNotAborted'
<1> USE Flags
<1>0. SUFFICES ASSUME honest', ~cut'
               PROVE  why' \notin {"sequence", "content"} /\ (pc' = "aborted" => "ff" \in csent')
  BY DEF HonestNotAborted
<1>1. CASE Talks
  BY <1>0, <1>1, TalksKeep DEF HonestNotAborted
<1>2. CASE ServerCopied
  <2>1. honest /\ ~cut /\ UNCHANGED csent
    BY <1>0, <1>2 DEF ServerCopied
  <2>2. QED BY <1>2, <2>1, ServerHonest, XHonest
<1>3. CASE ClientCopied
  <2>1. honest /\ ~cut /\ UNCHANGED csent
    BY <1>0, <1>3 DEF ClientCopied
  <2>2. QED BY <1>3, <2>1, ClientHonest, XHonest
<1>4. CASE Quiet
  BY <1>0, <1>4 DEF Quiet, HonestNotAborted
<1>5. QED BY <1>1, <1>2, <1>3, <1>4, Steps

\* How a connection ends.
LEMMA EndStep ==
  ASSUME TypeOK, Blame, Calmed, [Next]_vars
  PROVE  Blame' /\ Calmed'
<1> USE Flags
<1>1. CASE pc \notin {"closed", "aborted"} /\ Talks
  BY <1>1, TalksKeep DEF Blame, Calmed
<1>2. CASE ServerCopied \/ ClientCopied
  <2>1. pc # "closed" /\ pc' # "closed" /\ blamed' = blamed
    BY <1>2 DEF ServerCopied, ClientCopied
  <2>2. ~blamed
    BY <2>1 DEF Blame
  <2>3. QED BY <2>1, <2>2 DEF Blame, Calmed
<1>3. CASE Quiet
  <2>1. handshake_done' = handshake_done /\ sopen' \in {sopen, FALSE}
    BY <1>3 DEF Quiet
  <2>2. CASE UNCHANGED <<pc, blamed, sgot>>
    <3>1. Blame'
      BY <2>1, <2>2 DEF Blame
    <3>2. sopen' => sopen
      BY <2>1
    <3>3. QED BY <2>1, <2>2, <3>1, <3>2 DEF Calmed
  <2>3. CASE pc \in {"loop", "poll"} /\ pc' # "closed" /\ blamed' = blamed
    <3>1. ~blamed
      BY <2>3 DEF Blame
    <3>2. QED BY <2>3, <3>1 DEF Blame, Calmed
  <2>4. CASE /\ pc' = "closed" /\ blamed' = ~handshake_done /\ sopen' = sopen
             /\ ~handshake_done /\ sopen => "fake" \in sgot'
    BY <2>1, <2>4 DEF Blame, Calmed
  <2>5. QED BY <1>3, <2>2, <2>3, <2>4 DEF Quiet
<1>4. QED BY <1>1, <1>2, <1>3, Steps

(***************************************************************************)
(* The theorems.                                                           *)
(***************************************************************************)

\* The invariant holds at first.
LEMMA InitInv ==
  ASSUME Init PROVE IInv
<1>1. <<>> \in Seq(Packets) /\ Len(<<>>) = 0 /\ DOMAIN <<>> = {}
  OBVIOUS
<1>2. /\ cq \in Seq(Packets) /\ sq \in Seq(Packets) /\ Len(cq) = 0 /\ Len(sq) = 0
      /\ DOMAIN cq = {} /\ DOMAIN sq = {} /\ cq = <<>> /\ sq = <<>>
  BY <1>1 DEF Init
<1>3. TypeOK
  <2>1. /\ csent \subseteq Kinds /\ ssent \subseteq Kinds
        /\ cgot \subseteq Kinds /\ sgot \subseteq Kinds
    BY DEF Init
  <2>2. /\ {copen, sopen, cut, cr, sr} \subseteq BOOLEAN
        /\ {handshake_done, connection_is_ok, disconnect_, blamed} \subseteq BOOLEAN
        /\ honest \in BOOLEAN
    BY DEF Init
  <2>3. proto \in {"classic", "x"} /\ why = "" /\ pc = "loop"
    BY Zenon DEF Init
  <2>4. pktnr \in 0..3
    <3>1. pktnr = 0
      BY Zenon DEF Init
    <3>2. 0 \in 0..3
      OBVIOUS
    <3>3. QED BY <3>1, <3>2, Zenon
  <2>5. {csent, ssent, cgot, sgot} \subseteq SUBSET Kinds
    BY <2>1
  <2>6. /\ pc \in {"loop", "poll", "s2c", "c2s", "finish", "closed", "aborted"}
        /\ why \in {"", "timeout", "poll", "gone", "write", "sequence", "content", "size"}
    BY <2>3
  <2>7. QED BY <1>2, <2>2, <2>3, <2>4, <2>5, <2>6, Zenon DEF TypeOK
<1>4. /\ csent = {} /\ ssent = {} /\ cgot = {} /\ sgot = {}
      /\ handshake_done = FALSE /\ blamed = FALSE /\ pc = "loop" /\ why = ""
      /\ connection_is_ok = TRUE
  BY Zenon DEF Init
<1>5. pktnr = 0
  BY Zenon DEF Init
<1>6. Going /\ XServer /\ XClient /\ XOpened
  BY <1>2, <1>4 DEF Going, XServer, XClient, XOpened
<1>7. CTurns /\ CServer /\ CVerdict
  BY <1>2, <1>4 DEF CTurns, CServer, CVerdict
<1>8. WholeClient /\ WholeServer /\ WholeQueue
  BY <1>2, <1>4 DEF WholeClient, WholeServer, WholeQueue
<1>9. WholeDone /\ WholeNumbers
  <2>1. Und
    <3>1. pktnr # 2
      BY <1>5
    <3>2. QED BY <1>4, <3>1, Zenon DEF Und
  <2>2. QED BY <1>5, <2>1 DEF WholeDone, WholeNumbers
<1>10. Blame /\ Calmed /\ HonestNotAborted
  BY <1>4 DEF Blame, Calmed, HonestNotAborted
<1>11. QED BY <1>3, <1>6, <1>7, <1>8, <1>9, <1>10 DEF IInv

\* Every step keeps it.
LEMMA NextInv ==
  ASSUME IInv, [Next]_vars PROVE IInv'
<1> USE DEF IInv
<1>1. TypeOK' /\ Going'
  BY TypeStep, GoingStep
<1>2. XServer' /\ XClient' /\ XOpened'
  BY XServerStep, XClientStep, XOpenedStep
<1>3. CTurns' /\ CServer' /\ CVerdict'
  BY CTurnsStep, CServerStep, CVerdictStep
<1>4. WholeClient' /\ WholeServer' /\ WholeQueue'
  BY WholeClientStep, WholeServerStep, WholeQueueStep
<1>5. WholeDone' /\ WholeNumbers'
  BY WholeDoneStep, WholeNumbersStep
<1>6. Blame' /\ Calmed' /\ HonestNotAborted'
  BY EndStep, HonestStep
<1>7. QED BY <1>1, <1>2, <1>3, <1>4, <1>5, <1>6

\* The invariant holds of every connection, whatever its peers do and in whatever
\* order the loop meets it.
THEOREM Invariance == Spec => []IInv
<1>1. Init => IInv
  BY InitInv
<1>2. IInv /\ [Next]_vars => IInv'
  BY NextInv
<1>3. QED BY <1>1, <1>2, PTL DEF Spec

\* Type correctness of the connection and of what is on its way.
THEOREM TypeCorrect == Spec => []TypeOK
<1>1. IInv => TypeOK
  BY DEF IInv
<1>2. QED BY <1>1, Invariance, PTL

\* classic_protocol.cc, x_protocol.cc: a client that has the server's answer (an
\* error included), or whose X session the server has been asked to open, is never
\* counted as a connection error, however the two directions interleave, however
\* the packets are cut and joined, and whatever a piece is taken for.
THEOREM AnsweredNotBlamedAlways == Spec => []AnsweredNotBlamed
<1>1. IInv => AnsweredNotBlamed
  <2> SUFFICES ASSUME IInv, blamed, proto = "x" \/ honest
               PROVE  /\ cgot \cap Verdicts = {} /\ sgot \cap XOpening = {}
                      /\ "refused" \in cgot => cut
    BY DEF AnsweredNotBlamed
  <2>1. pc = "closed" /\ ~handshake_done /\ proto \in {"classic", "x"}
    BY Flags DEF IInv, Blame
  <2>2. CASE proto = "x"
    BY <2>1, <2>2 DEF IInv, XServer, XOpened, Verdicts
  <2>3. CASE proto = "classic"
    BY <2>1, <2>3 DEF IInv, CVerdict, CTurns
  <2>4. QED BY <2>1, <2>2, <2>3
<1>2. QED BY <1>1, Invariance, PTL

\* connection.cc, on_block_client_host(): when the router hangs up, the server has
\* seen a handshake, a real or a made-up one, unless it refused or left itself.
THEOREM ServerSeesHandshakeAlways == Spec => []ServerSeesHandshake
<1>1. IInv => ServerSeesHandshake
  <2> SUFFICES ASSUME IInv, pc = "closed", sopen, proto = "x" \/ (honest /\ ~cut)
               PROVE  sgot \cap (Responses \cup {"fake"} \cup XOpening) # {}
    BY DEF ServerSeesHandshake
  <2>1. CASE ~handshake_done
    BY <2>1 DEF IInv, Calmed
  <2>2. CASE handshake_done /\ proto = "x"
    BY <2>2 DEF IInv, XOpened
  <2>3. CASE handshake_done /\ proto = "classic"
    BY <2>3 DEF IInv, WholeDone, Und
  <2>4. proto \in {"classic", "x"}
    BY Flags DEF IInv
  <2>5. QED BY <2>1, <2>2, <2>3, <2>4
<1>2. QED BY <1>1, Invariance, PTL

\* classic_protocol.cc, x_protocol.cc: no connection of a client that follows its
\* protocol is given up for a wrong number or an unexpected message, although the
\* two directions share *curr_pktnr and each resets it; and only a response whose
\* first byte is 0xff can end the process.
THEOREM HonestNotAbortedAlways == Spec => []HonestNotAborted
<1>1. IInv => HonestNotAborted
  BY DEF IInv
<1>2. QED BY <1>1, Invariance, PTL

============================================================================
