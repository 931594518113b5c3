--------------------------- MODULE IotServerProofs ---------------------------
(***************************************************************************)
(* Theorems about IotServer, for any ids, any number of connections, of    *)
(* descriptors and of messages.                                            *)
(***************************************************************************)
EXTENDS IotServer, FiniteSetTheorems, WellFoundedInduction, TLAPS

\* Every open descriptor and every client that waits has connected.
KnownInv ==
  /\ \A f \in Fds : owner[f] \in Conns => state[owner[f]] # "out"
  /\ \A k \in DOMAIN backlog : state[backlog[k]] # "out"

\* main() holds the descriptor of the client it logs in, which is no thread's.
MainInv ==
  /\ mainPc \in {"read", "login", "greet"} => sock \in Fds /\ owner[sock] \in Conns
  /\ mainPc \in {"read", "login", "greet"} => \A i \in Ids : Running(i) => fd[i] # sock
  /\ mainPc \in {"login", "greet"} /\ login \in Ids => user[owner[sock]] = login
  /\ mainPc = "greet" => login \in Ids /\ fd[login] = sock /\ thr[login] = "none"

\* A thread and its client_info belong together.
SlotInv ==
  /\ \A i \in Ids : Running(i) => /\ fd[i] \in Fds /\ owner[fd[i]] \in Conns
                                /\ user[owner[fd[i]]] = i
  /\ \A i \in Ids : thr[i] = "none" => fd[i] = -1 \/ (mainPc = "greet" /\ login = i) \/ ~Up
  /\ \A i \in Ids : thr[i] = "clear" => fd[i] # -1
  /\ \A i \in Ids : thr[i] = "write" => out[i] \in Fds

CountInv == clnt_cnt = Cardinality(LoggedIn)

\* The client i has closed a connection.
Left(i) == \E d \in Conns : user[d] = i /\ state[d] = "gone"

\* A thread only closes a descriptor when its client has.
LeavingInv == \A i \in Ids : thr[i] \in {"close", "clear"} => Left(i)
TodoInv == \A i \in Ids : todo[i] \subseteq For(job[i].to)
\* A descriptor that send_msg() holds is its addressee's, or that one has left.
HeldFor(i) == \/ Left(job[i].to)
              \/ owner[out[i]] \in Conns /\ user[owner[out[i]]] = job[i].to
HeldInv == \A i \in Ids : thr[i] = "write" /\ job[i].to \in Ids => HeldFor(i)
SendInv == LeavingInv /\ TodoInv /\ HeldInv

\* What has been delivered, with the addressees known to have connected.
GotInv ==
  \A c \in Conns : \A k \in DOMAIN got[c] :
    got[c][k].to \in Ids =>
      Left(got[c][k].to) \/ (user[c] = got[c][k].to /\ state[c] # "out")

\* What a client wrote, unlike a login or an answer of the server.
Sent(p) == p.from # NoConn
\* A message of this number comes before all that is left in the stream of s.
AheadOf(n, s) == \A l \in DOMAIN stream[s] : Sent(stream[s][l]) => n < stream[s][l].n
Busy(i) == thr[i] \in {"send", "write"}

StreamInv ==
  \A s \in Conns :
    /\ \A k \in DOMAIN stream[s] :
         Sent(stream[s][k]) => stream[s][k].from = s /\ stream[s][k].n <= count
    /\ \A k, l \in DOMAIN stream[s] :
         k < l /\ Sent(stream[s][k]) /\ Sent(stream[s][l]) => stream[s][k].n < stream[s][l].n

\* A thread relays what its own client wrote before the rest of the stream.
JobInv ==
  \A i \in Ids : Busy(i) /\ Sent(job[i]) =>
    job[i].from = Peer(i) /\ job[i].n <= count /\ AheadOf(job[i].n, Peer(i))

\* What has been delivered is no later than what is relayed, and that than the rest.
PastInv ==
  \A c \in Conns : \A k \in DOMAIN got[c] : Sent(got[c][k]) =>
    /\ got[c][k].n <= count /\ AheadOf(got[c][k].n, got[c][k].from)
    /\ \A i \in Ids : Busy(i) /\ job[i].from = got[c][k].from => got[c][k].n <= job[i].n

\* A connection that has not been accepted has been sent nothing.
FreshInv ==
  /\ \A c \in Conns : state[c] = "out" => got[c] = <<>>
  /\ \A k \in DOMAIN backlog : got[backlog[k]] = <<>> /\ \A f \in Fds : owner[f] # backlog[k]
  /\ \A k, l \in DOMAIN backlog : k # l => backlog[k] # backlog[l]

\* send_msg() holds the descriptor of one it is done with, or that one has left.
AimedAt(i, j) == Left(j) \/ (owner[out[i]] \in Conns /\ user[owner[out[i]]] = j)
AimInv == \A i \in Ids : thr[i] = "write" => \E j \in Ids \ todo[i] : AimedAt(i, j)

\* Another client than that of c has left, so that c may have its descriptor.
Shared(c) == \E d \in Conns : state[d] = "gone" /\ user[d] # user[c]
Has(c, i) == \E k \in DOMAIN got[c] :
               Sent(got[c][k]) /\ got[c][k].from = job[i].from /\ got[c][k].n = job[i].n
\* A client that has the message that is relayed is not about to get it again.
OnceInv ==
  \A i \in Ids, c \in Conns : Busy(i) /\ Has(c, i) =>
    Shared(c) \/ (user[c] \notin todo[i] /\ ~(thr[i] = "write" /\ owner[out[i]] = c))

OrderInv == StreamInv /\ JobInv /\ PastInv /\ FreshInv /\ AimInv /\ OnceInv

ServerInv == TypeOK /\ KnownInv /\ MainInv /\ SlotInv
-----------------------------------------------------------------------------
\* accept() returns a free descriptor.
LEMMA LowestIsFree ==
  ASSUME TypeOK, Free # {}
  PROVE  Lowest(Free) \in Free
<1> DEFINE Below == {ss \in Nat \X Nat : ss[1] < ss[2]}
<1>1. IsWellFoundedOn(Below, Nat)
  BY NatLessThanWellFounded DEF OpToRel
<1>2. Free \subseteq Nat
  BY ServerAssumption DEF Free
<1>3. \E f \in Free : \A g \in Free : ~(<<g, f>> \in Below)
  <2> HIDE DEF Below
  <2> QED BY <1>1, <1>2, WFMin, Zenon
<1>4. PICK f \in Free : \A g \in Free : ~(<<g, f>> \in Below)
  BY <1>3
<1>5. \A g \in Free : f <= g
  <2> SUFFICES ASSUME NEW g \in Free PROVE f <= g
    OBVIOUS
  <2>1. f \in Nat /\ g \in Nat
    BY <1>2
  <2>2. ~(g < f)
    BY <1>4, <2>1
  <2> QED BY <2>1, <2>2
<1> QED BY <1>5 DEF Lowest

LEMMA Appended == \A S : \A q \in Seq(S), e \in S : Append(q, e) \in Seq(S)
OBVIOUS

LEMMA Popped == \A S : \A q \in Seq(S) : q # <<>> => Tail(q) \in Seq(S) /\ Head(q) \in S
OBVIOUS

\* What a read() leaves of a stream is a stream, and what it takes a packet.
LEMMA RestOfStream ==
  ASSUME NEW q \in Seq(Packets), NEW k \in 1..Len(q)
  PROVE  Rest(q, k) \in Seq(Packets) /\ Head(q) \in Packets
BY DEF Rest

LEMMA TornStream == \A q \in Seq(Packets) : Torn(q) \in Seq(Packets)
<1> SUFFICES ASSUME NEW q \in Seq(Packets), q # <<>> PROVE Torn(q) \in Seq(Packets)
  BY DEF Torn
<1>1. Head(q) \in Packets /\ Tail(q) \in Seq(Packets)
  BY Popped
<1>2. [Head(q) EXCEPT !.to = "nobody"] \in Packets
  BY <1>1 DEF Packets, Words
<1> DEFINE p == [Head(q) EXCEPT !.to = "nobody"]
<1>3. <<p>> \in Seq(Packets)
  BY <1>2
<1>4. <<p>> \o Tail(q) \in Seq(Packets)
  <2> HIDE DEF p
  <2> QED BY <1>1, <1>3
<1> QED BY <1>4 DEF Torn

LEMMA Packed ==
  /\ Login \in Packets /\ Half \in Packets
  /\ \A t \in Words : Answer(t) \in Packets
  /\ \A t \in Targets, c \in Conns, n \in 1..MaxSend : [to |-> t, from |-> c, n |-> n] \in Packets
<1>1. 0 \in 0..MaxSend /\ \A n \in 1..MaxSend : n \in 0..MaxSend
  BY ServerAssumption
<1>2. Login \in Packets /\ Half \in Packets
  BY <1>1 DEF Login, Half, Packets, Words
<1>3. \A t \in Words : Answer(t) \in Packets
  BY <1>1 DEF Answer, Packets
<1>4. \A t \in Targets, c \in Conns, n \in 1..MaxSend : [to |-> t, from |-> c, n |-> n] \in Packets
  BY <1>1 DEF Packets
<1> QED BY <1>2, <1>3, <1>4

\* write() appends to what at most one client gets.
LEMMA Given ==
  ASSUME TypeOK, NEW f \in Fds, NEW p \in Packets, Give(f, p)
  PROVE  got' \in [Conns -> Seq(Packets)]
<1>1. CASE owner[f] \in Conns
  <2>1. Append(got[owner[f]], p) \in Seq(Packets)
    BY <1>1, Appended DEF TypeOK, WireOK
  <2> QED BY <1>1, <2>1 DEF Give, TypeOK, WireOK
<1> QED BY <1>1 DEF Give, TypeOK, WireOK

\* A step that leaves the variables of a part alone keeps its types.
LEMMA Frame ==
  /\ WorldOK /\ UNCHANGED world => WorldOK'
  /\ WireOK /\ UNCHANGED <<stream, got, backlog, owner>> => WireOK'
  /\ MainOK /\ UNCHANGED main => MainOK'
  /\ TableOK /\ UNCHANGED table => TableOK'
  /\ ThreadsOK /\ UNCHANGED threads => ThreadsOK'
<1>1. WorldOK /\ UNCHANGED world => WorldOK'
  BY DEF WorldOK, world
<1>2. WireOK /\ UNCHANGED <<stream, got, backlog, owner>> => WireOK'
  BY DEF WireOK
<1>3. MainOK /\ UNCHANGED main => MainOK'
  BY DEF MainOK, main
<1>4. TableOK /\ UNCHANGED table => TableOK'
  BY DEF TableOK, table
<1>5. ThreadsOK /\ UNCHANGED threads => ThreadsOK'
  BY DEF ThreadsOK, threads
<1> QED BY <1>1, <1>2, <1>3, <1>4, <1>5

\* A text that is given to an open descriptor leaves the wires well-typed.
LEMMA Told1 ==
  ASSUME TypeOK, NEW f \in Fds, NEW p \in Packets, Give(f, p), UNCHANGED <<stream, backlog, owner>>
  PROVE  WireOK'
BY Given DEF WireOK, TypeOK
-----------------------------------------------------------------------------
LEMMA TypesKept == ServerInv /\ [Next]_vars => TypeOK'
<1> SUFFICES ASSUME TypeOK, MainInv, SlotInv, [Next]_vars PROVE TypeOK'
  BY DEF ServerInv
<1> USE DEF TypeOK
<1>1. ASSUME NEW c \in Conns, Client(c) PROVE TypeOK'
  <2>1. MainOK' /\ TableOK' /\ ThreadsOK'
    BY <1>1, Frame DEF Client, Connect, SendLogin, Send, Leave
  <2>2. CASE Connect(c)
    <3>1. WorldOK'
      BY <2>2 DEF Connect, WorldOK
    <3>2. WireOK'
      BY <2>2, Appended DEF Connect, WireOK
    <3> QED BY <2>1, <3>1, <3>2
  <2>3. CASE SendLogin(c)
    <3>1. WorldOK'
      BY <2>3 DEF SendLogin, WorldOK
    <3>2. Append(stream[c], Login) \in Seq(Packets) /\ Append(stream[c], Half) \in Seq(Packets)
      BY Packed, Appended DEF WireOK
    <3>3. WireOK'
      BY <2>3, <3>2 DEF SendLogin, WireOK
    <3> QED BY <2>1, <3>1, <3>3
  <2>4. CASE Send(c)
    <3>1. count + 1 \in 1..MaxSend
      BY <2>4, ServerAssumption DEF Send, WorldOK
    <3>2. WorldOK'
      BY <2>4, <3>1 DEF Send, WorldOK
    <3>3. PICK to \in Targets :
            stream' = [stream EXCEPT ![c] = Append(@, [to |-> to, from |-> c, n |-> count + 1])]
      BY <2>4 DEF Send
    <3>4. [to |-> to, from |-> c, n |-> count + 1] \in Packets
      BY <3>1, Packed
    <3>5. Append(stream[c], [to |-> to, from |-> c, n |-> count + 1]) \in Seq(Packets)
      BY <3>4, Appended DEF WireOK
    <3>6. WireOK'
      BY <2>4, <3>3, <3>5 DEF Send, WireOK
    <3> QED BY <2>1, <3>2, <3>6
  <2>5. CASE Leave(c)
    <3>1. WorldOK'
      BY <2>5 DEF Leave, WorldOK
    <3> QED BY <2>1, <2>5, <3>1, Frame DEF Leave
  <2> QED BY <1>1, <2>2, <2>3, <2>4, <2>5 DEF Client
<1>2. ASSUME Main PROVE TypeOK'
  <2>1. WorldOK'
    BY <1>2, Frame DEF Main, Accept, ReadLogin, NoLogin, Refuse, Admit, Greet
  <2>2. CASE Accept
    <3>1. Lowest(Free) \in Fds
      BY <2>2, LowestIsFree DEF Accept, Free
    <3>2. Head(backlog) \in Conns /\ Tail(backlog) \in Seq(Conns)
      BY <2>2, Popped DEF Accept, WireOK
    <3>3. WireOK'
      BY <2>2, <3>1, <3>2 DEF Accept, WireOK
    <3>4. MainOK'
      BY <2>2, <3>1 DEF Accept, MainOK
    <3> QED BY <2>1, <2>2, <3>3, <3>4, Frame DEF Accept
  <2>3. CASE ReadLogin
    <3> DEFINE c == owner[sock]
    <3>1. c \in Conns
      BY <2>3 DEF ReadLogin, MainInv
    <3>2. Tail(stream[c]) \in Seq(Packets)
      BY <2>3, <3>1, Popped DEF ReadLogin, WireOK
    <3>3. Torn(Tail(stream[c])) \in Seq(Packets)
      BY <3>2, TornStream
    <3>4. WireOK'
      BY <2>3, <3>1, <3>2, <3>3 DEF ReadLogin, WireOK
    <3>5. MainOK'
      <4>1. login' \in {user[c], Stranger} /\ mainPc' \in {"login", "ended"} /\ pwSet' \in BOOLEAN
            /\ UNCHANGED sock
        BY <2>3, Zenon DEF ReadLogin, MainOK
      <4> QED BY <3>1, <4>1 DEF MainOK, WorldOK
    <3> QED BY <2>1, <2>3, <3>4, <3>5, Frame DEF ReadLogin
  <2>4. CASE NoLogin
    <3>1. MainOK'
      BY <2>4 DEF NoLogin, MainOK
    <3> QED BY <2>1, <2>4, <3>1, Frame DEF NoLogin
  <2>5. CASE Refuse
    <3>1. PICK t \in Words : Give(sock, Answer(t))
      BY <2>5 DEF Refuse, Words
    <3>2. sock \in Fds /\ Answer(t) \in Packets
      BY <2>5, Packed DEF Refuse, MainInv
    <3>3. WireOK'
      BY <2>5, <3>1, <3>2, Told1 DEF Refuse
    <3>4. MainOK'
      BY <2>5 DEF Refuse, MainOK
    <3> QED BY <2>1, <2>5, <3>3, <3>4, Frame DEF Refuse
  <2>6. CASE Admit
    <3>1. TableOK' /\ MainOK'
      BY <2>6 DEF Admit, TableOK, MainOK, MainInv
    <3> QED BY <2>1, <2>6, <3>1, Frame DEF Admit
  <2>7. CASE Greet
    <3>1. sock \in Fds /\ login \in Ids /\ Answer("New connected!") \in Packets
      BY <2>7, Packed DEF Greet, MainInv, Words
    <3>2. WireOK'
      BY <2>7, <3>1, Told1 DEF Greet
    <3>3. MainOK' /\ ThreadsOK'
      BY <2>7 DEF Greet, MainOK, ThreadsOK
    <3> QED BY <2>1, <2>7, <3>2, <3>3, Frame DEF Greet
  <2> QED BY <1>2, <2>2, <2>3, <2>4, <2>5, <2>6, <2>7 DEF Main
<1>3. ASSUME NEW i \in Ids, Thread(i) PROVE TypeOK'
  <2>1. WorldOK' /\ MainOK'
    BY <1>3, Frame DEF Thread, ThrRead, ThrSend, ThrWrite, ThrSent, ThrClose, ThrClear
  <2>2. CASE ThrRead(i)
    <3> DEFINE c == Peer(i)
    <3>1. c \in Conns
      BY <2>2 DEF ThrRead, Peer, Running, SlotInv
    <3>2. CASE \E k \in 1..Len(stream[c]) : \E q \in Remains(stream[c], k) :
                 /\ job' = [job EXCEPT ![i] = Head(stream[c])]
                 /\ todo' = [todo EXCEPT ![i] = For(Head(stream[c]).to)]
                 /\ stream' = [stream EXCEPT ![c] = q]
                 /\ thr' = [thr EXCEPT ![i] = "send"]
      <4>0. PICK k \in 1..Len(stream[c]) : \E q \in Remains(stream[c], k) :
                 /\ job' = [job EXCEPT ![i] = Head(stream[c])]
                 /\ todo' = [todo EXCEPT ![i] = For(Head(stream[c]).to)]
                 /\ stream' = [stream EXCEPT ![c] = q]
                 /\ thr' = [thr EXCEPT ![i] = "send"]
        BY <3>2
      <4>1. PICK q \in Remains(stream[c], k) :
                 /\ job' = [job EXCEPT ![i] = Head(stream[c])]
                 /\ todo' = [todo EXCEPT ![i] = For(Head(stream[c]).to)]
                 /\ stream' = [stream EXCEPT ![c] = q]
                 /\ thr' = [thr EXCEPT ![i] = "send"]
        BY <4>0
      <4>2. q \in Seq(Packets) /\ Head(stream[c]) \in Packets
        BY <3>1, RestOfStream, TornStream DEF WireOK, Remains
      <4>3. WireOK'
        BY <2>2, <3>1, <4>1, <4>2 DEF ThrRead, WireOK
      <4>4. ThreadsOK'
        BY <2>2, <4>1, <4>2 DEF ThrRead, ThreadsOK, For
      <4> QED BY <2>1, <2>2, <4>3, <4>4, Frame DEF ThrRead
    <3>3. CASE stream[c] = <<>> /\ thr' = [thr EXCEPT ![i] = "close"] /\ UNCHANGED <<stream, job, todo>>
      <4>1. ThreadsOK'
        BY <2>2, <3>3 DEF ThrRead, ThreadsOK
      <4> QED BY <2>1, <2>2, <3>3, <4>1, Frame DEF ThrRead
    <3> QED BY <2>2, <3>2, <3>3 DEF ThrRead
  <2>3. CASE ThrSend(i)
    <3>1. ThreadsOK'
      BY <2>3 DEF ThrSend, ThreadsOK, TableOK
    <3> QED BY <2>1, <2>3, <3>1, Frame DEF ThrSend
  <2>4. CASE ThrWrite(i)
    <3>1. ThreadsOK'
      BY <2>4 DEF ThrWrite, ThreadsOK
    <3>2. WireOK'
      BY <2>4, Told1 DEF ThrWrite, ThreadsOK, SlotInv
    <3> QED BY <2>1, <2>4, <3>1, <3>2, Frame DEF ThrWrite
  <2>5. CASE ThrSent(i)
    <3>1. ThreadsOK'
      BY <2>5 DEF ThrSent, ThreadsOK
    <3>2. fd[i] \in Fds /\ Answer("idlist") \in Packets
      BY <2>5, Packed DEF ThrSent, SlotInv, Running, Words
    <3>3. WireOK'
      BY <2>5, <3>2, Told1 DEF ThrSent, WireOK
    <3> QED BY <2>1, <2>5, <3>1, <3>3, Frame DEF ThrSent
  <2>6. CASE ThrClose(i)
    <3>1. ThreadsOK' /\ WireOK'
      BY <2>6 DEF ThrClose, ThreadsOK, WireOK
    <3> QED BY <2>1, <2>6, <3>1, Frame DEF ThrClose
  <2>7. CASE ThrClear(i)
    <3>1. ThreadsOK' /\ TableOK'
      BY <2>7 DEF ThrClear, ThreadsOK, TableOK
    <3> QED BY <2>1, <2>7, <3>1, Frame DEF ThrClear
  <2> QED BY <1>3, <2>2, <2>3, <2>4, <2>5, <2>6, <2>7 DEF Thread
<1>4. CASE UNCHANGED vars
  BY <1>4, Frame DEF vars
<1>5. CASE BrokenPipe
  <2>1. MainOK'
    BY <1>5 DEF BrokenPipe, MainOK
  <2> QED BY <1>5, <2>1, Frame DEF BrokenPipe
<1> QED BY <1>1, <1>2, <1>3, <1>4, <1>5 DEF Next
-----------------------------------------------------------------------------
\* SIGPIPE ends the server, and changes nothing else.
LEMMA PipeBreaks ==
  BrokenPipe => UNCHANGED <<world, count, state, user, stream, got, backlog, owner, table, threads>>
BY DEF BrokenPipe, world

LEMMA KnownKept == ServerInv /\ [Next]_vars => KnownInv'
<1> SUFFICES ASSUME TypeOK, KnownInv, [Next]_vars PROVE KnownInv'
  BY DEF ServerInv
<1> USE DEF TypeOK
<1>1. ASSUME NEW c \in Conns, Client(c) PROVE KnownInv'
  <2>1. \A d \in Conns : state[d] # "out" => state'[d] # "out"
    BY <1>1 DEF Client, Connect, SendLogin, Send, Leave, WorldOK
  <2>2. \A f \in Fds : owner'[f] \in Conns => state'[owner'[f]] # "out"
    BY <1>1, <2>1 DEF KnownInv, Client, Connect, SendLogin, Send, Leave
  <2>3. \A k \in DOMAIN backlog' : state'[backlog'[k]] # "out"
    <3>1. CASE Connect(c)
      <4>1. state'[c] # "out" /\ c \in Conns
        BY <3>1 DEF Connect, WorldOK
      <4>2. backlog \in Seq(Conns) /\ backlog' = Append(backlog, c)
        BY <3>1 DEF Connect, WireOK
      <4>3. \A k \in DOMAIN backlog' : backlog'[k] = c \/ (k \in DOMAIN backlog /\ backlog'[k] = backlog[k])
        BY <4>2
      <4>4. \A k \in DOMAIN backlog : backlog[k] \in Conns
        BY <4>2
      <4> QED BY <2>1, <4>1, <4>3, <4>4 DEF KnownInv
    <3>2. CASE UNCHANGED backlog
      <4>1. \A k \in DOMAIN backlog : backlog[k] \in Conns
        BY DEF WireOK
      <4> QED BY <2>1, <3>2, <4>1 DEF KnownInv
    <3> QED BY <1>1, <3>1, <3>2 DEF Client, SendLogin, Send, Leave
  <2> QED BY <2>2, <2>3 DEF KnownInv
<1>2. CASE Accept
  <2>1. Lowest(Free) \in Fds
    BY <1>2, LowestIsFree DEF Accept, Free
  <2>2. Head(backlog) \in Conns /\ state[Head(backlog)] # "out"
    <3>1. backlog # <<>> /\ backlog \in Seq(Conns)
      BY <1>2 DEF Accept, WireOK
    <3>2. 1 \in DOMAIN backlog /\ Head(backlog) = backlog[1]
      BY <3>1
    <3> QED BY <3>1, <3>2 DEF KnownInv
  <2>3. \A f \in Fds : owner'[f] \in Conns => state'[owner'[f]] # "out"
    BY <1>2, <2>1, <2>2 DEF Accept, world, KnownInv, WireOK
  <2>4. backlog # <<>> /\ backlog \in Seq(Conns) /\ backlog' = Tail(backlog)
    BY <1>2 DEF Accept, WireOK
  <2>5. \A k \in DOMAIN backlog' : k + 1 \in DOMAIN backlog /\ backlog'[k] = backlog[k + 1]
    BY <2>4
  <2>6. \A k \in DOMAIN backlog' : state'[backlog'[k]] # "out"
    BY <1>2, <2>5 DEF Accept, world, KnownInv
  <2> QED BY <2>3, <2>6 DEF KnownInv
<1>3. CASE Main /\ UNCHANGED <<backlog, owner, world>>
  BY <1>3 DEF KnownInv, world
<1>4. ASSUME NEW i \in Ids, Thread(i) PROVE KnownInv'
  <2>1. UNCHANGED <<world, backlog>>
    BY <1>4 DEF Thread, ThrRead, ThrSend, ThrWrite, ThrSent, ThrClose, ThrClear
  <2>2. \A f \in Fds : owner'[f] \in {owner[f], NoConn}
    BY <1>4 DEF Thread, ThrRead, ThrSend, ThrWrite, ThrSent, ThrClose, ThrClear, WireOK
  <2>3. NoConn \notin Conns
    BY DEF NoConn, Conns
  <2> QED BY <2>1, <2>2, <2>3 DEF KnownInv, world
<1>5. CASE UNCHANGED vars \/ BrokenPipe
  BY <1>5, PipeBreaks DEF vars, world, KnownInv
<1>6. Main => Accept \/ UNCHANGED <<backlog, owner, world>>
  BY DEF Main, ReadLogin, NoLogin, Refuse, Admit, Greet
<1> QED BY <1>1, <1>2, <1>3, <1>4, <1>5, <1>6 DEF Next

\* A connection that is open keeps its user.
LEMMA UsersStay ==
  ASSUME TypeOK, KnownInv, [Next]_vars, NEW d \in Conns, state[d] # "out"
  PROVE  user'[d] = user[d] /\ state'[d] # "out" /\ (state[d] = "gone" => state'[d] = "gone")
<1> USE DEF TypeOK, WorldOK
<1>1. ASSUME NEW c \in Conns, Client(c) PROVE user'[d] = user[d] /\ state'[d] # "out" /\ (state[d] = "gone" => state'[d] = "gone")
  BY <1>1 DEF Client, Connect, SendLogin, Send, Leave, Connected
<1>2. CASE Main \/ (\E i \in Ids : Thread(i)) \/ BrokenPipe \/ UNCHANGED vars
  <2>1. UNCHANGED <<user, state>>
    BY <1>2, PipeBreaks DEF Main, Accept, ReadLogin, NoLogin, Refuse, Admit, Greet, Thread, ThrRead, ThrSend,
         ThrWrite, ThrSent, ThrClose, ThrClear, vars, world
  <2> QED BY <2>1
<1> QED BY <1>1, <1>2 DEF Next

LEMMA LeftStays ==
  ASSUME TypeOK, KnownInv, [Next]_vars, NEW i, Left(i)
  PROVE  Left(i)'
<1>1. PICK d \in Conns : user[d] = i /\ state[d] = "gone"
  BY DEF Left
<1>2. user'[d] = i /\ state'[d] = "gone"
  BY <1>1, UsersStay
<1> QED BY <1>2 DEF Left
-----------------------------------------------------------------------------
\* No step of a client touches the server's side.
LEMMA ClientsApart ==
  \A c \in Conns : Client(c) => UNCHANGED <<got, owner, main, table, threads>>
BY DEF Client, Connect, SendLogin, Send, Leave

\* While main() and the thread leave the descriptors alone, the thread keeps its own.
LEMMA SlotsAside ==
  ASSUME ServerInv, [Next]_vars, UNCHANGED <<owner, main, table, threads>>
  PROVE  SlotInv' /\ MainInv'
<1> USE DEF ServerInv
<1>1. \A f \in Fds : owner[f] \in Conns => user'[owner'[f]] = user[owner[f]]
  BY UsersStay DEF KnownInv
<1>2. SlotInv'
  BY <1>1 DEF SlotInv, main, table, threads, Running, Up
<1>3. MainInv'
  BY <1>1 DEF MainInv, main, table, threads, Running
<1> QED BY <1>2, <1>3

LEMMA MainSlots == ServerInv /\ Main => SlotInv' /\ MainInv'
<1> SUFFICES ASSUME TypeOK, KnownInv, MainInv, SlotInv, Main PROVE SlotInv' /\ MainInv'
  BY DEF ServerInv
<1> USE DEF TypeOK, MainOK, TableOK, ThreadsOK, WireOK, WorldOK
<1>0. NoConn \notin Conns
  BY DEF NoConn, Conns
<1>1. CASE Accept
  <2> DEFINE f == Lowest(Free)
  <2>1. f \in Fds /\ owner[f] = NoConn
    BY <1>1, LowestIsFree DEF Accept, Free
  <2>2. Head(backlog) \in Conns
    BY <1>1, Popped DEF Accept
  <2>3. owner' = [owner EXCEPT ![f] = Head(backlog)] /\ sock' = f /\ mainPc' = "read"
        /\ UNCHANGED <<user, fd, thr, out>>
    BY <1>1 DEF Accept, world, table, threads
  <2>4. \A i \in Ids : Running(i) => fd[i] # f
    BY <1>0, <2>1 DEF SlotInv
  <2> HIDE DEF f
  <2>5. SlotInv'
    <3>1. \A i \in Ids : thr[i] = "none" => fd[i] = -1
      BY <1>1 DEF Accept, SlotInv, Up
    <3> QED BY <2>1, <2>3, <2>4, <3>1 DEF SlotInv, Running
  <2>6. MainInv'
    BY <2>1, <2>2, <2>3, <2>4 DEF MainInv, Running
  <2> QED BY <2>5, <2>6
<1>2. CASE ReadLogin
  <2>1. SlotInv'
    BY <1>2 DEF ReadLogin, SlotInv, Running, table, threads, world, Up
  <2>2. MainInv'
    <3>1. /\ mainPc = "read" /\ mainPc' \in {"login", "ended"} /\ UNCHANGED <<owner, user, sock, fd, thr>>
      BY <1>2, Zenon DEF ReadLogin, table, threads, world
    <3>2. login' \in {user[owner[sock]], Stranger}
      BY <1>2, Zenon DEF ReadLogin
    <3> QED BY <3>1, <3>2, ServerAssumption DEF MainInv, Running
  <2> QED BY <2>1, <2>2
<1>3. CASE NoLogin \/ Refuse
  <2>1. UNCHANGED <<table, threads, owner, user, sock, login>> /\ mainPc' = "accept" /\ mainPc # "greet" /\ Up
    BY <1>3 DEF NoLogin, Refuse, world, Up
  <2>2. SlotInv'
    BY <2>1 DEF SlotInv, Running, table, threads
  <2>3. MainInv'
    BY <2>1 DEF MainInv
  <2> QED BY <2>2, <2>3
<1>4. CASE Admit
  <2>1. UNCHANGED <<threads, owner, user, sock, login>> /\ mainPc' = "greet" /\ mainPc = "login"
        /\ fd' = [fd EXCEPT ![login] = sock] /\ login \in Ids /\ fd[login] = -1
    BY <1>4 DEF Admit, world
  <2>2. sock \in Fds /\ -1 \notin Fds
    BY <2>1, ServerAssumption DEF MainInv
  <2>3. thr[login] = "none"
    BY <2>1, <2>2 DEF SlotInv, Running
  <2>4. SlotInv'
    BY <2>1, <2>2, <2>3 DEF SlotInv, Running, threads, Up
  <2>5. MainInv'
    BY <2>1, <2>2, <2>3 DEF MainInv, Running, threads
  <2> QED BY <2>4, <2>5
<1>5. CASE Greet
  <2>1. UNCHANGED <<table, owner, user, sock, login, out>> /\ mainPc' = "accept" /\ mainPc = "greet"
        /\ thr' = [thr EXCEPT ![login] = "read"]
    BY <1>5 DEF Greet, world
  <2>2. login \in Ids /\ fd[login] = sock /\ sock \in Fds /\ owner[sock] \in Conns /\ user[owner[sock]] = login
    BY <2>1 DEF MainInv
  <2>3. SlotInv'
    BY <2>1, <2>2 DEF SlotInv, Running, table, Up
  <2>4. MainInv'
    BY <2>1 DEF MainInv
  <2> QED BY <2>3, <2>4
<1> QED BY <1>1, <1>2, <1>3, <1>4, <1>5 DEF Main

LEMMA ThreadSlots == ServerInv => \A i \in Ids : Thread(i) => SlotInv' /\ MainInv'
<1> SUFFICES ASSUME TypeOK, KnownInv, MainInv, SlotInv, NEW i \in Ids, Thread(i)
             PROVE  SlotInv' /\ MainInv'
  BY DEF ServerInv
<1> USE DEF TypeOK, MainOK, TableOK, ThreadsOK, WireOK, WorldOK
<1>0. UNCHANGED <<user, mainPc, sock, login>> /\ (Up' <=> Up)
  BY DEF Thread, ThrRead, ThrSend, ThrWrite, ThrSent, ThrClose, ThrClear, world, main, Up
<1>1. CASE ThrRead(i) \/ ThrSend(i) \/ ThrWrite(i) \/ ThrSent(i)
  <2>1. Running(i) /\ UNCHANGED <<owner, fd>> /\ thr'[i] \in {"read", "send", "write", "close"}
        /\ \A j \in Ids : j # i => thr'[j] = thr[j] /\ out'[j] = out[j]
    BY <1>1 DEF ThrRead, ThrSend, ThrWrite, ThrSent, Running, table, threads
  <2>2. thr'[i] = "write" => out'[i] \in Fds
    BY <1>1 DEF ThrRead, ThrSend, ThrWrite, ThrSent
  <2>3. SlotInv'
    BY <1>0, <2>1, <2>2 DEF SlotInv, Running
  <2>4. MainInv'
    BY <1>0, <2>1 DEF MainInv, Running
  <2> QED BY <2>3, <2>4
<1>2. CASE ThrClose(i)
  <2>1. Running(i) /\ UNCHANGED <<fd, out>> /\ thr' = [thr EXCEPT ![i] = "clear"]
        /\ owner' = [owner EXCEPT ![fd[i]] = NoConn]
    BY <1>2 DEF ThrClose, Running, table
  <2>2. fd[i] \in Fds /\ fd[i] # -1 /\ user[owner[fd[i]]] = i
    BY <2>1, ServerAssumption DEF SlotInv
  <2>3. \A j \in Ids : Running(j) /\ j # i => fd[j] # fd[i]
    BY <2>2 DEF SlotInv
  <2>4. SlotInv'
    BY <1>0, <2>1, <2>2, <2>3 DEF SlotInv, Running
  <2>5. mainPc \in {"read", "login", "greet"} => fd[i] # sock
    BY <2>1 DEF MainInv
  <2>6. MainInv'
    BY <1>0, <2>1, <2>2, <2>5 DEF MainInv, Running
  <2> QED BY <2>4, <2>6
<1>3. CASE ThrClear(i)
  <2>1. thr[i] = "clear" /\ UNCHANGED <<owner, out>> /\ thr' = [thr EXCEPT ![i] = "none"]
        /\ fd' = [fd EXCEPT ![i] = -1]
    BY <1>3 DEF ThrClear
  <2>2. SlotInv'
    BY <1>0, <2>1 DEF SlotInv, Running
  <2>3. MainInv'
    BY <1>0, <2>1 DEF MainInv, Running
  <2> QED BY <2>2, <2>3
<1> QED BY <1>1, <1>2, <1>3 DEF Thread

LEMMA ServerInvInit == Init => ServerInv
<1> SUFFICES ASSUME Init PROVE ServerInv
  OBVIOUS
<1>1. TypeOK
  <2>1. MainOK
    BY DEF Init, MainOK
  <2> QED BY <2>1, Packed, ServerAssumption DEF Init, TypeOK, WorldOK, WireOK, TableOK, ThreadsOK
<1>2. KnownInv /\ MainInv /\ SlotInv
  BY DEF Init, KnownInv, MainInv, SlotInv, Running, NoConn, Conns
<1> QED BY <1>1, <1>2 DEF ServerInv

LEMMA ServerInvKept == ServerInv /\ [Next]_vars => ServerInv'
<1> SUFFICES ASSUME ServerInv, [Next]_vars PROVE ServerInv'
  OBVIOUS
<1>1. TypeOK' /\ KnownInv'
  BY TypesKept, KnownKept
<1>2. CASE \E c \in Conns : Client(c)
  BY <1>2, ClientsApart, PipeBreaks, SlotsAside, <1>1 DEF ServerInv
<1>3. CASE Main
  BY <1>3, MainSlots, <1>1 DEF ServerInv
<1>4. CASE \E i \in Ids : Thread(i)
  BY <1>4, ThreadSlots, <1>1 DEF ServerInv
<1>5. CASE UNCHANGED vars
  BY <1>5, SlotsAside, <1>1 DEF ServerInv, vars
<1>6. CASE BrokenPipe
  <2>1. UNCHANGED <<user, owner, fd, thr, out>> /\ mainPc' = "ended"
    BY <1>6 DEF BrokenPipe, world, table, threads
  <2>2. MainInv' /\ SlotInv'
    BY <2>1 DEF ServerInv, MainInv, SlotInv, Running, Up
  <2> QED BY <1>1, <2>2 DEF ServerInv
<1> QED BY <1>2, <1>3, <1>4, <1>5, <1>6 DEF Next
-----------------------------------------------------------------------------
LEMMA CountKept == ServerInv /\ CountInv /\ [Next]_vars => CountInv'
<1> SUFFICES ASSUME ServerInv, CountInv, [Next]_vars PROVE CountInv'
  OBVIOUS
<1> USE DEF ServerInv, TypeOK
<1>0. IsFiniteSet(LoggedIn)
  BY FS_Subset, ServerAssumption DEF LoggedIn
<1>1. CASE Admit
  <2>1. login \in Ids /\ login \notin LoggedIn /\ sock # -1
        /\ fd' = [fd EXCEPT ![login] = sock] /\ clnt_cnt' = clnt_cnt + 1
    BY <1>1, ServerAssumption DEF Admit, LoggedIn, MainInv
  <2>2. LoggedIn' = LoggedIn \cup {login}
    BY <2>1 DEF LoggedIn, TableOK
  <2> QED BY <1>0, <2>1, <2>2, FS_AddElement DEF CountInv
<1>2. ASSUME NEW i \in Ids, ThrClear(i) PROVE CountInv'
  <2>1. i \in LoggedIn /\ fd' = [fd EXCEPT ![i] = -1] /\ clnt_cnt' = clnt_cnt - 1
    BY <1>2 DEF ThrClear, SlotInv, LoggedIn
  <2>2. LoggedIn' = LoggedIn \ {i}
    BY <2>1 DEF LoggedIn, TableOK
  <2> QED BY <1>0, <2>1, <2>2, FS_RemoveElement DEF CountInv
<1>3. CASE UNCHANGED table
  BY <1>3 DEF CountInv, LoggedIn, table
<1>4. Admit \/ (\E i \in Ids : ThrClear(i)) \/ UNCHANGED table
  <2>1. Main => Admit \/ UNCHANGED table
    BY DEF Main, Accept, ReadLogin, NoLogin, Refuse, Greet
  <2>2. \A i \in Ids : Thread(i) => ThrClear(i) \/ UNCHANGED table
    BY DEF Thread, ThrRead, ThrSend, ThrWrite, ThrSent, ThrClose
  <2>3. UNCHANGED vars => UNCHANGED table
    BY DEF vars
  <2> QED BY <2>1, <2>2, <2>3, ClientsApart, PipeBreaks DEF Next
<1> QED BY <1>1, <1>2, <1>3, <1>4

LEMMA CountOfTable == TypeOK /\ CountInv => CountMatches
<1> SUFFICES ASSUME TypeOK, CountInv PROVE CountMatches
  OBVIOUS
<1>1. LoggedIn \subseteq Ids
  BY DEF LoggedIn
<1>2. Cardinality(LoggedIn) <= Cardinality(Ids) /\ IsFiniteSet(LoggedIn)
  BY <1>1, FS_Subset, ServerAssumption
<1>3. Cardinality(Ids) \in Nat /\ Cardinality(LoggedIn) \in Nat
  BY <1>2, FS_CardinalityType, ServerAssumption
<1> QED BY <1>2, <1>3, ServerAssumption DEF CountMatches, CountInv

(* In every reachable state of the server all variables have their types.      *)
THEOREM ServerTypes == Spec => []TypeOK
<1>1. ServerInv => TypeOK
  BY DEF ServerInv
<1> QED BY ServerInvInit, ServerInvKept, <1>1, PTL DEF Spec

(* clnt_cnt is the number of clients that are logged in, however their threads *)
(* interleave, and main() never finds the table full (iot_server.c:137).       *)
THEOREM CountIsExact == Spec => []CountMatches
<1>1. Init => CountInv
  <2>1. Init => LoggedIn = {} /\ clnt_cnt = 0
    BY DEF Init, LoggedIn
  <2> QED BY <2>1, FS_EmptySet DEF CountInv
<1>2. ServerInv => TypeOK
  BY DEF ServerInv
<1> QED BY ServerInvInit, ServerInvKept, CountKept, CountOfTable, <1>1, <1>2, PTL DEF Spec

(* A thread reads from and closes only the connection of its own client: no    *)
(* second login and no descriptor that is used again changes that.             *)
THEOREM ThreadsKeepTheirSlots == Spec => []ThreadOwnsSlot
<1>1. ServerInv => ThreadOwnsSlot
  <2>1. NoConn \notin Conns /\ -1 \notin Fds
    BY ServerAssumption DEF NoConn, Conns
  <2> QED BY <2>1 DEF ServerInv, SlotInv, ThreadOwnsSlot
<1> QED BY ServerInvInit, ServerInvKept, <1>1, PTL DEF Spec
-----------------------------------------------------------------------------
LEMMA LeavingKept == ServerInv /\ LeavingInv /\ [Next]_vars => LeavingInv'
<1> SUFFICES ASSUME ServerInv, LeavingInv, [Next]_vars,
                    NEW i \in Ids, thr'[i] \in {"close", "clear"}
             PROVE  Left(i)'
  BY DEF LeavingInv
<1> USE DEF ServerInv, TypeOK
<1>1. Left(i)
  <2>1. CASE thr[i] \in {"close", "clear"}
    BY <2>1 DEF LeavingInv
  <2>2. CASE thr[i] \notin {"close", "clear"}
    <3>1. thr' # thr
      BY <2>2
    <3>2. Greet \/ \E j \in Ids : Thread(j)
      BY <3>1, ClientsApart, PipeBreaks DEF Next, Main, Accept, ReadLogin, NoLogin, Refuse, Admit, threads, vars
    <3>3. ThrRead(i)
      BY <2>2, <3>2 DEF Greet, Thread, ThrRead, ThrSend, ThrWrite, ThrSent, ThrClose, ThrClear, ThreadsOK
    <3>4. state[Peer(i)] = "gone"
      BY <3>3 DEF ThrRead, ThreadsOK
    <3>5. Peer(i) \in Conns /\ user[Peer(i)] = i
      BY <3>3 DEF ThrRead, Running, SlotInv, Peer
    <3> QED BY <3>4, <3>5 DEF Left
  <2> QED BY <2>1, <2>2
<1> QED BY <1>1, LeftStays

LEMMA TodoKept == ServerInv /\ TodoInv /\ [Next]_vars => TodoInv'
<1> SUFFICES ASSUME ServerInv, TodoInv, [Next]_vars PROVE TodoInv'
  OBVIOUS
<1> USE DEF ServerInv, TypeOK
<1>1. ASSUME NEW i \in Ids, ThrRead(i) PROVE TodoInv'
  BY <1>1 DEF ThrRead, ThreadsOK, TodoInv, For
<1>2. ASSUME NEW i \in Ids, ThrSend(i) PROVE TodoInv'
  BY <1>2 DEF ThrSend, ThreadsOK, TodoInv, For
<1>3. CASE UNCHANGED <<job, todo>>
  BY <1>3 DEF TodoInv, For
<1>4. UNCHANGED <<job, todo>> \/ \E i \in Ids : ThrRead(i) \/ ThrSend(i)
  <2>1. Main => UNCHANGED <<job, todo>>
    BY DEF Main, Accept, ReadLogin, NoLogin, Refuse, Admit, Greet, threads
  <2>2. \A i \in Ids : Thread(i) => ThrRead(i) \/ ThrSend(i) \/ UNCHANGED <<job, todo>>
    BY DEF Thread, ThrWrite, ThrSent, ThrClose, ThrClear
  <2> QED BY <2>1, <2>2, ClientsApart, PipeBreaks DEF Next, threads, vars
<1> QED BY <1>1, <1>2, <1>3, <1>4

\* An open descriptor changes its owner only when its client has left.
LEMMA OwnersStay ==
  ASSUME ServerInv, LeavingInv, [Next]_vars, NEW f \in Fds, owner[f] \in Conns
  PROVE  owner'[f] = owner[f] \/ Left(user[owner[f]])
<1> USE DEF ServerInv, TypeOK
<1>1. CASE Accept
  <2>1. Lowest(Free) # f
    BY <1>1, LowestIsFree DEF Accept, Free, NoConn, Conns
  <2> QED BY <1>1, <2>1 DEF Accept, WireOK
<1>2. ASSUME NEW i \in Ids, ThrClose(i) PROVE owner'[f] = owner[f] \/ Left(user[owner[f]])
  <2>1. thr[i] = "close" /\ owner' = [owner EXCEPT ![fd[i]] = NoConn]
    BY <1>2 DEF ThrClose
  <2>2. user[owner[fd[i]]] = i /\ Left(i)
    BY <2>1 DEF SlotInv, Running, LeavingInv
  <2> QED BY <2>1, <2>2 DEF WireOK
<1>3. Accept \/ UNCHANGED owner \/ \E i \in Ids : ThrClose(i)
  <2>1. Main => Accept \/ UNCHANGED owner
    BY DEF Main, ReadLogin, NoLogin, Refuse, Admit, Greet
  <2>2. \A i \in Ids : Thread(i) => ThrClose(i) \/ UNCHANGED owner
    BY DEF Thread, ThrRead, ThrSend, ThrWrite, ThrSent, ThrClear
  <2> QED BY <2>1, <2>2, ClientsApart, PipeBreaks DEF Next, vars
<1> QED BY <1>1, <1>2, <1>3

LEMMA SendsWhileUp == TypeOK /\ [Next]_vars => \A i \in Ids : ThrSend(i) => Up
<1> SUFFICES ASSUME TypeOK, [Next]_vars, NEW i \in Ids, ThrSend(i) PROVE Up
  OBVIOUS
<1>1. todo' # todo
  BY DEF ThrSend, TypeOK, ThreadsOK
<1>2. Main => UNCHANGED todo
  BY DEF Main, Accept, ReadLogin, NoLogin, Refuse, Admit, Greet, threads
<1> QED BY <1>1, <1>2, ClientsApart, PipeBreaks DEF Next, Thread, threads, vars

\* While the server is up, what send_msg() finds in client_info is its addressee's descriptor.
LEMMA TableIsRight ==
  ASSUME ServerInv, LeavingInv, Up, NEW j \in Ids, fd[j] # -1
  PROVE  Left(j) \/ (owner[fd[j]] \in Conns /\ user[owner[fd[j]]] = j)
<1> USE DEF ServerInv, TypeOK
<1>1. CASE thr[j] \in {"close", "clear"}
  BY <1>1 DEF LeavingInv
<1>2. CASE thr[j] = "none"
  BY <1>2 DEF SlotInv, MainInv
<1>3. CASE thr[j] \in {"read", "send", "write"}
  BY <1>3 DEF SlotInv, Running
<1> QED BY <1>1, <1>2, <1>3 DEF ThreadsOK

LEMMA HeldKept == ServerInv /\ SendInv /\ [Next]_vars => HeldInv'
<1> SUFFICES ASSUME ServerInv, SendInv, [Next]_vars,
                    NEW i \in Ids, thr'[i] = "write", job'[i].to \in Ids
             PROVE  HeldFor(i)'
  BY DEF HeldInv
<1> USE DEF ServerInv, TypeOK, SendInv
<1>1. CASE ThrSend(i)
  <2>1. PICK j \in todo[i] : fd[j] # -1 /\ out'[i] = fd[j] /\ job' = job /\ UNCHANGED <<user, owner>>
    BY <1>1 DEF ThrSend, ThreadsOK, world
  <2>2. j \in Ids /\ job[i].to = j
    BY <2>1, ServerAssumption DEF TodoInv, For, Words
  <2>3. Left(j) \/ (owner[fd[j]] \in Conns /\ user[owner[fd[j]]] = j)
    BY <1>1, <2>1, <2>2, TableIsRight, SendsWhileUp
  <2>4. CASE Left(j)
    BY <2>1, <2>2, <2>4, LeftStays DEF HeldFor
  <2>5. CASE owner[fd[j]] \in Conns /\ user[owner[fd[j]]] = j
    BY <2>1, <2>2, <2>5 DEF HeldFor
  <2> QED BY <2>3, <2>4, <2>5
<1>2. CASE ~ThrSend(i)
  <2>1. thr[i] = "write" /\ job'[i] = job[i] /\ out'[i] = out[i]
    <3>1. CASE Main
      BY <3>1 DEF Main, Accept, ReadLogin, NoLogin, Refuse, Admit, Greet, threads, ThreadsOK
    <3>2. ASSUME NEW j \in Ids, Thread(j) PROVE thr[i] = "write" /\ job'[i] = job[i] /\ out'[i] = out[i]
      BY <1>2, <3>2 DEF Thread, ThrRead, ThrSend, ThrWrite, ThrSent, ThrClose, ThrClear, ThreadsOK
    <3> QED BY <3>1, <3>2, ClientsApart, PipeBreaks DEF Next, vars, threads
  <2>2. HeldFor(i) /\ out[i] \in Fds
    BY <2>1 DEF HeldInv, SlotInv
  <2>3. CASE Left(job[i].to)
    BY <2>1, <2>3, LeftStays DEF HeldFor
  <2>4. CASE owner[out[i]] \in Conns /\ user[owner[out[i]]] = job[i].to
    <3>1. CASE owner'[out[i]] = owner[out[i]]
      <4>1. user'[owner[out[i]]] = user[owner[out[i]]]
        BY <2>2, <2>4, UsersStay DEF KnownInv
      <4> QED BY <2>1, <2>4, <3>1, <4>1 DEF HeldFor
    <3>2. CASE Left(job[i].to)
      BY <2>1, <3>2, LeftStays DEF HeldFor
    <3> QED BY <2>2, <2>4, <3>1, <3>2, OwnersStay
  <2> QED BY <2>2, <2>3, <2>4 DEF HeldFor
<1> QED BY <1>1, <1>2

\* What a write() adds is the packet, to the owner of the descriptor.
LEMMA GivenOnce ==
  ASSUME TypeOK, NEW f \in Fds, NEW p \in Packets, Give(f, p),
         NEW c \in Conns, NEW k \in DOMAIN got'[c]
  PROVE  \/ k \in DOMAIN got[c] /\ got'[c][k] = got[c][k]
         \/ got'[c][k] = p /\ owner[f] = c
<1> USE DEF TypeOK, WireOK
<1>1. CASE owner[f] = c
  <2>1. got[c] \in Seq(Packets) /\ got'[c] = Append(got[c], p)
    BY <1>1 DEF Give
  <2> QED BY <1>1, <2>1
<1>2. CASE owner[f] # c
  <2>1. got'[c] = got[c]
    BY <1>2 DEF Give
  <2> QED BY <2>1
<1> QED BY <1>1, <1>2

\* Only an answer of the server or a thread that relays gives anybody anything.
LEMMA WhoGives ==
  ASSUME ServerInv, [Next]_vars
  PROVE  UNCHANGED got \/ (\E f \in Fds, t \in Words : Give(f, Answer(t))) \/ \E i \in Ids : ThrWrite(i)
<1> USE DEF ServerInv, TypeOK
<1>1. CASE Main
  BY <1>1 DEF Main, Accept, ReadLogin, NoLogin, Refuse, Admit, Greet, Words, MainInv
<1>2. ASSUME NEW i \in Ids, Thread(i), ~ThrWrite(i)
      PROVE  UNCHANGED got \/ \E f \in Fds, t \in Words : Give(f, Answer(t))
  <2>1. CASE ThrSent(i)
    <3>1. fd[i] \in Fds /\ "idlist" \in Words
      BY <2>1 DEF ThrSent, SlotInv, Running, Words
    <3> QED BY <2>1, <3>1 DEF ThrSent
  <2> QED BY <1>2, <2>1 DEF Thread, ThrRead, ThrSend, ThrClose, ThrClear
<1> QED BY <1>1, <1>2, ClientsApart, PipeBreaks DEF Next, vars

\* What has been delivered stays where it belongs.
LEMMA GotStays ==
  ASSUME ServerInv, GotInv, [Next]_vars, NEW c \in Conns, NEW k \in DOMAIN got[c], NEW j \in Ids, got[c][k].to = j
  PROVE  Left(j)' \/ (user'[c] = j /\ state'[c] # "out")
<1>1. CASE Left(j)
  BY <1>1, LeftStays DEF ServerInv
<1>2. CASE user[c] = j /\ state[c] # "out"
  BY <1>2, UsersStay DEF ServerInv
<1> QED BY <1>1, <1>2 DEF GotInv

\* An answer of the server is addressed to no id, so only ThrWrite matters.
LEMMA GotKept == ServerInv /\ SendInv /\ GotInv /\ [Next]_vars => GotInv'
<1> SUFFICES ASSUME ServerInv, SendInv, GotInv, [Next]_vars,
                    NEW c \in Conns, NEW k \in DOMAIN got'[c], NEW j \in Ids, got'[c][k].to = j
             PROVE  Left(j)' \/ (user'[c] = j /\ state'[c] # "out")
  BY DEF GotInv, Left
<1> USE DEF ServerInv, TypeOK
<1>1. CASE k \in DOMAIN got[c] /\ got'[c][k] = got[c][k]
  BY <1>1, GotStays
<1>2. CASE \E i \in Ids : ThrWrite(i) /\ got'[c][k] = job[i] /\ owner[out[i]] = c
  <2>1. PICK i \in Ids : ThrWrite(i) /\ got'[c][k] = job[i] /\ owner[out[i]] = c
    BY <1>2
  <2>2. HeldFor(i) /\ out[i] \in Fds
    BY <2>1 DEF SendInv, HeldInv, ThrWrite, SlotInv
  <2>3. CASE Left(j)
    BY <2>3, LeftStays
  <2>4. CASE user[c] = j
    <3>1. state[c] # "out"
      BY <2>1, <2>2 DEF KnownInv
    <3> QED BY <2>1, <2>4, <3>1, UsersStay
  <2> QED BY <2>1, <2>2, <2>3, <2>4 DEF HeldFor
<1>3. \/ k \in DOMAIN got[c] /\ got'[c][k] = got[c][k]
      \/ \E i \in Ids : ThrWrite(i) /\ got'[c][k] = job[i] /\ owner[out[i]] = c
  <2>1. CASE UNCHANGED got
    BY <2>1
  <2>2. ASSUME NEW f \in Fds, NEW t \in Words, Give(f, Answer(t))
        PROVE  k \in DOMAIN got[c] /\ got'[c][k] = got[c][k]
    <3>1. Answer(t) \in Packets /\ Answer(t).to \notin Ids
      BY Packed, ServerAssumption DEF Answer
    <3> QED BY <2>2, <3>1, GivenOnce
  <2>3. ASSUME NEW i \in Ids, ThrWrite(i)
        PROVE  \/ k \in DOMAIN got[c] /\ got'[c][k] = got[c][k]
               \/ got'[c][k] = job[i] /\ owner[out[i]] = c
    <3>1. out[i] \in Fds /\ job[i] \in Packets /\ Give(out[i], job[i])
      BY <2>3 DEF ThrWrite, SlotInv, ThreadsOK
    <3> QED BY <3>1, GivenOnce
  <2>4. \/ UNCHANGED got
        \/ \E f \in Fds, t \in Words : Give(f, Answer(t))
        \/ \E i \in Ids : ThrWrite(i)
    BY WhoGives
  <2> QED BY <2>1, <2>2, <2>3, <2>4
<1> QED BY <1>1, <1>2, <1>3

(* A message for one client reaches another only after one of the addressee's  *)
(* connections has gone: through a descriptor that send_msg() still holds or   *)
(* client_info still names (iot_server.c:262-269, 304-307).                    *)
THEOREM NoStrayDelivery == Spec => []GoesToItsAddressee
<1>1. Init => SendInv /\ GotInv
  BY DEF Init, SendInv, LeavingInv, TodoInv, HeldInv, GotInv
<1>2. ServerInv /\ SendInv /\ [Next]_vars => SendInv'
  BY LeavingKept, TodoKept, HeldKept DEF SendInv
<1>3. GotInv => GoesToItsAddressee
  BY DEF GotInv, GoesToItsAddressee, Left
<1> QED BY ServerInvInit, ServerInvKept, GotKept, <1>1, <1>2, <1>3, PTL DEF Spec
-----------------------------------------------------------------------------
(* The order of what is relayed                                              *)

\* r is what is left of q, up to the words in it.
LeftOf(r, q) ==
  \E k \in 0..Len(q) :
    /\ Len(r) = Len(q) - k
    /\ \A l \in 1..Len(r) : r[l].from = q[l + k].from /\ r[l].n = q[l + k].n

\* What is torn loses its addressee only.
LEMMA TornAlike ==
  ASSUME NEW r \in Seq(Packets)
  PROVE  Len(Torn(r)) = Len(r) /\ \A l \in 1..Len(r) : Torn(r)[l].from = r[l].from /\ Torn(r)[l].n = r[l].n
<1>1. CASE r = <<>>
  BY <1>1 DEF Torn
<1>2. CASE r # <<>>
  <2> DEFINE p == [Head(r) EXCEPT !.to = "nobody"]
  <2>1. Head(r) \in Packets /\ Tail(r) \in Seq(Packets) /\ Head(r) = r[1]
    BY <1>2
  <2>2. p.from = r[1].from /\ p.n = r[1].n
    BY <2>1 DEF Packets
  <2>3. Torn(r) = <<p>> \o Tail(r)
    BY <1>2 DEF Torn
  <2> HIDE DEF p
  <2>4. Len(<<p>> \o Tail(r)) = Len(r) /\ (<<p>> \o Tail(r))[1] = p
    BY <1>2, <2>1
  <2>5. \A l \in 1..Len(r) : l # 1 => (<<p>> \o Tail(r))[l] = r[l]
    BY <1>2, <2>1
  <2> QED BY <2>2, <2>3, <2>4, <2>5
<1> QED BY <1>1, <1>2

LEMMA PartsOfStreams ==
  ASSUME NEW q \in Seq(Packets)
  PROVE  /\ LeftOf(q, q)
         /\ q # <<>> => LeftOf(Tail(q), q) /\ LeftOf(Torn(Tail(q)), q)
         /\ \A k \in 1..Len(q) : \A r \in Remains(q, k) : r \in Seq(Packets) /\ LeftOf(r, q)
<1>1. LeftOf(q, q)
  BY DEF LeftOf
<1>2. ASSUME q # <<>> PROVE LeftOf(Tail(q), q)
  <2>1. 1 \in 0..Len(q) /\ Len(Tail(q)) = Len(q) - 1
    BY <1>2
  <2>2. \A l \in 1..Len(Tail(q)) : Tail(q)[l] = q[l + 1]
    BY <1>2
  <2> QED BY <2>1, <2>2 DEF LeftOf
<1>3. ASSUME NEW r \in Seq(Packets), LeftOf(r, q) PROVE LeftOf(Torn(r), q)
  <2>1. PICK k \in 0..Len(q) :
          /\ Len(r) = Len(q) - k
          /\ \A l \in 1..Len(r) : r[l].from = q[l + k].from /\ r[l].n = q[l + k].n
    BY <1>3 DEF LeftOf
  <2>2. Len(Torn(r)) = Len(r) /\ \A l \in 1..Len(r) : Torn(r)[l].from = r[l].from /\ Torn(r)[l].n = r[l].n
    BY TornAlike
  <2> QED BY <2>1, <2>2 DEF LeftOf
<1>4. ASSUME NEW k \in 1..Len(q) PROVE LeftOf(Rest(q, k), q)
  <2>1. Len(Rest(q, k)) = Len(q) - k /\ \A l \in 1..(Len(q) - k) : Rest(q, k)[l] = q[l + k]
    BY DEF Rest
  <2>2. k \in 0..Len(q)
    OBVIOUS
  <2> QED BY <2>1, <2>2 DEF LeftOf
<1>5. ASSUME q # <<>> PROVE LeftOf(Tail(q), q) /\ LeftOf(Torn(Tail(q)), q)
  <2>1. Tail(q) \in Seq(Packets)
    BY <1>5
  <2> QED BY <1>2, <1>3, <1>5, <2>1
<1>6. ASSUME NEW k \in 1..Len(q), NEW r \in Remains(q, k) PROVE r \in Seq(Packets) /\ LeftOf(r, q)
  <2>1. Rest(q, k) \in Seq(Packets) /\ LeftOf(Rest(q, k), q)
    BY <1>4, RestOfStream
  <2>2. Torn(Rest(q, k)) \in Seq(Packets) /\ LeftOf(Torn(Rest(q, k)), q)
    BY <1>3, <2>1, TornStream
  <2> QED BY <2>1, <2>2 DEF Remains
<1> QED BY <1>1, <1>5, <1>6

\* A client adds to its stream, main() and the thread take from it.
Wrote(s, p) ==
  /\ p \in Packets /\ stream'[s] = Append(stream[s], p)
  /\ Sent(p) => p.from = s /\ p.n = count + 1 /\ count' = count + 1
LEMMA StreamSteps ==
  ASSUME ServerInv, [Next]_vars
  PROVE  /\ count' \in {count, count + 1}
         /\ \A s \in Conns : LeftOf(stream'[s], stream[s]) \/ \E p : Wrote(s, p)
<1> USE DEF ServerInv, TypeOK, WireOK, WorldOK
<1>1. \A s \in Conns : LeftOf(stream[s], stream[s])
  BY PartsOfStreams
<1>2. ASSUME NEW c \in Conns, Client(c)
      PROVE  count' \in {count, count + 1}
             /\ \A s \in Conns : LeftOf(stream'[s], stream[s]) \/ \E p : Wrote(s, p)
  <2>1. CASE Connect(c) \/ Leave(c)
    BY <1>1, <2>1 DEF Connect, Leave
  <2>2. CASE SendLogin(c)
    <3>1. PICK p \in {Login, Half} : stream' = [stream EXCEPT ![c] = Append(@, p)]
      BY <2>2 DEF SendLogin
    <3>4. Wrote(c, p)
      BY <3>1, Packed DEF Wrote, Sent, Login, Half
    <3>2. \A s \in Conns : s # c => stream'[s] = stream[s]
      BY <2>2 DEF SendLogin
    <3>3. count' = count
      BY <2>2 DEF SendLogin
    <3> QED BY <1>1, <3>2, <3>3, <3>4
  <2>3. CASE Send(c)
    <3>1. PICK to \in Targets :
            stream' = [stream EXCEPT ![c] = Append(@, [to |-> to, from |-> c, n |-> count + 1])]
      BY <2>3 DEF Send
    <3>2. count + 1 \in 1..MaxSend /\ count' = count + 1
      BY <2>3, ServerAssumption DEF Send
    <3>3. Wrote(c, [to |-> to, from |-> c, n |-> count + 1])
      BY <3>1, <3>2, Packed DEF Wrote
    <3>4. \A s \in Conns : s # c => stream'[s] = stream[s]
      BY <3>1
    <3> QED BY <1>1, <3>2, <3>3, <3>4
  <2> QED BY <1>2, <2>1, <2>2, <2>3 DEF Client
<1>3. ASSUME ~\E c \in Conns : Client(c)
      PROVE  count' = count /\ \A s \in Conns : LeftOf(stream'[s], stream[s])
  <2>1. count' = count
    BY <1>3, PipeBreaks DEF Next, Main, Accept, ReadLogin, NoLogin, Refuse, Admit, Greet, Thread, ThrRead, ThrSend,
         ThrWrite, ThrSent, ThrClose, ThrClear, vars, world
  <2>2. CASE ReadLogin
    <3> DEFINE o == owner[sock]
    <3>1. o \in Conns /\ stream[o] # <<>>
      BY <2>2 DEF ReadLogin, MainInv
    <3>2. stream' = [stream EXCEPT ![o] = Tail(@)] \/ stream' = [stream EXCEPT ![o] = Torn(Tail(@))]
      BY <2>2 DEF ReadLogin
    <3> HIDE DEF o
    <3>3. stream[o] \in Seq(Packets)
      BY <3>1
    <3>4. LeftOf(Tail(stream[o]), stream[o]) /\ LeftOf(Torn(Tail(stream[o])), stream[o])
      BY <3>1, <3>3, PartsOfStreams
    <3> QED BY <1>1, <2>1, <3>1, <3>2, <3>4
  <2>3. ASSUME NEW i \in Ids, ThrRead(i) PROVE \A s \in Conns : LeftOf(stream'[s], stream[s])
    <3>1. CASE UNCHANGED stream
      BY <1>1, <3>1
    <3>2. ASSUME NEW k \in 1..Len(stream[Peer(i)]), NEW q \in Remains(stream[Peer(i)], k),
                 stream' = [stream EXCEPT ![Peer(i)] = q]
          PROVE  \A s \in Conns : LeftOf(stream'[s], stream[s])
      <4>1. Peer(i) \in Conns
        BY <2>3 DEF ThrRead, SlotInv, Running, Peer
      <4>2. LeftOf(q, stream[Peer(i)])
        BY <4>1, PartsOfStreams
      <4> QED BY <1>1, <3>2, <4>1, <4>2
    <3> QED BY <2>3, <3>1, <3>2 DEF ThrRead
  <2>4. UNCHANGED stream \/ ReadLogin \/ \E i \in Ids : ThrRead(i)
    BY <1>3, PipeBreaks DEF Next, Main, Accept, NoLogin, Refuse, Admit, Greet, Thread, ThrSend,
         ThrWrite, ThrSent, ThrClose, ThrClear, vars
  <2> QED BY <1>1, <2>1, <2>2, <2>3, <2>4
<1> QED BY <1>2, <1>3

\* What has come before the rest of a stream still does after a step.
LEMMA AheadStays ==
  ASSUME ServerInv, [Next]_vars, NEW s \in Conns, NEW n \in 0..MaxSend, n <= count, AheadOf(n, s)
  PROVE  n <= count' /\ AheadOf(n, s)'
<1> USE DEF ServerInv, TypeOK, WireOK, WorldOK
<1>1. n <= count' /\ stream[s] \in Seq(Packets)
  BY StreamSteps, ServerAssumption
<1>2. CASE LeftOf(stream'[s], stream[s])
  <2>1. PICK k \in 0..Len(stream[s]) :
          /\ Len(stream'[s]) = Len(stream[s]) - k
          /\ \A l \in 1..Len(stream'[s]) : /\ stream'[s][l].from = stream[s][l + k].from
                                          /\ stream'[s][l].n = stream[s][l + k].n
    BY <1>2 DEF LeftOf
  <2>2. stream'[s] \in Seq(Packets)
    BY TypesKept
  <2>3. \A l \in DOMAIN stream'[s] : l \in 1..Len(stream'[s]) /\ l + k \in DOMAIN stream[s]
    BY <1>1, <2>1, <2>2
  <2>4. ASSUME NEW l \in DOMAIN stream'[s], Sent(stream'[s][l]) PROVE n < stream'[s][l].n
    <3>1. stream'[s][l].from = stream[s][l + k].from /\ stream'[s][l].n = stream[s][l + k].n
      BY <2>1, <2>3
    <3>2. l + k \in DOMAIN stream[s] /\ Sent(stream[s][l + k])
      BY <2>3, <2>4, <3>1 DEF Sent
    <3> QED BY <3>1, <3>2 DEF AheadOf
  <2> QED BY <1>1, <2>4 DEF AheadOf, Sent
<1>3. ASSUME NEW p, Wrote(s, p) PROVE AheadOf(n, s)'
  <2>1. p \in Packets /\ stream'[s] = Append(stream[s], p)
    BY <1>3 DEF Wrote
  <2>2. \A l \in DOMAIN stream'[s] : (l \in DOMAIN stream[s] /\ stream'[s][l] = stream[s][l]) \/ stream'[s][l] = p
    BY <1>1, <2>1
  <2>3. Sent(p) => n < p.n
    BY <1>1, <1>3, ServerAssumption DEF Wrote
  <2>4. \A l \in DOMAIN stream'[s] : Sent(stream'[s][l]) => n < stream'[s][l].n
    BY <2>2, <2>3 DEF AheadOf
  <2> QED BY <2>4 DEF AheadOf, Sent
<1> QED BY <1>1, <1>2, <1>3, StreamSteps

LEMMA StreamKept == ServerInv /\ StreamInv /\ [Next]_vars => StreamInv'
<1> SUFFICES ASSUME ServerInv, StreamInv, [Next]_vars, NEW s \in Conns
             PROVE  /\ \A k \in DOMAIN stream'[s] :
                         Sent(stream'[s][k]) => stream'[s][k].from = s /\ stream'[s][k].n <= count'
                    /\ \A k, l \in DOMAIN stream'[s] :
                         k < l /\ Sent(stream'[s][k]) /\ Sent(stream'[s][l]) => stream'[s][k].n < stream'[s][l].n
  BY DEF StreamInv, Sent
<1> DEFINE q == stream[s]
           r == stream'[s]
<1>1. q \in Seq(Packets) /\ r \in Seq(Packets)
  BY TypesKept DEF ServerInv, TypeOK, WireOK
<1>2. count \in Nat /\ count' \in {count, count + 1}
  BY StreamSteps, ServerAssumption DEF ServerInv, TypeOK, WorldOK
<1>3. \A k \in DOMAIN q : q[k].n \in Nat /\ (Sent(q[k]) => q[k].from = s /\ q[k].n <= count)
  <2>1. \A k \in DOMAIN q : q[k] \in Packets
    BY <1>1
  <2>2. \A k \in DOMAIN q : Sent(q[k]) => q[k].from = s /\ q[k].n <= count
    BY DEF StreamInv
  <2> HIDE DEF q
  <2>3. \A k \in DOMAIN q : q[k].n \in Nat
    BY <2>1, ServerAssumption DEF Packets
  <2> QED BY <2>2, <2>3
<1>4. \A k, l \in DOMAIN q : k < l /\ Sent(q[k]) /\ Sent(q[l]) => q[k].n < q[l].n
  BY DEF StreamInv
<1>5. LeftOf(r, q) \/ \E p : Wrote(s, p)
  BY StreamSteps
<1>6. CASE LeftOf(r, q)
  <2>1. PICK k \in 0..Len(q) :
          /\ Len(r) = Len(q) - k
          /\ \A l \in 1..Len(r) : r[l].from = q[l + k].from /\ r[l].n = q[l + k].n
    BY <1>6 DEF LeftOf
  <2> HIDE DEF q, r
  <2>2. \A l \in DOMAIN r : l \in 1..Len(r) /\ l + k \in DOMAIN q /\ (Sent(r[l]) <=> Sent(q[l + k]))
    BY <1>1, <2>1 DEF Sent
  <2>3. \A l \in DOMAIN r : Sent(r[l]) => r[l].from = s /\ r[l].n <= count'
    BY <1>2, <1>3, <2>1, <2>2
  <2>4. ASSUME NEW l \in DOMAIN r, NEW m \in DOMAIN r, l < m, Sent(r[l]), Sent(r[m])
        PROVE  r[l].n < r[m].n
    <3>1. l \in 1..Len(r) /\ m \in 1..Len(r) /\ Len(r) \in Nat
      BY <1>1, <2>2
    <3>2. l + k < m + k
      BY <1>1, <2>4, <3>1
    <3>3. q[l + k].n < q[m + k].n
      BY <1>4, <2>2, <2>4, <3>2
    <3> QED BY <2>1, <3>1, <3>3
  <2> QED BY <2>3, <2>4 DEF r
<1>7. ASSUME NEW p, Wrote(s, p)
      PROVE  /\ \A k \in DOMAIN r : Sent(r[k]) => r[k].from = s /\ r[k].n <= count'
             /\ \A k, l \in DOMAIN r : k < l /\ Sent(r[k]) /\ Sent(r[l]) => r[k].n < r[l].n
  <2>1. p \in Packets /\ r = Append(q, p) /\ (Sent(p) => p.from = s /\ p.n = count + 1 /\ count' = count + 1)
    BY <1>7 DEF Wrote
  <2> HIDE DEF q, r
  <2>2. \A l \in DOMAIN r : (l \in DOMAIN q /\ r[l] = q[l]) \/ (l = Len(q) + 1 /\ r[l] = p)
    BY <1>1, <2>1
  <2>3. \A l \in DOMAIN r : Sent(r[l]) => r[l].from = s /\ r[l].n <= count'
    BY <1>2, <1>3, <2>1, <2>2
  <2>4. \A l, m \in DOMAIN r : l < m => l \in DOMAIN q /\ r[l] = q[l]
    BY <1>1, <2>1
  <2>5. \A l, m \in DOMAIN r : l < m /\ Sent(r[l]) /\ Sent(r[m]) => r[l].n < r[m].n
    BY <1>2, <1>3, <1>4, <2>1, <2>2, <2>4
  <2> QED BY <2>3, <2>5
<1> QED BY <1>5, <1>6, <1>7

\* What is read is the head of the stream, and comes before what is left of it.
LEMMA ReadIsFirst ==
  ASSUME ServerInv, StreamInv, NEW i \in Ids, ThrRead(i), thr'[i] = "send"
  PROVE  /\ Peer(i) \in Conns /\ UNCHANGED <<got, owner, fd, count>>
         /\ stream[Peer(i)] # <<>> /\ job'[i] = stream[Peer(i)][1]
         /\ Sent(job'[i]) => job'[i].from = Peer(i) /\ job'[i].n <= count /\ AheadOf(job[i].n, Peer(i))'
<1> USE DEF ServerInv, TypeOK, WireOK, ThreadsOK
<1>1. Peer(i) \in Conns /\ thr[i] = "read" /\ UNCHANGED <<got, owner, fd, count>>
  BY DEF ThrRead, SlotInv, Running, Peer, world, table
<1> DEFINE q == stream[Peer(i)]
<1>2. q \in Seq(Packets)
  BY <1>1
<1>3. PICK k \in 1..Len(q) : \E rest \in Remains(q, k) :
        job' = [job EXCEPT ![i] = Head(q)] /\ stream' = [stream EXCEPT ![Peer(i)] = rest]
  BY DEF ThrRead
<1>4. stream'[Peer(i)] \in Remains(q, k) /\ job'[i] = Head(q)
  BY <1>1, <1>3
<1>5. Peer(i)' = Peer(i)
  BY <1>1 DEF Peer
<1>6. /\ \A m \in DOMAIN q : Sent(q[m]) => q[m].from = Peer(i) /\ q[m].n <= count
      /\ \A m, l \in DOMAIN q : m < l /\ Sent(q[m]) /\ Sent(q[l]) => q[m].n < q[l].n
  BY <1>1 DEF StreamInv
<1> DEFINE r == stream'[Peer(i)]
<1>7. r \in Remains(q, k)
  BY <1>4
<1> HIDE DEF q, r
<1>8. q # <<>> /\ Head(q) = q[1] /\ 1 \in DOMAIN q
  BY <1>2, <1>3
<1>9. \A l \in DOMAIN r : /\ r[l].from = q[l + k].from /\ r[l].n = q[l + k].n
                         /\ l + k \in DOMAIN q /\ 1 < l + k
  <2> DEFINE p == Rest(q, k)
  <2>1. p \in Seq(Packets) /\ \A l \in 1..Len(p) : p[l] = q[l + k] /\ l + k \in DOMAIN q /\ 1 < l + k
    BY <1>2, <1>3 DEF Rest
  <2>2. r = p \/ r = Torn(p)
    BY <1>7 DEF Remains
  <2> HIDE DEF p
  <2>3. /\ Len(r) = Len(p) /\ r \in Seq(Packets)
        /\ \A l \in 1..Len(p) : r[l].from = p[l].from /\ r[l].n = p[l].n
    BY <2>1, <2>2, TornAlike, TornStream
  <2>4. \A l \in DOMAIN r : l \in 1..Len(p)
    BY <2>3
  <2> QED BY <2>1, <2>3, <2>4
<1>10. Sent(q[1]) => \A l \in DOMAIN r : Sent(r[l]) => q[1].n < r[l].n
  BY <1>6, <1>8, <1>9 DEF Sent
<1>11. Sent(q[1]) => \A l \in DOMAIN stream'[Peer(i)] : Sent(stream'[Peer(i)][l]) => job'[i].n < stream'[Peer(i)][l].n
  BY <1>4, <1>8, <1>10 DEF r
<1>12. Sent(q[1]) => AheadOf(job[i].n, Peer(i))'
  BY <1>5, <1>11 DEF AheadOf, Sent
<1>13. stream[Peer(i)] # <<>> /\ job'[i] = stream[Peer(i)][1]
  BY <1>4, <1>8 DEF q
<1>14. Sent(job'[i]) => job'[i].from = Peer(i) /\ job'[i].n <= count /\ AheadOf(job[i].n, Peer(i))'
  BY <1>4, <1>6, <1>8, <1>12
<1> QED BY <1>1, <1>13, <1>14

\* A thread keeps its client and its message until it has sent it.
LEMMA JobSteps ==
  ASSUME ServerInv, [Next]_vars, NEW i \in Ids, Busy(i)'
  PROVE  \/ ThrRead(i) /\ thr'[i] = "send"
         \/ /\ Busy(i) /\ job'[i] = job[i] /\ todo'[i] \subseteq todo[i] /\ Peer(i)' = Peer(i)
            /\ ThrSend(i) \/ (todo'[i] = todo[i] /\ out'[i] = out[i] /\ (thr'[i] = "write" => thr[i] = "write"))
<1> USE DEF ServerInv, TypeOK, ThreadsOK, Busy
<1>1. ASSUME NEW j \in Ids, Thread(j), ~(ThrRead(i) /\ thr'[i] = "send")
      PROVE  /\ Busy(i) /\ job'[i] = job[i] /\ todo'[i] \subseteq todo[i]
             /\ ThrSend(i) \/ (todo'[i] = todo[i] /\ out'[i] = out[i] /\ (thr'[i] = "write" => thr[i] = "write"))
  <2>1. CASE j = i
    BY <1>1, <2>1 DEF Thread, ThrRead, ThrSend, ThrWrite, ThrSent, ThrClose, ThrClear
  <2>2. CASE j # i
    BY <1>1, <2>2 DEF Thread, ThrRead, ThrSend, ThrWrite, ThrSent, ThrClose, ThrClear
  <2> QED BY <2>1, <2>2
<1>2. ASSUME Main
      PROVE  Busy(i) /\ job'[i] = job[i] /\ todo'[i] = todo[i] /\ out'[i] = out[i] /\ thr'[i] = thr[i]
  BY <1>2 DEF Main, Accept, ReadLogin, NoLogin, Refuse, Admit, Greet, threads
<1>3. ASSUME ~(ThrRead(i) /\ thr'[i] = "send")
      PROVE  /\ Busy(i) /\ job'[i] = job[i] /\ todo'[i] \subseteq todo[i]
             /\ ThrSend(i) \/ (todo'[i] = todo[i] /\ out'[i] = out[i] /\ (thr'[i] = "write" => thr[i] = "write"))
  BY <1>1, <1>2, <1>3, ClientsApart, PipeBreaks DEF Next, threads, vars
<1>4. ASSUME Busy(i) PROVE Peer(i)' = Peer(i)
  <2>1. fd[i] \in Fds /\ owner[fd[i]] \in Conns /\ user[owner[fd[i]]] = i
    BY <1>4 DEF SlotInv, Running
  <2>2. fd'[i] = fd[i]
    <3>1. \A j \in Ids : Thread(j) => fd'[i] = fd[i]
      BY <1>4 DEF Thread, ThrRead, ThrSend, ThrWrite, ThrSent, ThrClose, ThrClear, table, TableOK
    <3>2. Main => Admit \/ UNCHANGED fd
      BY DEF Main, Accept, ReadLogin, NoLogin, Refuse, Greet, table
    <3>3. CASE Admit
      <4>1. fd[login] = -1 /\ -1 \notin Fds /\ fd' = [fd EXCEPT ![login] = sock]
        BY <3>3, ServerAssumption DEF Admit
      <4> QED BY <2>1, <4>1 DEF TableOK
    <3> QED BY <3>1, <3>2, <3>3, ClientsApart, PipeBreaks DEF Next, vars, table
  <2>3. owner'[fd[i]] = owner[fd[i]]
    <3>1. CASE Accept
      <4>1. Lowest(Free) # fd[i]
        BY <2>1, <3>1, LowestIsFree DEF Accept, Free, NoConn, Conns
      <4> QED BY <2>1, <3>1, <4>1 DEF Accept, WireOK
    <3>2. ASSUME NEW j \in Ids, ThrClose(j) PROVE owner'[fd[i]] = owner[fd[i]]
      <4>1. user[owner[fd[j]]] = j /\ j # i
        BY <1>4, <3>2 DEF ThrClose, SlotInv, Running
      <4> QED BY <2>1, <3>2, <4>1 DEF ThrClose, WireOK
    <3>3. Accept \/ UNCHANGED owner \/ \E j \in Ids : ThrClose(j)
      <4>1. Main => Accept \/ UNCHANGED owner
        BY DEF Main, ReadLogin, NoLogin, Refuse, Admit, Greet
      <4>2. \A j \in Ids : Thread(j) => ThrClose(j) \/ UNCHANGED owner
        BY DEF Thread, ThrRead, ThrSend, ThrWrite, ThrSent, ThrClear
      <4> QED BY <4>1, <4>2, ClientsApart, PipeBreaks DEF Next, vars
    <3> QED BY <3>1, <3>2, <3>3
  <2> QED BY <2>2, <2>3 DEF Peer
<1> QED BY <1>3, <1>4

LEMMA JobKept == ServerInv /\ StreamInv /\ JobInv /\ [Next]_vars => JobInv'
<1> SUFFICES ASSUME ServerInv, StreamInv, JobInv, [Next]_vars,
                    NEW i \in Ids, Busy(i)', Sent(job'[i])
             PROVE  (job[i].from = Peer(i) /\ job[i].n <= count /\ AheadOf(job[i].n, Peer(i)))'
  BY DEF JobInv, Sent
<1>1. CASE ThrRead(i) /\ thr'[i] = "send"
  <2>1. Peer(i)' = Peer(i) /\ count' = count
    BY <1>1, ReadIsFirst DEF Peer
  <2> QED BY <1>1, <2>1, ReadIsFirst
<1>2. CASE Busy(i) /\ job'[i] = job[i] /\ Peer(i)' = Peer(i)
  <2>1. job[i].from = Peer(i) /\ job[i].n <= count /\ AheadOf(job[i].n, Peer(i))
    BY <1>2 DEF JobInv, Sent
  <2>2. Peer(i) \in Conns
    BY <1>2 DEF ServerInv, SlotInv, Running, Busy, Peer
  <2>3. job[i].n \in 0..MaxSend
    BY DEF ServerInv, TypeOK, ThreadsOK, Packets
  <2>4. job[i].n <= count' /\ AheadOf(job[i].n, Peer(i))'
    <3> DEFINE n == job[i].n
               c == Peer(i)
    <3>1. n <= count' /\ \A l \in DOMAIN stream'[c] : Sent(stream'[c][l]) => n < stream'[c][l].n
      <4>1. n <= count /\ AheadOf(n, c) /\ n \in 0..MaxSend /\ c \in Conns
        BY <2>1, <2>2, <2>3
      <4> HIDE DEF n, c
      <4>2. \A m \in 0..MaxSend, d \in Conns : m <= count /\ AheadOf(m, d) =>
              m <= count' /\ \A l \in DOMAIN stream'[d] : Sent(stream'[d][l]) => m < stream'[d][l].n
        BY AheadStays DEF AheadOf, Sent
      <4> QED BY <4>1, <4>2
    <3> QED BY <1>2, <3>1 DEF AheadOf, Sent
  <2> QED BY <1>2, <2>1, <2>4
<1> QED BY <1>1, <1>2, JobSteps

\* What a connection gets anew is the last thing it got, and what a thread relayed.
LEMMA GotSteps ==
  ASSUME ServerInv, [Next]_vars, NEW c \in Conns, NEW k \in DOMAIN got'[c], Sent(got'[c][k])
  PROVE  \/ k \in DOMAIN got[c] /\ got'[c][k] = got[c][k]
         \/ /\ k = Len(got[c]) + 1
            /\ \E i \in Ids : ThrWrite(i) /\ got'[c][k] = job[i] /\ owner[out[i]] = c /\ out[i] \in Fds
<1> USE DEF ServerInv, TypeOK, WireOK
<1>1. ASSUME NEW f \in Fds, NEW p \in Packets, Give(f, p)
      PROVE  \/ k \in DOMAIN got[c] /\ got'[c][k] = got[c][k]
             \/ k = Len(got[c]) + 1 /\ got'[c][k] = p /\ owner[f] = c
  <2>1. CASE owner[f] = c
    <3>1. got[c] \in Seq(Packets) /\ got'[c] = Append(got[c], p)
      BY <1>1, <2>1 DEF Give
    <3> QED BY <2>1, <3>1
  <2>2. CASE owner[f] # c
    <3>1. got'[c] = got[c]
      BY <1>1, <2>2 DEF Give
    <3> QED BY <3>1
  <2> QED BY <2>1, <2>2
<1>2. CASE UNCHANGED got
  BY <1>2
<1>3. ASSUME NEW f \in Fds, NEW t \in Words, Give(f, Answer(t))
      PROVE  k \in DOMAIN got[c] /\ got'[c][k] = got[c][k]
  BY <1>1, <1>3, Packed DEF Answer, Sent
<1>4. ASSUME NEW i \in Ids, ThrWrite(i)
      PROVE  \/ k \in DOMAIN got[c] /\ got'[c][k] = got[c][k]
             \/ /\ k = Len(got[c]) + 1
                /\ got'[c][k] = job[i] /\ owner[out[i]] = c /\ out[i] \in Fds
  <2>1. out[i] \in Fds /\ job[i] \in Packets /\ Give(out[i], job[i])
    BY <1>4 DEF ThrWrite, SlotInv, ThreadsOK
  <2> QED BY <1>1, <2>1
<1>5. UNCHANGED got \/ (\E f \in Fds, t \in Words : Give(f, Answer(t))) \/ \E i \in Ids : ThrWrite(i)
  BY WhoGives
<1> QED BY <1>2, <1>3, <1>4, <1>5

\* A step gives to a connection that has been accepted, or to none.
LEMMA FreshStays ==
  ASSUME ServerInv, [Next]_vars, NEW c \in Conns, \A f \in Fds : owner[f] # c
  PROVE  got'[c] = got[c]
<1> USE DEF ServerInv, TypeOK, WireOK
<1>1. \A f \in Fds, p \in Packets : Give(f, p) => got'[c] = got[c]
  BY DEF Give
<1>2. \A i \in Ids : ThrWrite(i) => \E f \in Fds, p \in Packets : Give(f, p)
  BY DEF ThrWrite, SlotInv, ThreadsOK
<1> QED BY <1>1, <1>2, WhoGives, Packed

LEMMA FreshKept == ServerInv /\ FreshInv /\ [Next]_vars => FreshInv'
<1> SUFFICES ASSUME ServerInv, FreshInv, [Next]_vars PROVE FreshInv'
  OBVIOUS
<1> USE DEF ServerInv, TypeOK, WireOK, WorldOK
<1>1. ASSUME NEW c \in Conns, state'[c] = "out" PROVE got'[c] = <<>>
  <2>1. state[c] = "out"
    BY <1>1, UsersStay
  <2>2. \A f \in Fds : owner[f] # c
    BY <2>1 DEF KnownInv
  <2> QED BY <2>1, <2>2, FreshStays DEF FreshInv
<1>2. CASE \E c \in Conns : Connect(c)
  <2>1. PICK c \in Conns : Connect(c)
    BY <1>2
  <2>2. backlog' = Append(backlog, c) /\ state[c] = "out" /\ UNCHANGED <<got, owner>>
    BY <2>1 DEF Connect
  <2>3. \A k \in DOMAIN backlog' : (k \in DOMAIN backlog /\ backlog'[k] = backlog[k]) \/ (k = Len(backlog) + 1 /\ backlog'[k] = c)
    BY <2>2
  <2>4. got[c] = <<>> /\ \A f \in Fds : owner[f] # c
    BY <2>2 DEF FreshInv, KnownInv
  <2>5. \A k \in DOMAIN backlog : backlog[k] # c
    BY <2>2 DEF KnownInv
  <2>6. \A k \in DOMAIN backlog' : got'[backlog'[k]] = <<>> /\ \A f \in Fds : owner'[f] # backlog'[k]
    BY <2>2, <2>3, <2>4 DEF FreshInv
  <2>7. \A k, l \in DOMAIN backlog' : k # l => backlog'[k] # backlog'[l]
    BY <2>3, <2>5 DEF FreshInv
  <2> QED BY <1>1, <2>6, <2>7 DEF FreshInv
<1>3. CASE Accept
  <2>1. backlog # <<>> /\ backlog' = Tail(backlog) /\ owner' = [owner EXCEPT ![Lowest(Free)] = Head(backlog)] /\ UNCHANGED got
    BY <1>3 DEF Accept
  <2>2. 1 \in DOMAIN backlog /\ Head(backlog) = backlog[1]
    BY <2>1
  <2>3. \A k \in DOMAIN backlog' : k + 1 \in DOMAIN backlog /\ backlog'[k] = backlog[k + 1] /\ k + 1 # 1
    BY <2>1
  <2>4. \A k \in DOMAIN backlog' : got'[backlog'[k]] = <<>>
    BY <2>1, <2>3 DEF FreshInv
  <2>5. \A k \in DOMAIN backlog' : backlog'[k] # Head(backlog)
    BY <2>2, <2>3 DEF FreshInv
  <2>6. \A k \in DOMAIN backlog' : \A f \in Fds : owner'[f] # backlog'[k]
    BY <2>1, <2>3, <2>5 DEF FreshInv
  <2>7. \A k, l \in DOMAIN backlog' : k \in Int /\ l \in Int /\ (k # l => k + 1 # l + 1)
    BY <2>1
  <2>8. \A k, l \in DOMAIN backlog' : k # l => backlog'[k] # backlog'[l]
    BY <2>3, <2>7 DEF FreshInv
  <2> QED BY <1>1, <2>4, <2>6, <2>8 DEF FreshInv
<1>4. CASE UNCHANGED backlog /\ ~Accept
  <2>1. \A k \in DOMAIN backlog : backlog[k] \in Conns
    OBVIOUS
  <2>2. \A k \in DOMAIN backlog : got'[backlog[k]] = <<>>
    BY <2>1, FreshStays DEF FreshInv
  <2>3. UNCHANGED owner \/ \E i \in Ids : fd[i] \in Fds /\ owner' = [owner EXCEPT ![fd[i]] = NoConn]
    <3>1. Main => UNCHANGED owner
      BY <1>4 DEF Main, ReadLogin, NoLogin, Refuse, Admit, Greet
    <3>2. \A i \in Ids : Thread(i) => ThrClose(i) \/ UNCHANGED owner
      BY DEF Thread, ThrRead, ThrSend, ThrWrite, ThrSent, ThrClear
    <3>3. \A i \in Ids : ThrClose(i) => fd[i] \in Fds /\ owner' = [owner EXCEPT ![fd[i]] = NoConn]
      BY DEF ThrClose, SlotInv, Running
    <3> QED BY <3>1, <3>2, <3>3, ClientsApart, PipeBreaks DEF Next, vars
  <2>4. \A k \in DOMAIN backlog : \A f \in Fds : owner'[f] # backlog[k]
    BY <2>1, <2>3 DEF FreshInv, NoConn, Conns
  <2> QED BY <1>1, <1>4, <2>2, <2>4 DEF FreshInv
<1>5. Accept \/ (\E c \in Conns : Connect(c)) \/ UNCHANGED backlog
  BY PipeBreaks DEF Next, Client, SendLogin, Send, Leave, Main, ReadLogin, NoLogin, Refuse, Admit, Greet, Thread,
       ThrRead, ThrSend, ThrWrite, ThrSent, ThrClose, ThrClear, vars
<1> QED BY <1>2, <1>3, <1>4, <1>5

LEMMA PastKept == ServerInv /\ StreamInv /\ JobInv /\ PastInv /\ [Next]_vars => PastInv'
<1> SUFFICES ASSUME ServerInv, StreamInv, JobInv, PastInv, [Next]_vars,
                    NEW c \in Conns, NEW k \in DOMAIN got'[c], Sent(got'[c][k])
             PROVE  /\ got'[c][k].n <= count' /\ AheadOf(got[c][k].n, got[c][k].from)'
                    /\ \A i \in Ids : Busy(i)' /\ job'[i].from = got'[c][k].from => got'[c][k].n <= job'[i].n
  BY DEF PastInv, Sent
<1> DEFINE n == got'[c][k].n
           s == got'[c][k].from
<1>1. got'[c][k] \in Packets
  BY TypesKept DEF TypeOK, WireOK
<1>2. n \in 0..MaxSend /\ s \in Conns /\ n \in Int
  BY <1>1 DEF Packets, Sent
\* Before the step it was in the past already, or what a thread was about to write.
<1>3. /\ n <= count /\ AheadOf(n, s)
      /\ \A i \in Ids : Busy(i) /\ job[i].from = s => n <= job[i].n
  <2>1. CASE k \in DOMAIN got[c] /\ got'[c][k] = got[c][k]
    BY <2>1 DEF PastInv
  <2>2. ASSUME NEW i \in Ids, ThrWrite(i), got'[c][k] = job[i]
        PROVE  /\ n <= count /\ AheadOf(n, s)
               /\ \A j \in Ids : Busy(j) /\ job[j].from = s => n <= job[j].n
    <3>1. Busy(i) /\ s = Peer(i) /\ n <= count /\ AheadOf(n, s)
      BY <2>2 DEF JobInv, ThrWrite, Busy
    <3>2. ASSUME NEW j \in Ids, Busy(j), job[j].from = s PROVE j = i
      <4>1. job[j].from = Peer(j)
        BY <3>2 DEF JobInv, Sent
      <4>2. user[Peer(j)] = j /\ user[Peer(i)] = i
        BY <3>1, <3>2 DEF ServerInv, SlotInv, Running, Busy, Peer
      <4> QED BY <3>1, <3>2, <4>1, <4>2
    <3> QED BY <1>2, <2>2, <3>1, <3>2
  <2> QED BY <2>1, <2>2, GotSteps
<1>4. n <= count' /\ \A l \in DOMAIN stream'[s] : Sent(stream'[s][l]) => n < stream'[s][l].n
  <2> HIDE DEF n, s
  <2>1. \A m \in 0..MaxSend, d \in Conns : m <= count /\ AheadOf(m, d) =>
          m <= count' /\ \A l \in DOMAIN stream'[d] : Sent(stream'[d][l]) => m < stream'[d][l].n
    BY AheadStays DEF AheadOf, Sent
  <2> QED BY <1>2, <1>3, <2>1
<1>5. AheadOf(got[c][k].n, got[c][k].from)'
  BY <1>4 DEF AheadOf, Sent
<1>6. ASSUME NEW i \in Ids, Busy(i)', job'[i].from = s PROVE n <= job'[i].n
  <2>1. CASE ThrRead(i) /\ thr'[i] = "send"
    <3>1. Peer(i) \in Conns /\ stream[Peer(i)] # <<>> /\ job'[i] = stream[Peer(i)][1] /\ s = Peer(i)
      BY <1>2, <1>6, <2>1, ReadIsFirst DEF Sent
    <3>2. 1 \in DOMAIN stream[s]
      BY <3>1 DEF ServerInv, TypeOK, WireOK
    <3>3. Sent(stream[s][1])
      BY <1>6, <3>1 DEF Sent
    <3>4. n < stream[s][1].n
      BY <1>3, <3>2, <3>3 DEF AheadOf
    <3>5. stream[s][1].n \in Int
      BY <3>1, TypesKept DEF TypeOK, ThreadsOK, Packets
    <3> HIDE DEF n, s
    <3> QED BY <1>2, <3>1, <3>4, <3>5
  <2>2. CASE Busy(i) /\ job'[i] = job[i]
    BY <1>3, <1>6, <2>2
  <2> QED BY <1>6, <2>1, <2>2, JobSteps
<1> QED BY <1>4, <1>5, <1>6

LEMMA AimKept == ServerInv /\ LeavingInv /\ AimInv /\ [Next]_vars => AimInv'
<1> SUFFICES ASSUME ServerInv, LeavingInv, AimInv, [Next]_vars, NEW i \in Ids, thr'[i] = "write"
             PROVE  \E j \in Ids \ todo'[i] : AimedAt(i, j)'
  BY DEF AimInv, AimedAt, Left
<1> USE DEF ServerInv, TypeOK
<1>1. CASE ThrSend(i)
  <2>1. PICK j \in todo[i] : /\ fd[j] # -1 /\ out'[i] = fd[j] /\ todo'[i] = todo[i] \ {j}
                             /\ UNCHANGED <<state, user, owner>>
    BY <1>1 DEF ThrSend, ThreadsOK, world
  <2>2. j \in Ids \ todo'[i]
    BY <2>1 DEF ThreadsOK
  <2>3. Left(j) \/ (owner[fd[j]] \in Conns /\ user[owner[fd[j]]] = j)
    BY <1>1, <2>1, <2>2, TableIsRight, SendsWhileUp
  <2>4. AimedAt(i, j)'
    BY <2>1, <2>3 DEF AimedAt, Left
  <2> QED BY <2>2, <2>4
<1>2. CASE thr[i] = "write" /\ todo'[i] = todo[i] /\ out'[i] = out[i]
  <2>1. PICK j \in Ids \ todo[i] : AimedAt(i, j)
    BY <1>2 DEF AimInv
  <2>2. out[i] \in Fds
    BY <1>2 DEF SlotInv
  <2>3. CASE Left(j)
    BY <1>2, <2>1, <2>3, LeftStays DEF AimedAt
  <2>4. CASE owner[out[i]] \in Conns /\ user[owner[out[i]]] = j
    <3>1. CASE owner'[out[i]] = owner[out[i]]
      <4>1. user'[owner[out[i]]] = user[owner[out[i]]]
        BY <2>2, <2>4, UsersStay DEF KnownInv
      <4> QED BY <1>2, <2>1, <2>4, <3>1, <4>1 DEF AimedAt
    <3>2. CASE Left(j)
      BY <1>2, <2>1, <3>2, LeftStays DEF AimedAt
    <3> QED BY <2>2, <2>4, <3>1, <3>2, OwnersStay
  <2> QED BY <2>1, <2>3, <2>4 DEF AimedAt
<1>3. Busy(i)' /\ ~(ThrRead(i) /\ thr'[i] = "send")
  BY DEF Busy
<1> QED BY <1>1, <1>2, <1>3, JobSteps

\* One that has left makes the descriptor of anyone else's connection one that was shared.
LEMMA SharedBy ==
  ASSUME NEW c \in Conns, NEW j, Left(j), j # user[c]
  PROVE  Shared(c)
BY DEF Left, Shared

LEMMA SharedStays ==
  ASSUME TypeOK, KnownInv, [Next]_vars, NEW c \in Conns, state[c] # "out", Shared(c)
  PROVE  Shared(c)'
<1>1. PICK d \in Conns : state[d] = "gone" /\ user[d] # user[c]
  BY DEF Shared
<1>2. state'[d] = "gone" /\ user'[d] = user[d] /\ user'[c] = user[c]
  BY <1>1, UsersStay
<1> QED BY <1>1, <1>2 DEF Shared

\* accept() gives a descriptor to one that has been sent nothing.
LEMMA NewOwners ==
  ASSUME ServerInv, FreshInv, [Next]_vars, NEW f \in Fds, NEW c \in Conns, owner'[f] = c, owner[f] # c
  PROVE  got[c] = <<>>
<1> USE DEF ServerInv, TypeOK, WireOK
<1>1. CASE Accept
  <2>1. c = Head(backlog) /\ backlog # <<>>
    BY <1>1 DEF Accept
  <2>2. 1 \in DOMAIN backlog /\ Head(backlog) = backlog[1]
    BY <2>1
  <2> QED BY <2>1, <2>2 DEF FreshInv
<1>2. CASE ~Accept
  <2>1. Main => UNCHANGED owner
    BY <1>2 DEF Main, ReadLogin, NoLogin, Refuse, Admit, Greet
  <2>2. \A i \in Ids : Thread(i) => ThrClose(i) \/ UNCHANGED owner
    BY DEF Thread, ThrRead, ThrSend, ThrWrite, ThrSent, ThrClear
  <2>3. \A i \in Ids : ThrClose(i) => owner'[f] # c
    BY DEF ThrClose, NoConn, Conns
  <2> QED BY <2>1, <2>2, <2>3, ClientsApart, PipeBreaks DEF Next, vars
<1> QED BY <1>1, <1>2

\* Two threads never relay messages of the same client.
LEMMA JobsApart ==
  ASSUME ServerInv, JobInv, NEW i \in Ids, NEW j \in Ids, Busy(i), Busy(j),
         Sent(job[i]), job[j].from = job[i].from
  PROVE  j = i
<1>1. Peer(j) = Peer(i)
  BY DEF JobInv, Sent
<1>2. user[Peer(j)] = j /\ user[Peer(i)] = i
  BY DEF ServerInv, SlotInv, Running, Busy, Peer
<1> QED BY <1>1, <1>2

LEMMA OnceKept == ServerInv /\ LeavingInv /\ OrderInv /\ [Next]_vars => OnceInv'
<1> SUFFICES ASSUME ServerInv, LeavingInv, OrderInv, [Next]_vars, NEW i \in Ids, NEW c \in Conns,
                    Busy(i)', NEW k \in DOMAIN got'[c], Sent(got'[c][k]),
                    got'[c][k].from = job'[i].from, got'[c][k].n = job'[i].n
             PROVE  Shared(c)' \/ (user'[c] \notin todo'[i] /\ ~(thr'[i] = "write" /\ owner'[out'[i]] = c))
  BY DEF OnceInv, Has, Sent, Busy, Shared
<1> USE DEF ServerInv, OrderInv
<1>1. ~(ThrRead(i) /\ thr'[i] = "send")
  <2> SUFFICES ASSUME ThrRead(i), thr'[i] = "send" PROVE FALSE
    OBVIOUS
  <2> DEFINE q == stream[Peer(i)]
  <2>1. /\ UNCHANGED <<got, count>> /\ q # <<>> /\ job'[i] = q[1]
        /\ Peer(i) \in Conns /\ job'[i].from = Peer(i)
    BY ReadIsFirst DEF Sent
  <2>2. 1 \in DOMAIN q
    BY <2>1 DEF TypeOK, WireOK
  <2>3. AheadOf(got[c][k].n, Peer(i)) /\ Sent(q[1])
    BY <2>1 DEF PastInv, Sent
  <2>4. got[c][k].n < q[1].n
    BY <2>2, <2>3 DEF AheadOf
  <2>5. got[c][k].n = q[1].n /\ q[1].n \in Int
    BY <2>1, TypesKept DEF TypeOK, ThreadsOK, Packets
  <2> HIDE DEF q
  <2> QED BY <2>4, <2>5
<1>2. /\ Busy(i) /\ job'[i] = job[i] /\ todo'[i] \subseteq todo[i]
      /\ ThrSend(i) \/ (todo'[i] = todo[i] /\ out'[i] = out[i] /\ (thr'[i] = "write" => thr[i] = "write"))
  BY <1>1, JobSteps
\* Whoever has got something was accepted, and keeps its name.
<1>3. state[c] # "out" /\ user'[c] = user[c]
  <2>1. state[c] = "out" => \A f \in Fds : owner[f] # c
    BY DEF KnownInv
  <2>2. state[c] = "out" => got'[c] = <<>>
    BY <2>1, FreshStays DEF FreshInv
  <2> QED BY <2>2, UsersStay
<1>4. ASSUME Shared(c) PROVE Shared(c)'
  BY <1>3, <1>4, SharedStays
<1>5. CASE ThrWrite(i) /\ owner[out[i]] = c
  <2>1. thr'[i] = "send" /\ thr[i] = "write" /\ todo'[i] = todo[i]
    BY <1>5 DEF ThrWrite, TypeOK, ThreadsOK
  <2>2. PICK j \in Ids \ todo[i] : AimedAt(i, j)
    BY <2>1 DEF AimInv
  <2>3. CASE user[c] = j
    BY <1>3, <2>1, <2>2, <2>3
  <2>4. CASE user[c] # j
    <3>1. Left(j)
      BY <1>5, <2>2, <2>4 DEF AimedAt
    <3> QED BY <1>4, <2>4, <3>1, SharedBy
  <2> QED BY <2>3, <2>4
<1>6. CASE Has(c, i) /\ ~(ThrWrite(i) /\ owner[out[i]] = c)
  <2>1. Shared(c) \/ (user[c] \notin todo[i] /\ ~(thr[i] = "write" /\ owner[out[i]] = c))
    BY <1>2, <1>6 DEF OnceInv
  <2>2. ASSUME user[c] \notin todo[i], ~(thr[i] = "write" /\ owner[out[i]] = c),
               thr'[i] = "write", owner'[out'[i]] = c
        PROVE  Shared(c)
    <3>1. CASE ThrSend(i)
      <4>1. PICK j \in todo[i] : fd[j] # -1 /\ out'[i] = fd[j] /\ UNCHANGED owner
        BY <2>2, <3>1 DEF ThrSend, TypeOK, ThreadsOK
      <4>2. j \in Ids /\ j # user[c] /\ owner[fd[j]] = c
        BY <2>2, <4>1 DEF TypeOK, ThreadsOK
      <4>3. Left(j)
        BY <3>1, <4>1, <4>2, TableIsRight, SendsWhileUp
      <4> QED BY <4>2, <4>3, SharedBy
    <3>2. CASE thr[i] = "write" /\ out'[i] = out[i]
      <4>1. out[i] \in Fds /\ owner[out[i]] # c /\ owner'[out[i]] = c
        BY <2>2, <3>2 DEF SlotInv
      <4>2. got[c] = <<>>
        BY <4>1, NewOwners
      <4> QED BY <1>6, <4>2 DEF Has
    <3> QED BY <1>2, <2>2, <3>1, <3>2
  <2> QED BY <1>2, <1>3, <1>4, <2>1, <2>2
<1>7. Has(c, i) \/ (ThrWrite(i) /\ owner[out[i]] = c)
  <2>1. CASE k \in DOMAIN got[c] /\ got'[c][k] = got[c][k]
    BY <1>2, <2>1 DEF Has
  <2>2. ASSUME NEW j \in Ids, ThrWrite(j), got'[c][k] = job[j], owner[out[j]] = c
        PROVE  ThrWrite(i) /\ owner[out[i]] = c
    <3>1. Busy(j) /\ Sent(job[i]) /\ job[j].from = job[i].from
      BY <1>2, <2>2 DEF ThrWrite, Busy, Sent
    <3>2. j = i
      BY <1>2, <3>1, JobsApart
    <3> QED BY <2>2, <3>2
  <2> QED BY <2>1, <2>2, GotSteps
<1> QED BY <1>5, <1>6, <1>7

LEMMA InOrderKept == ServerInv /\ OrderInv /\ InOrder /\ [Next]_vars => InOrder'
<1> SUFFICES ASSUME ServerInv, OrderInv, InOrder, [Next]_vars, NEW c \in Conns,
                    NEW k \in DOMAIN got'[c], NEW l \in DOMAIN got'[c],
                    k < l, Sent(got'[c][k]), got'[c][l].from = got'[c][k].from
             PROVE  got'[c][k].n < got'[c][l].n \/ (got'[c][k].n = got'[c][l].n /\ Shared(c)')
  BY DEF InOrder, Sent, Shared
<1> USE DEF ServerInv, OrderInv
<1>1. got[c] \in Seq(Packets) /\ got'[c] \in Seq(Packets) /\ k \in Nat /\ l \in Nat
  BY TypesKept DEF TypeOK, WireOK
<1>2. \A m \in DOMAIN got[c] : m <= Len(got[c])
  BY <1>1
<1>3. state[c] # "out"
  <2>1. state[c] = "out" => \A f \in Fds : owner[f] # c
    BY DEF KnownInv
  <2>2. state[c] = "out" => got'[c] = <<>>
    BY <2>1, FreshStays DEF FreshInv
  <2> QED BY <2>2
<1>4. Sent(got'[c][l])
  BY DEF Sent
<1>5. CASE l \in DOMAIN got[c] /\ got'[c][l] = got[c][l]
  <2>1. k \in DOMAIN got[c] /\ got'[c][k] = got[c][k]
    <3>1. k # Len(got[c]) + 1
      BY <1>1, <1>2, <1>5
    <3> QED BY <3>1, GotSteps
  <2>2. got[c][k].n < got[c][l].n \/ (got[c][k].n = got[c][l].n /\ Shared(c))
    BY <1>5, <2>1 DEF InOrder, Sent, Shared
  <2> QED BY <1>3, <1>5, <2>1, <2>2, SharedStays
<1>6. ASSUME NEW i \in Ids, l = Len(got[c]) + 1, ThrWrite(i), got'[c][l] = job[i], owner[out[i]] = c
      PROVE  got'[c][k].n < got'[c][l].n \/ (got'[c][k].n = got'[c][l].n /\ Shared(c)')
  <2>1. k \in DOMAIN got[c] /\ got'[c][k] = got[c][k]
    <3>1. k # Len(got[c]) + 1
      BY <1>1, <1>6
    <3> QED BY <3>1, GotSteps
  <2>2. Busy(i) /\ thr[i] = "write"
    BY <1>6 DEF ThrWrite, Busy
  <2>3. got[c][k].n <= job[i].n
    BY <1>6, <2>1, <2>2 DEF PastInv
  <2>4. ASSUME got[c][k].n = job[i].n PROVE Shared(c)'
    <3>1. Has(c, i)
      BY <1>6, <2>1, <2>4 DEF Has
    <3>2. Shared(c)
      BY <1>6, <2>2, <3>1 DEF OnceInv
    <3> QED BY <1>3, <3>2, SharedStays
  <2>5. got[c][k].n \in Int /\ job[i].n \in Int
    <3>1. got[c][k] \in Packets /\ job[i] \in Packets
      BY <1>1, <2>1 DEF TypeOK, ThreadsOK
    <3> QED BY <3>1 DEF Packets
  <2> QED BY <1>6, <2>1, <2>3, <2>4, <2>5
<1> QED BY <1>4, <1>5, <1>6, GotSteps

(* Messages of one client reach another in the order in which they were sent,  *)
(* each once, unless it has the descriptor of a client that has left, whose    *)
(* entry of client_info still names it (iot_server.c:235, 262-269, 281-283).   *)
THEOREM MessagesInOrder == Spec => []InOrder
<1>1. Init => LeavingInv /\ OrderInv /\ InOrder
  <2>1. Init => LeavingInv /\ InOrder
    BY DEF Init, LeavingInv, InOrder
  <2>2. Init => StreamInv /\ JobInv /\ PastInv
    BY DEF Init, StreamInv, JobInv, PastInv, Busy
  <2>3. Init => FreshInv /\ AimInv /\ OnceInv
    BY DEF Init, FreshInv, AimInv, OnceInv, Busy
  <2> QED BY <2>1, <2>2, <2>3 DEF OrderInv
<1>2. ServerInv /\ LeavingInv /\ OrderInv /\ [Next]_vars => OrderInv'
  <2> SUFFICES ASSUME ServerInv, LeavingInv, OrderInv, [Next]_vars PROVE OrderInv'
    OBVIOUS
  <2>1. StreamInv' /\ JobInv' /\ PastInv'
    BY StreamKept, JobKept, PastKept DEF OrderInv
  <2>2. FreshInv' /\ AimInv' /\ OnceInv'
    BY FreshKept, AimKept, OnceKept DEF OrderInv
  <2> QED BY <2>1, <2>2 DEF OrderInv
<1> QED BY ServerInvInit, ServerInvKept, LeavingKept, InOrderKept, <1>1, <1>2, PTL DEF Spec
=============================================================================
