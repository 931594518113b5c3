----------------------------- MODULE IotServer -----------------------------
(***************************************************************************)
(* The TCP server that relays messages between block, SPOT1, Jetson1 and   *)
(* Start1 (iot_server.c).  The main thread accepts connections and logs    *)
(* them in, one at a time; each client that is logged in has a thread that *)
(* reads its messages and writes them to the clients they are for.  The    *)
(* threads share the table client_info and the count clnt_cnt; only the    *)
(* assignments to them are under the mutex.                                *)
(*                                                                         *)
(* A connection carries its login and then messages; read() returns any    *)
(* number of them at once, perhaps the last one in part, and the server    *)
(* looks at the first one only.                                            *)
(*                                                                         *)
(* The server ends when it writes to a client that has gone (SIGPIPE is not *)
(* ignored), and when it compares a password that was not sent.  Nothing   *)
(* starts it again, and its connections end with it.                       *)
(***************************************************************************)
EXTENDS Integers, Sequences, FiniteSets

CONSTANTS
  Ids,         \* the lines of idpasswd.txt
  Stranger,    \* a login with an id that is not among them, or a wrong password
  NConn,       \* bound: the connections that clients make
  Fds,         \* the descriptors that accept() may return
  MaxClnt,     \* MAX_CLNT, the length of client_info
  MaxSend      \* bound: messages that clients send

\* What stands in a message in the place of an id.
Words == {"ALLMSG", "IDLIST", "nobody", "login", "half", "idlist",
          "New connected!", "Already logged!", "Authentication Error!"}

ASSUME ServerAssumption ==
  /\ Fds \subseteq Nat /\ Fds # {} /\ MaxClnt \in Nat /\ MaxSend \in Nat /\ NConn \in Nat
  /\ IsFiniteSet(Ids) /\ Cardinality(Ids) < MaxClnt    \* more of them end main()
  /\ Stranger \notin Ids
  /\ \A w \in Words : w \notin Ids

Conns == 1..NConn      \* numbered in the order of their connect()
NoConn == 0

VARIABLES
  state,       \* of each connection: "out", then "up" until the client closes it
  user,        \* the id it logs in with
  stream,      \* what it has sent and the server has not read
  named,       \* whether it has sent its login
  count,       \* how many messages have been sent, by all
  got,         \* what it was sent
  backlog,     \* connections that wait for accept()
  owner,       \* the connection of each open descriptor
  mainPc, sock, login,          \* main()
  pwSet,       \* whether a login has set its pArray[1], which is never cleared
  fd, clnt_cnt,                 \* the client_info of each id, and the count
  thr, job, todo, out           \* the thread of each id

world == <<state, user, named, count>>
main == <<mainPc, sock, login, pwSet>>
table == <<fd, clnt_cnt>>
threads == <<thr, job, todo, out>>
vars == <<world, stream, got, backlog, owner, main, table, threads>>

Targets == Ids \cup {"ALLMSG", "IDLIST"}
Packets == [to : Targets \cup Words, from : Conns \cup {NoConn}, n : 0..MaxSend]
Login == [to |-> "login", from |-> NoConn, n |-> 0]
Half == [to |-> "half", from |-> NoConn, n |-> 0]
Answer(text) == [to |-> text, from |-> NoConn, n |-> 0]

WorldOK ==
  /\ state \in [Conns -> {"out", "up", "gone"}] /\ user \in [Conns -> Ids \cup {Stranger}]
  /\ named \in [Conns -> BOOLEAN] /\ count \in 0..MaxSend
WireOK ==
  /\ stream \in [Conns -> Seq(Packets)] /\ got \in [Conns -> Seq(Packets)]
  /\ backlog \in Seq(Conns) /\ owner \in [Fds -> Conns \cup {NoConn}]
MainOK ==
  /\ mainPc \in {"accept", "read", "login", "greet", "ended"} /\ pwSet \in BOOLEAN
  /\ sock \in Fds \cup {-1} /\ login \in Ids \cup {Stranger}
TableOK == fd \in [Ids -> Fds \cup {-1}] /\ clnt_cnt \in Int
ThreadsOK ==
  /\ thr \in [Ids -> {"none", "read", "send", "write", "close", "clear"}]
  /\ job \in [Ids -> Packets] /\ todo \in [Ids -> SUBSET Ids] /\ out \in [Ids -> Fds \cup {-1}]
TypeOK == WorldOK /\ WireOK /\ MainOK /\ TableOK /\ ThreadsOK

Init ==
  /\ state = [c \in Conns |-> "out"] /\ user = [c \in Conns |-> Stranger]
  /\ stream = [c \in Conns |-> <<>>] /\ named = [c \in Conns |-> FALSE] /\ count = 0
  /\ got = [c \in Conns |-> <<>>]
  /\ backlog = <<>> /\ owner = [f \in Fds |-> NoConn]
  /\ mainPc = "accept" /\ sock = -1 /\ login = Stranger /\ pwSet = FALSE
  /\ fd = [i \in Ids |-> -1] /\ clnt_cnt = 0
  /\ thr = [i \in Ids |-> "none"] /\ job = [i \in Ids |-> Login]
  /\ todo = [i \in Ids |-> {}] /\ out = [i \in Ids |-> -1]
-----------------------------------------------------------------------------
(* The clients *)

Up == mainPc # "ended"

Connect(c) ==
  /\ Up /\ state[c] = "out" /\ \A d \in Conns : d < c => state[d] # "out"
  /\ state' = [state EXCEPT ![c] = "up"]
  /\ \E i \in Ids \cup {Stranger} : user' = [user EXCEPT ![c] = i]
  /\ backlog' = Append(backlog, c)
  /\ UNCHANGED <<named, count, stream, got, owner, main, table, threads>>

Connected(c) == Up /\ state[c] = "up"

\* "[id:PASSWD]", or "[id]", and then messages, without waiting for an answer.
SendLogin(c) ==
  /\ Connected(c) /\ ~named[c]
  /\ named' = [named EXCEPT ![c] = TRUE]
  /\ \E text \in {Login, Half} : stream' = [stream EXCEPT ![c] = Append(@, text)]
  /\ UNCHANGED <<state, user, count, got, backlog, owner, main, table, threads>>

Send(c) ==
  /\ Connected(c) /\ named[c] /\ count < MaxSend
  /\ count' = count + 1
  /\ \E to \in Targets :
       stream' = [stream EXCEPT ![c] = Append(@, [to |-> to, from |-> c, n |-> count + 1])]
  /\ UNCHANGED <<state, user, named, got, backlog, owner, main, table, threads>>

Leave(c) ==
  /\ Connected(c)
  /\ state' = [state EXCEPT ![c] = "gone"]
  /\ UNCHANGED <<user, named, count, stream, got, backlog, owner, main, table, threads>>
-----------------------------------------------------------------------------
(* main() *)

Free == {f \in Fds : owner[f] = NoConn}
Lowest(S) == CHOOSE f \in S : \A g \in S : f <= g

\* "socket full" is never printed: main() has ended if there are that many ids.
\* Without a free descriptor accept() returns -1, again and again.
Accept ==
  /\ mainPc = "accept" /\ backlog # <<>> /\ clnt_cnt < MaxClnt /\ Free # {}
  /\ sock' = Lowest(Free)
  /\ owner' = [owner EXCEPT ![Lowest(Free)] = Head(backlog)]
  /\ backlog' = Tail(backlog)
  /\ mainPc' = "read"
  /\ UNCHANGED <<world, stream, got, login, pwSet, table, threads>>

\* What is left of the stream after a read() that returns k of its entries.
Rest(q, k) == SubSeq(q, k + 1, Len(q))
Give(f, m) == got' = IF owner[f] \in Conns THEN [got EXCEPT ![owner[f]] = Append(@, m)] ELSE got

\* idpasswd holds 23 characters: of a message that came with the login the
\* beginning is lost, and the rest is read later as a message to no one.  Of a
\* login without a password the id is known, and strcmp() reads from NULL; if there
\* has been a password before, it reads what is left in the buffer of that.
Torn(q) == IF q = <<>> THEN q ELSE <<[Head(q) EXCEPT !.to = "nobody"]>> \o Tail(q)
ReadLogin ==
  /\ mainPc = "read" /\ stream[owner[sock]] # <<>>
  /\ \/ stream' = [stream EXCEPT ![owner[sock]] = Tail(@)]
     \/ stream' = [stream EXCEPT ![owner[sock]] = Torn(Tail(@))]
  /\ LET who == user[owner[sock]]
         half == Head(stream[owner[sock]]).to = "half"
     IN  /\ login' \in {who} \cup (IF half /\ pwSet THEN {Stranger} ELSE {})
         /\ mainPc' = IF half /\ ~pwSet /\ who \in Ids THEN "ended" ELSE "login"
         /\ pwSet' = (pwSet \/ ~half)
  /\ UNCHANGED <<world, got, backlog, owner, sock, table, threads>>

\* str_len <= 0: the connection is shut down, its descriptor stays open.
NoLoginStays ==      \* read() again
  /\ mainPc = "read" /\ stream[owner[sock]] = <<>> /\ state[owner[sock]] = "gone"
  /\ UNCHANGED vars
NoLogin ==
  /\ mainPc = "read" /\ stream[owner[sock]] = <<>> /\ state[owner[sock]] = "gone"
  /\ mainPc' = "accept"
  /\ UNCHANGED <<world, stream, got, backlog, owner, sock, login, pwSet, table, threads>>

RefuseForMCU ==     \* the branch that #if 0 leaves out
  /\ mainPc = "login"
  /\ \/ login \notin Ids /\ Give(sock, Answer("Authentication Error!")) /\ UNCHANGED fd
     \/ /\ login \in Ids /\ fd[login] # -1 /\ Give(sock, Answer("Already logged!"))
        /\ fd' = [fd EXCEPT ![login] = -1]
  /\ mainPc' = "accept"
  /\ UNCHANGED <<world, stream, backlog, owner, sock, login, pwSet, clnt_cnt, threads>>

Refuse ==
  /\ mainPc = "login"
  /\ \/ login \notin Ids /\ Give(sock, Answer("Authentication Error!"))
     \/ login \in Ids /\ fd[login] # -1 /\ Give(sock, Answer("Already logged!"))
  /\ mainPc' = "accept"
  /\ UNCHANGED <<world, stream, backlog, owner, sock, login, pwSet, table, threads>>

\* Other threads find the client in client_info before its own one is started.
Admit ==
  /\ mainPc = "login" /\ login \in Ids /\ fd[login] = -1
  /\ fd' = [fd EXCEPT ![login] = sock] /\ clnt_cnt' = clnt_cnt + 1
  /\ mainPc' = "greet"
  /\ UNCHANGED <<world, stream, got, backlog, owner, sock, login, pwSet, threads>>

Greet ==
  /\ mainPc = "greet"
  /\ Give(sock, Answer("New connected!"))
  /\ thr' = [thr EXCEPT ![login] = "read"]
  /\ mainPc' = "accept"
  /\ UNCHANGED <<world, stream, backlog, owner, sock, login, pwSet, table, job, todo, out>>
-----------------------------------------------------------------------------
(* clnt_connection(), the thread of a client *)

Peer(i) == owner[fd[i]]

\* The clients that send_msg() writes a message to: those it finds logged in.
ForAll(to) == IF to = "IDLIST" THEN {} ELSE Ids       \* without the strcmp()
For(to) == {i \in Ids : to \in {"ALLMSG", i}}

\* What is left after a read() that returned k messages and the beginning of the next.
Remains(q, k) == {Rest(q, k), Torn(Rest(q, k))}

ThrReadShort(i) ==   \* the last message that was read is left in the stream
  /\ thr[i] = "read"
  /\ \/ \E k \in 1..Len(stream[Peer(i)]) : \E q \in Remains(stream[Peer(i)], k - 1) :
          /\ job' = [job EXCEPT ![i] = Head(stream[Peer(i)])]
          /\ todo' = [todo EXCEPT ![i] = For(Head(stream[Peer(i)]).to)]
          /\ stream' = [stream EXCEPT ![Peer(i)] = q]
          /\ thr' = [thr EXCEPT ![i] = "send"]
     \/ /\ stream[Peer(i)] = <<>> /\ state[Peer(i)] = "gone"
        /\ thr' = [thr EXCEPT ![i] = "close"]
        /\ UNCHANGED <<stream, job, todo>>
  /\ UNCHANGED <<world, got, backlog, owner, main, table, out>>

\* Of the messages that one read() returns only the first is looked at.  What is
\* behind the 99th byte is read later, as a message of its own to no one.
ThrRead(i) ==
  /\ thr[i] = "read"
  /\ \/ \E k \in 1..Len(stream[Peer(i)]) : \E q \in Remains(stream[Peer(i)], k) :
          /\ job' = [job EXCEPT ![i] = Head(stream[Peer(i)])]
          /\ todo' = [todo EXCEPT ![i] = For(Head(stream[Peer(i)]).to)]
          /\ stream' = [stream EXCEPT ![Peer(i)] = q]
          /\ thr' = [thr EXCEPT ![i] = "send"]
     \/ /\ stream[Peer(i)] = <<>> /\ state[Peer(i)] = "gone"
        /\ thr' = [thr EXCEPT ![i] = "close"]
        /\ UNCHANGED <<stream, job, todo>>
  /\ UNCHANGED <<world, got, backlog, owner, main, table, out>>

\* send_msg() goes through client_info, without the mutex, and takes the
\* descriptors of those that are addressed ...
ThrSend(i) ==
  /\ thr[i] = "send" /\ todo[i] # {}
  /\ \E j \in todo[i] :
       /\ todo' = [todo EXCEPT ![i] = @ \ {j}]
       /\ IF fd[j] # -1
            THEN out' = [out EXCEPT ![i] = fd[j]] /\ thr' = [thr EXCEPT ![i] = "write"]
            ELSE UNCHANGED <<out, thr>>
  /\ UNCHANGED <<world, stream, got, backlog, owner, main, table, job>>

\* ... to write() to whatever they are by then.
ThrWrite(i) ==
  /\ thr[i] = "write"
  /\ Give(out[i], job[i])
  /\ thr' = [thr EXCEPT ![i] = "send"]
  /\ UNCHANGED <<world, stream, backlog, owner, main, table, job, todo, out>>

ThrSent(i) ==
  /\ thr[i] = "send" /\ todo[i] = {}
  /\ IF job[i].to = "IDLIST" THEN Give(fd[i], Answer("idlist")) ELSE UNCHANGED got
  /\ thr' = [thr EXCEPT ![i] = "read"]
  /\ UNCHANGED <<world, stream, backlog, owner, main, table, job, todo, out>>

\* The descriptor is closed first ...
ThrClose(i) ==
  /\ thr[i] = "close"
  /\ owner' = [owner EXCEPT ![fd[i]] = NoConn]
  /\ thr' = [thr EXCEPT ![i] = "clear"]
  /\ UNCHANGED <<world, stream, got, backlog, main, table, job, todo, out>>

\* ... and later taken out of client_info.
ThrClearNoCount(i) ==
  /\ thr[i] = "clear"
  /\ fd' = [fd EXCEPT ![i] = -1] /\ UNCHANGED clnt_cnt
  /\ thr' = [thr EXCEPT ![i] = "none"]
  /\ UNCHANGED <<world, stream, got, backlog, owner, main, job, todo, out>>

ThrClear(i) ==
  /\ thr[i] = "clear"
  /\ fd' = [fd EXCEPT ![i] = -1] /\ clnt_cnt' = clnt_cnt - 1
  /\ thr' = [thr EXCEPT ![i] = "none"]
  /\ UNCHANGED <<world, stream, got, backlog, owner, main, job, todo, out>>
-----------------------------------------------------------------------------
\* What is written to a client that has gone is lost, as above, or it raises
\* SIGPIPE, if the client has answered the one before it with a reset.
Written ==
  (IF mainPc \in {"login", "greet"} THEN {sock} ELSE {})
    \cup {out[i] : i \in {j \in Ids : thr[j] = "write"}}
    \cup {fd[i] : i \in {j \in Ids : thr[j] = "send" /\ todo[j] = {} /\ job[j].to = "IDLIST"}}
BrokenPipe ==
  /\ Up
  /\ \E f \in Written \cap Fds : owner[f] # NoConn /\ state[owner[f]] = "gone"
  /\ mainPc' = "ended"
  /\ UNCHANGED <<world, stream, got, backlog, owner, sock, login, pwSet, table, threads>>
-----------------------------------------------------------------------------
Client(c) == Connect(c) \/ SendLogin(c) \/ Send(c) \/ Leave(c)
Main == Accept \/ ReadLogin \/ NoLogin \/ Refuse \/ Admit \/ Greet
Thread(i) ==
  /\ Up
  /\ \/ ThrRead(i) \/ ThrSend(i) \/ ThrWrite(i) \/ ThrSent(i)
     \/ ThrClose(i) \/ ThrClear(i)

Next == (\E c \in Conns : Client(c)) \/ Main \/ (\E i \in Ids : Thread(i)) \/ BrokenPipe

Spec == Init /\ [][Next]_vars
Fairness == /\ WF_vars(Main) /\ \A i \in Ids : WF_vars(Thread(i))
            /\ \A c \in Conns : WF_vars(SendLogin(c))
FairSpec == Spec /\ Fairness
-----------------------------------------------------------------------------
(* The clients that are logged in are counted exactly, and there is always     *)
(* room for one more: "socket full" (iot_server.c:137) never happens.          *)
LoggedIn == {i \in Ids : fd[i] # -1}
CountMatches == clnt_cnt = Cardinality(LoggedIn) /\ clnt_cnt < MaxClnt

(* Until its thread closes it, the descriptor in client_info is one that       *)
(* accept() gave to a connection that logged in with this very id: refusing a  *)
(* second login, and descriptors that are used again, never take it away       *)
(* (iot_server.c:164-199, 262-270).                                            *)
Running(i) == thr[i] \in {"read", "send", "write", "close"}
ThreadOwnsSlot ==
  \A i \in Ids : Running(i) => /\ fd[i] # -1 /\ owner[fd[i]] # NoConn
                             /\ user[owner[fd[i]]] = i

(* What a client gets from another connection comes in the order in which it   *)
(* was sent.  It comes once, or else to a descriptor that another client has   *)
(* left, so that the table names it twice (iot_server.c:235, 262-269, 281-283).*)
InOrder ==
  \A c \in Conns : \A k, l \in DOMAIN got[c] :
    k < l /\ got[c][k].from # NoConn /\ got[c][l].from = got[c][k].from
      => \/ got[c][k].n < got[c][l].n
         \/ got[c][k].n = got[c][l].n /\ \E d \in Conns : state[d] = "gone" /\ user[d] # user[c]

(* A message for one client reaches another only if a connection of its        *)
(* addressee is gone, when the descriptor may already be somebody else's       *)
(* (iot_server.c:262-269, 304-307).                                            *)
GoesToItsAddressee ==
  \A c \in Conns : \A k \in DOMAIN got[c] :
    got[c][k].to \in Ids =>
      \E d \in Conns : user[d] = got[c][k].to /\ (d = c \/ state[d] = "gone")

(* A client that has sent its login is told whether it is logged in            *)
(* (iot_server.c:134-212), unless the server has ended: by SIGPIPE, when a     *)
(* client that is written to has gone (:171, :193, :204, :283, :300, :307), or  *)
(* at a login without a password before any with one (:182).  It also has to   *)
(* find descriptors, and those of the clients it refuses stay open (:143-146,  *)
(* :172, :206, :210).  And no other client connects and then sends nothing     *)
(* (:149): that is assumed by Fairness.                                        *)
Waiting(c) == Connected(c) /\ named[c]
Told(c) == \E k \in DOMAIN got[c] : got[c][k].from = NoConn
LoginAnswered ==
  []<>(Free # {}) => \A c \in Conns : Waiting(c) ~> Told(c) \/ ~Up
=============================================================================
