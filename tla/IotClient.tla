------------------------------ MODULE IotClient ------------------------------
(***************************************************************************)
(* The clients of the IoT server that a person types into: iot_client.c,    *)
(* its second try for ROS (iot_client_try2.cpp) and iot_client.cpp, which   *)
(* publishes what it hears on topic "Sensor".                               *)
(*                                                                         *)
(* One thread reads the terminal and writes to the socket, the other reads  *)
(* the socket.  They share the descriptor, and -1 in it says that the       *)
(* client is to end; iot_client.cpp gives its reader a copy.                *)
(***************************************************************************)
EXTENDS Integers, Sequences, FiniteSets, SequencesExt

CONSTANTS
  Lines,      \* what may be typed: the kinds of the parts that fgets() makes of a line
  MaxTyped,   \* bound: lines typed
  MaxSaid     \* bound: messages of the server

Kinds == {"plain", "private", "quit"}
ASSUME ClientAssumption ==
  /\ MaxTyped \in Nat /\ MaxSaid \in Nat
  /\ \A l \in Lines : l \in Seq(Kinds) /\ l # <<>>

VARIABLES
  program,                \* which of the clients runs; it never changes
  life,                   \* "new", "running", "exited", "killed" by Ctrl-C, "broken" by SIGPIPE
  sock, conn,             \* the shared descriptor; the connection behind it
  sndPc, part,            \* send_msg() and what it has in msg
  rcvPc, batch,           \* recv_msg() and what it has in name_msg
  ok,                     \* ros::ok()
  typed, tty, stdio, eof, \* all parts typed; in the terminal; read by stdio but not by fgets(); Ctrl-D
  sent,                   \* to the server, in the order in which it reads
  fromServer, said,       \* on its way to the client; how many there were
  heard, published        \* printed; the messages on topic "Sensor"

input == <<typed, tty, stdio, eof>>
output == <<heard, published>>
toClient == <<fromServer, said>>
sender == <<sndPc, part>>
reader == <<rcvPc, batch>>
vars == <<program, life, sock, conn, sender, reader, ok, input, sent, toClient, output>>

-----------------------------------------------------------------------------
\* copies: the reader has its own descriptor; publishes: it is a ROS node.
IotClientC == [copies |-> FALSE, publishes |-> FALSE]
Try2 == IotClientC
RosClient == [copies |-> TRUE, publishes |-> TRUE]
Programs == {IotClientC, Try2, RosClient}

Parts == [line : 1..MaxTyped, kind : Kinds]
Nothing == [line |-> 0, kind |-> "plain"]      \* the empty msg of a terminal at its end
Login == [to |-> "server", part |-> Nothing]
Messages == [to : {"server", "ALLMSG", "ID"}, part : Parts \cup {Nothing}]

TypeOK ==
  /\ program \in Programs /\ life \in {"new", "running", "exited", "killed", "broken"}
  /\ sock \in {"open", "none"} /\ conn \in {"open", "shut", "closed", "reset"}
  /\ sndPc \in {"created", "select", "fgets", "load", "write", "check", "ended"}
  /\ part \in Parts \cup {Nothing}
  /\ rcvPc \in {"created", "init", "read", "blocked", "publish", "sleep", "ended"}
  /\ batch \in Seq(1..MaxSaid) /\ ok \in BOOLEAN
  /\ typed \in Seq(Parts) /\ tty \in Seq(Seq(Parts) \ {<<>>}) /\ stdio \in Seq(Parts) /\ eof \in BOOLEAN
  /\ sent \in Seq(Messages)
  /\ fromServer \in Seq(1..MaxSaid) /\ said \in 0..MaxSaid
  /\ heard \in Seq(1..MaxSaid) /\ published \in Seq(Seq(1..MaxSaid))

Running == life = "running"

Init ==
  /\ program \in Programs /\ life = "new" /\ sock = "none" /\ conn = "closed"
  /\ sndPc = "created" /\ part = Nothing /\ rcvPc = "created" /\ batch = <<>> /\ ok = FALSE
  /\ typed = <<>> /\ tty = <<>> /\ stdio = <<>> /\ eof = FALSE
  /\ sent = <<>> /\ fromServer = <<>> /\ said = 0
  /\ heard = <<>> /\ published = <<>>

-----------------------------------------------------------------------------
(* The terminal: what is typed waits there by lines. *)

LastLine == IF typed = <<>> THEN 0 ELSE Last(typed).line

Type(l) ==
  /\ Running /\ ~eof /\ LastLine < MaxTyped
  /\ LET n == LastLine + 1
         parts == [i \in 1..Len(l) |-> [line |-> n, kind |-> l[i]]]
     IN tty' = Append(tty, parts) /\ typed' = typed \o parts
  /\ UNCHANGED <<program, life, sock, conn, sender, reader, ok, stdio, eof, sent, toClient, output>>

CloseTerminal ==
  /\ Running /\ ~eof /\ eof' = TRUE
  /\ UNCHANGED <<program, life, sock, conn, sender, reader, ok, typed, tty, stdio, sent, toClient, output>>

\* ros::init() takes the signal of Ctrl-C over: the node stops publishing and goes on reading.
Interrupt ==
  /\ Running
  /\ IF ok THEN ok' = FALSE /\ UNCHANGED life ELSE life' = "killed" /\ UNCHANGED ok
  /\ UNCHANGED <<program, sock, conn, sender, reader, input, sent, toClient, output>>

-----------------------------------------------------------------------------
(* The server *)

ServerSays ==
  /\ conn = "open" /\ said < MaxSaid
  /\ said' = said + 1 /\ fromServer' = Append(fromServer, said')
  /\ UNCHANGED <<program, life, sock, conn, sender, reader, ok, input, sent, output>>

\* A refused client is only shut down: what it writes is not answered by a reset.
ServerEnds ==
  /\ Running /\ conn \in {"open", "shut"}
  /\ \/ conn = "open" /\ conn' = "shut"
     \/ conn' = "closed"
  /\ UNCHANGED <<program, life, sock, sender, reader, ok, input, sent, toClient, output>>

-----------------------------------------------------------------------------
(* main() *)

\* iot_client.cpp tests a sock that has no value.
Start ==
  /\ life = "new"
  /\ \/ /\ life' = "running" /\ sock' = "open" /\ conn' = "open"
        /\ sent' = <<Login>>
        /\ rcvPc' = IF program.publishes THEN "init" ELSE "read"
     \/ life' = "exited" /\ UNCHANGED <<sock, conn, sent, rcvPc>>
  /\ UNCHANGED <<program, sender, batch, ok, input, toClient, output>>

CreateSender ==
  /\ Running /\ sndPc = "created"
  /\ sndPc' = "select"
  /\ UNCHANGED <<program, life, sock, conn, part, reader, ok, input, sent, toClient, output>>

\* The reader is not joined; it ends with the process.
Join ==
  /\ Running /\ sndPc = "ended"
  /\ life' = "exited"
  /\ UNCHANGED <<program, sock, conn, sender, reader, ok, input, sent, toClient, output>>

-----------------------------------------------------------------------------
(* send_msg() *)

\* select() looks at the terminal, not at what stdio has read from it.
Readable == tty # <<>> \/ eof

Select ==
  /\ Running /\ sndPc = "select"
  /\ sndPc' = IF Readable THEN "fgets" ELSE "check"
  /\ UNCHANGED <<program, life, sock, conn, part, reader, ok, input, sent, toClient, output>>

NextPartFresh ==
  IF tty # <<>> THEN part' = Head(Head(tty)) /\ stdio' = Tail(Head(tty)) /\ tty' = Tail(tty)
  ELSE part' = Nothing /\ UNCHANGED <<stdio, tty>>
\* What is left of a long line comes first.
NextPart ==
  \/ stdio # <<>> /\ part' = Head(stdio) /\ stdio' = Tail(stdio) /\ UNCHANGED tty
  \/ /\ stdio = <<>> /\ tty # <<>>
     /\ part' = Head(Head(tty)) /\ stdio' = Tail(Head(tty)) /\ tty' = Tail(tty)
  \/ stdio = <<>> /\ tty = <<>> /\ part' = Nothing /\ UNCHANGED <<stdio, tty>>

Fgets ==
  /\ Running /\ sndPc = "fgets"
  /\ NextPart
  /\ IF part'.kind = "quit"
       THEN sock' = "none" /\ sndPc' = "ended"
       ELSE sndPc' = "load" /\ UNCHANGED sock
  /\ UNCHANGED <<program, life, conn, reader, ok, typed, eof, sent, toClient, output>>

Addressed(p) == [to |-> IF p.kind = "private" THEN "ID" ELSE "ALLMSG", part |-> p]

\* The descriptor is read before write() uses it.
LoadAnyway ==
  /\ Running /\ sndPc = "load"
  /\ sndPc' = "write"
  /\ UNCHANGED <<program, life, sock, conn, part, reader, ok, input, sent, toClient, output>>
Load ==
  /\ Running /\ sndPc = "load"
  /\ sndPc' = IF sock = "none" THEN "ended" ELSE "write"
  /\ UNCHANGED <<program, life, sock, conn, part, reader, ok, input, sent, toClient, output>>

(***************************************************************************)
(* The first write after the server has closed is accepted and answered by  *)
(* a reset, the second raises SIGPIPE; a ROS node ignores it once it is     *)
(* initialised, and its write() fails.  Of a terminal at its end an empty   *)
(* message is sent in each turn; they are not recorded.                     *)
(***************************************************************************)
SignalIgnored == program.publishes /\ rcvPc # "init"
Write ==
  /\ Running /\ sndPc = "write"
  /\ \/ /\ conn \in {"open", "shut"}
        /\ sent' = IF part = Nothing THEN sent ELSE Append(sent, Addressed(part))
        /\ sndPc' = "select" /\ UNCHANGED <<life, sock, conn>>
     \/ conn = "closed" /\ conn' = "reset" /\ sndPc' = "select" /\ UNCHANGED <<life, sock, sent>>
     \/ /\ conn = "reset"
        /\ IF SignalIgnored THEN sock' = "none" /\ sndPc' = "ended" /\ UNCHANGED life
           ELSE life' = "broken" /\ UNCHANGED <<sock, sndPc>>
        /\ UNCHANGED <<conn, sent>>
  /\ part' = Nothing
  /\ UNCHANGED <<program, reader, ok, input, toClient, output>>

CheckNothing ==
  /\ Running /\ sndPc = "check"
  /\ sndPc' = "select"
  /\ UNCHANGED <<program, life, sock, conn, part, reader, ok, input, sent, toClient, output>>
Check ==
  /\ Running /\ sndPc = "check"
  /\ sndPc' = IF sock = "none" THEN "ended" ELSE "select"
  /\ UNCHANGED <<program, life, sock, conn, part, reader, ok, input, sent, toClient, output>>

-----------------------------------------------------------------------------
(* recv_msg() *)

\* Its end is told in the shared descriptor, or in the copy, where nobody looks.
EndReader == rcvPc' = "ended" /\ (IF program.copies THEN UNCHANGED sock ELSE sock' = "none")

RosInit ==
  /\ Running /\ rcvPc = "init"
  /\ rcvPc' = "read" /\ ok' = TRUE
  /\ UNCHANGED <<program, life, sock, conn, sender, batch, input, sent, toClient, output>>

Read ==
  /\ Running /\ rcvPc = "read"
  /\ IF sock = "none" /\ ~program.copies
       THEN EndReader
       ELSE rcvPc' = "blocked" /\ UNCHANGED sock
  /\ UNCHANGED <<program, life, conn, sender, batch, ok, input, sent, toClient, output>>

\* One read() may return several messages; they are printed at once.
ReadReturns(n) ==
  /\ Running /\ rcvPc = "blocked"
  /\ n \in 1..Len(fromServer)
  /\ batch' = SubSeq(fromServer, 1, n) /\ fromServer' = SubSeq(fromServer, n + 1, Len(fromServer))
  /\ heard' = heard \o batch'
  /\ rcvPc' = IF program.publishes /\ ok THEN "publish" ELSE "read"
  /\ UNCHANGED <<program, life, sock, conn, sender, ok, input, sent, said, published>>

ReadEnds ==
  /\ Running /\ rcvPc = "blocked" /\ fromServer = <<>> /\ conn # "open"
  /\ EndReader
  /\ UNCHANGED <<program, life, conn, sender, batch, ok, input, sent, toClient, output>>

PublishLast ==
  /\ Running /\ rcvPc = "publish"
  /\ published' = (IF ok THEN Append(published, <<Last(batch)>>) ELSE published) /\ rcvPc' = "sleep"
  /\ UNCHANGED <<program, life, sock, conn, sender, batch, ok, input, sent, toClient, heard>>
\* publish() does nothing once the node is shut down.
Publish ==
  /\ Running /\ rcvPc = "publish"
  /\ published' = (IF ok THEN Append(published, batch) ELSE published) /\ rcvPc' = "sleep"
  /\ UNCHANGED <<program, life, sock, conn, sender, batch, ok, input, sent, toClient, heard>>

Sleep ==
  /\ Running /\ rcvPc = "sleep"
  /\ rcvPc' = "read"
  /\ UNCHANGED <<program, life, sock, conn, sender, batch, ok, input, sent, toClient, output>>

-----------------------------------------------------------------------------
Main == Start \/ CreateSender \/ Join
SendMsg == Select \/ Fgets \/ Load \/ Write \/ Check
RecvMsg == RosInit \/ Read \/ (\E n \in 1..MaxSaid : ReadReturns(n)) \/ ReadEnds \/ Publish \/ Sleep
User == (\E l \in Lines : Type(l)) \/ CloseTerminal \/ Interrupt
Server == ServerSays \/ ServerEnds

Next == User \/ Server \/ Main \/ SendMsg \/ RecvMsg

Spec == Init /\ [][Next]_vars
FairSpec == Spec /\ WF_vars(Main) /\ WF_vars(SendMsg) /\ WF_vars(RecvMsg)

-----------------------------------------------------------------------------
(***************************************************************************)
(* While the server listens, each part of what was typed is in one place:   *)
(* sent, in msg, left in stdio by a line longer than msg, or in the         *)
(* terminal, and in the order in which it was typed (iot_client.c:77-97).   *)
(***************************************************************************)
Delivered == [i \in 1..(Len(sent) - 1) |-> sent[i + 1].part]
InHand == IF part = Nothing THEN <<>> ELSE <<part>>
NoPartLost ==
  Running /\ conn \in {"open", "shut"} =>
    typed = Delivered \o InHand \o stdio \o FlattenSeq(tty)

(***************************************************************************)
(* What iot_client.cpp publishes (iot_client.cpp:149-158) is what it heard, *)
(* in the same order and nothing twice, however many messages one read()    *)
(* has put together, up to the last one; only Ctrl-C makes it keep anything *)
(* to itself.                                                               *)
(***************************************************************************)
PublishedAsHeard ==
  /\ IsPrefix(FlattenSeq(published), heard)
  /\ ok /\ program.publishes /\ rcvPc # "publish" => FlattenSeq(published) = heard
  /\ heard \o fromServer = [i \in 1..said |-> i]

(***************************************************************************)
(* Once the reader of a client whose threads share the descriptor has seen  *)
(* the server go (iot_client.c:124), the sender begins no further write, so *)
(* that SIGPIPE can only come of one that had begun (iot_client.c:92).      *)
(***************************************************************************)
NoLateWrite ==
  [][~program.copies /\ rcvPc = "ended" /\ sndPc # "write" => sndPc' # "write"]_vars

(***************************************************************************)
(* A client whose threads share the descriptor ends when the server does,   *)
(* although its sender may be waiting for the terminal (iot_client.c:99).   *)
(***************************************************************************)
EndsWithServer == Running /\ conn # "open" /\ ~program.copies ~> ~Running
=============================================================================
