-------------------------------- MODULE Spot --------------------------------
(***************************************************************************)
(* A parking spot and the way of its messages to the charging robot: SPOT1  *)
(* (0725_ing1.ino), the Jetson1 bridge and what the mode selector makes of  *)
(* what the bridge publishes.  The gate announces each car to SPOT1, which  *)
(* waits until it stands in the spot, tells Jetson1 and watches the charge. *)
(* The server between them keeps the order of messages and may lose some    *)
(* (module IotServer).                                                      *)
(*                                                                         *)
(* A message to SPOT1 is read character by character.  Here it is whole, or *)
(* the charging loop has read its beginning ("tail"), or all but at most    *)
(* one character and the L ("end"); a "newline" follows what the gate sends.*)
(***************************************************************************)
EXTENDS Integers, Sequences

CONSTANTS
  Full,        \* the charge level that is 100
  MaxVisit,    \* bound: visits to the spot
  MaxOther,    \* bound: messages to SPOT1 that are not the gate's
  MaxEnd       \* bound: times the bridge loses its server

ASSUME SpotAssumption ==
  Full \in Nat \ {0} /\ MaxVisit \in Nat /\ MaxOther \in Nat /\ MaxEnd \in Nat

VARIABLES
  visit, car, parked,   \* the number of the last visit announced, where its car is, the last one that parked
  level,                \* of its battery
  toSpot, others,       \* what SPOT1 has not read yet
  pc, linked, info,     \* SPOT1: where it is, whether the server knows it, car_info
  pre_charging, admin,  \* the level it read last, the level admin was told last
  toJet,                \* what the bridge has not read yet
  bridge, ends,
  topic,                \* what the selector has not taken from "Jetson1" yet
  selector, published   \* whether it runs; all starts on the topic

world == <<visit, car, parked>>
spot == <<pc, linked, info, pre_charging, admin>>
jetson == <<bridge, ends, selector>>
vars == <<world, level, toSpot, others, spot, toJet, topic, published, jetson>>

Visits == 1..MaxVisit
Space == " "
\* The text between the name of the sender and the first "@" or the end.
Texts == {<<Space, "1">>, <<Space, "other">>}
ToSpot == [kind : {"in", "out", "other", "newline", "tail", "end"}, n : 0..MaxVisit]
Starts == [kind : {"start", "hello"}, n : 0..MaxVisit, text : Texts]

TypeOK ==
  /\ visit \in 0..MaxVisit /\ car \in {"away", "driving", "parked"} /\ parked \in 0..MaxVisit
  /\ level \in 0..Full /\ pre_charging \in 0..Full /\ admin \in 0..Full
  /\ toSpot \in Seq(ToSpot) /\ others \in 0..MaxOther
  /\ pc \in {"setup", "loop", "wait", "move", "charge"} /\ linked \in BOOLEAN /\ info \in 0..MaxVisit
  /\ toJet \in Seq(Starts) /\ topic \in Seq(Starts) /\ published \in Seq(Visits)
  /\ bridge \in {"start", "up", "mute", "ended"} /\ ends \in 0..MaxEnd /\ selector \in {"up", "down"}

Init ==
  /\ visit = 0 /\ car = "away" /\ parked = 0 /\ level = 0
  /\ toSpot = <<>> /\ others = 0
  /\ pc = "setup" /\ linked = FALSE /\ info = 0 /\ pre_charging = 0 /\ admin = 0
  /\ toJet = <<>> /\ topic = <<>> /\ published = <<>>
  /\ bridge = "start" /\ ends = 0 /\ selector = "up"
-----------------------------------------------------------------------------
(* Cars, and what the gate, Start1 and admin send to SPOT1 *)

Arrives(m) == toSpot' = IF linked THEN Append(toSpot, m) ELSE toSpot
Lost == UNCHANGED toSpot

Announce ==
  /\ car = "away" /\ visit < MaxVisit
  /\ visit' = visit + 1 /\ car' = "driving"
  /\ Lost \/ Arrives([kind |-> "in", n |-> visit + 1])
  /\ UNCHANGED <<parked, level, others, spot, toJet, topic, published, jetson>>

Park ==
  /\ car = "driving"
  /\ car' = "parked" /\ parked' = visit /\ level' \in 0..Full
  /\ UNCHANGED <<visit, toSpot, others, spot, toJet, topic, published, jetson>>

\* The driver takes another spot than the gate has told and leaves from there;
\* the gate frees the one in its table.
ParkElsewhere ==
  /\ car = "driving"
  /\ car' = "away"
  /\ Lost \/ Arrives([kind |-> "out", n |-> visit])
  /\ UNCHANGED <<visit, parked, level, others, spot, toJet, topic, published, jetson>>

Depart ==
  /\ car = "parked"
  /\ car' = "away"
  /\ Lost \/ Arrives([kind |-> "out", n |-> visit])
  /\ UNCHANGED <<visit, parked, level, others, spot, toJet, topic, published, jetson>>

Rise ==
  /\ car = "parked" /\ pc = "charge" /\ level < Full
  /\ level' = level + 1
  /\ UNCHANGED <<world, toSpot, others, spot, toJet, topic, published, jetson>>

Other ==
  /\ others < MaxOther /\ others' = others + 1
  /\ Arrives([kind |-> "other", n |-> 0])
  /\ UNCHANGED <<world, level, spot, toJet, topic, published, jetson>>
-----------------------------------------------------------------------------
(* SPOT1 *)

\* setup() and the first loop(): init_conn is cleared whether or not the server
\* can be reached and lets SPOT1 in, so that it never tries again.
Connect ==
  /\ pc = "setup" /\ pc' = "loop"
  /\ linked' \in BOOLEAN
  /\ toSpot' = IF linked' THEN <<[kind |-> "other", n |-> 0]>> ELSE <<>>    \* the server's greeting
  /\ UNCHANGED <<world, level, others, info, pre_charging, admin, toJet, topic, published, jetson>>

Drop(q, k) == SubSeq(q, k + 1, Len(q))
NewLine == [kind |-> "newline", n |-> 0]
FromGate == {"in", "out"}

\* A message of the gate is handled and what is behind it left for later.
ReadIn ==
  /\ pc = "loop" /\ toSpot # <<>> /\ Head(toSpot).kind = "in"
  /\ info' = Head(toSpot).n /\ pc' = "wait"
  /\ toSpot' = <<NewLine>> \o Tail(toSpot)
  /\ UNCHANGED <<world, level, others, linked, pre_charging, admin, toJet, topic, published, jetson>>

ReadOut ==
  /\ pc = "loop" /\ toSpot # <<>> /\ Head(toSpot).kind = "out"
  /\ toSpot' = <<NewLine>> \o Tail(toSpot)
  /\ UNCHANGED <<world, level, others, spot, toJet, topic, published, jetson>>

\* Behind anything else, index is not reset: what has come by then is read up
\* with it and not recognised.
ReadOther ==
  /\ pc = "loop" /\ toSpot # <<>> /\ Head(toSpot).kind \in {"other", "newline", "tail"}
  /\ \E k \in 1..Len(toSpot) : toSpot' = Drop(toSpot, k)
  /\ UNCHANGED <<world, level, others, spot, toJet, topic, published, jetson>>

\* strtok() finds no name before the L: strcmp(NULL) resets the ESP8266.
Reboot ==
  /\ pc = "loop" /\ toSpot # <<>> /\ Head(toSpot).kind = "end"
  /\ pc' = "setup" /\ linked' = FALSE /\ toSpot' = <<>> /\ info' = 0 /\ pre_charging' = 0
  /\ UNCHANGED <<world, level, others, admin, toJet, topic, published, jetson>>

SeeCarAlways ==   \* dis # 0 taken for a car
  /\ pc = "wait" /\ pc' = "move"
  /\ UNCHANGED <<world, level, toSpot, others, linked, info, pre_charging, admin, toJet, topic, published, jetson>>

\* Until something stands in the spot nothing else is done.
SeeCar ==
  /\ pc = "wait" /\ car = "parked" /\ pc' = "move"
  /\ UNCHANGED <<world, level, toSpot, others, linked, info, pre_charging, admin, toJet, topic, published, jetson>>

\* "[Jetson1] 1@9315@3L": car_info[1] still has the space that the gate put in
\* front of it.
Start == [kind |-> "start", n |-> info, text |-> <<Space, "1">>]
TellJetson ==
  /\ pc = "move" /\ pc' = "charge"
  /\ toJet' = IF linked /\ bridge = "up" THEN Append(toJet, Start) ELSE toJet
  /\ UNCHANGED <<world, level, toSpot, others, linked, info, pre_charging, admin, topic, published, jetson>>

\* One character of what has come.
Eaten(m) == CASE m.kind \in {"in", "out", "other"} -> <<[m EXCEPT !.kind = "tail"]>>
              [] m.kind = "tail" -> <<[m EXCEPT !.kind = "end"]>>
              [] m.kind = "end" -> IF m.n > 0 THEN <<NewLine>> ELSE <<>>
              [] OTHER -> <<>>

\* strtok(Bat_Stop, "]") leaves "[admin", which is not "admin": OFF is understood
\* only when Bat_Stop was cleared just behind the "[".
Off(q) == q # <<>> /\ Head(q).kind = "end" /\ Head(q).n = 0

\* One turn of the charging loop: the level is told if it has changed, a
\* character is read if there is one, and at 100 the loop ends.
ChargeTurn(done, told, next) ==
  /\ pc = "charge"
  /\ pre_charging' = level
  /\ admin' = IF level # pre_charging /\ linked /\ told THEN level ELSE admin
  /\ toSpot' = IF toSpot = <<>> THEN toSpot ELSE Eaten(Head(toSpot)) \o Tail(toSpot)
  /\ \/ pc' = IF done THEN next ELSE pc
     \/ Off(toSpot) /\ pc' = next
  /\ UNCHANGED <<world, level, others, linked, info, toJet, topic, published, jetson>>

ChargeChecksFirst == ChargeTurn(level = Full, level < Full, "loop")
ChargeAbove == ChargeTurn(level > Full, TRUE, "loop")
ChargeKeepsHyojun == ChargeTurn(level = Full, TRUE, "move")   \* without Hyojun = 2
Charge == ChargeTurn(level = Full, TRUE, "loop")
-----------------------------------------------------------------------------
(* The Jetson1 bridge and the selector *)

Hello == [kind |-> "hello", n |-> 0, text |-> <<Space, "other">>]

\* main() tests a socket that it has not assigned, and connect() may fail.
BridgeStart ==
  /\ bridge = "start"
  /\ \/ bridge' = "up" /\ toJet' = <<Hello>>
     \/ bridge' = "ended" /\ UNCHANGED toJet
  /\ UNCHANGED <<world, level, toSpot, others, spot, topic, published, ends, selector>>

\* All that one read() returns is published as one message, of which the
\* selector will take the first field.  The first message may come before the
\* selector has been connected to the topic.
Numbers(m) == IF m.kind = "start" THEN <<m.n>> ELSE <<>>
PublishCleared ==               \* name_msg cleared behind read()
  /\ bridge = "up" /\ toJet # <<>> /\ toJet' = <<>>
  /\ UNCHANGED <<world, level, toSpot, others, spot, topic, published, jetson>>

Publish ==
  /\ bridge = "up" /\ toJet # <<>>
  /\ \E k \in 1..Len(toJet) : toJet' = Drop(toJet, k)
  /\ published' = published \o Numbers(Head(toJet))
  /\ \/ topic' = Append(topic, Head(toJet))
     \/ Head(toJet).kind = "hello" /\ UNCHANGED topic
  /\ UNCHANGED <<world, level, toSpot, others, spot, jetson>>

\* ros::shutdown(), by a signal or by the master, ends neither the loop nor its
\* connection: with ros::ok() false all that is still read is thrown away, so
\* that nothing is kept of it here.
Shutdown ==
  /\ bridge = "up" /\ bridge' = "mute" /\ toJet' = <<>>
  /\ UNCHANGED <<world, level, toSpot, others, spot, topic, published, ends, selector>>

\* read() returns 0 when the server ends: so does the bridge.
BridgeEnd ==
  /\ bridge \in {"up", "mute"} /\ ends < MaxEnd
  /\ bridge' = "ended" /\ ends' = ends + 1 /\ toJet' = <<>>
  /\ UNCHANGED <<world, level, toSpot, others, spot, topic, published, selector>>

\* "stream >> ch" reads up to the first space; behind the "]" there must be
\* something, or strcmp(NULL) ends the node.
FirstWord(text) == IF Head(text) = Space THEN <<>> ELSE <<Head(text)>>
Hear ==
  /\ selector = "up" /\ topic # <<>>
  /\ topic' = Tail(topic)
  /\ selector' = IF FirstWord(Head(topic).text) = <<>> THEN "down" ELSE "up"
  /\ UNCHANGED <<world, level, toSpot, others, spot, toJet, published, bridge, ends>>
-----------------------------------------------------------------------------
SPOT1 == \/ Connect \/ ReadIn \/ ReadOut \/ ReadOther \/ Reboot
         \/ SeeCar \/ TellJetson \/ Charge
Environment == Announce \/ Park \/ ParkElsewhere \/ Depart \/ Rise \/ Other
Jetson == BridgeStart \/ Publish \/ Shutdown \/ BridgeEnd \/ Hear

Next == Environment \/ SPOT1 \/ Jetson

Spec == Init /\ [][Next]_vars
FairSpec == /\ Spec /\ WF_vars(SPOT1) /\ WF_vars(BridgeStart \/ Publish) /\ WF_vars(Hear)
            /\ WF_vars(Rise)
-----------------------------------------------------------------------------
(* Each visit is reported to the robot at most once and in the order of the    *)
(* visits, however many announcements are lost, swallowed or torn by the       *)
(* charging loop (0725_ing1.ino:68-160, 163-170).                              *)
StartsInOrder == \A k, l \in DOMAIN published : k < l => published[k] < published[l]

(* And not before a car has parked since its announcement: no start is sent    *)
(* for a car that is still on its way (0725_ing1.ino:116-148).                 *)
StartAfterParking == \A k \in DOMAIN published : published[k] <= parked

(* When SPOT1 stops because the battery is charged, 100 is the last level that  *)
(* admin was shown, also when it was 100 from the first reading on, in the     *)
(* visit before or before a reset (0725_ing1.ino:178-188, 226-228).            *)
AdminSeesFull == [][pc = "charge" /\ pc' = "loop" /\ linked /\ level = Full => admin' = Full]_vars

(* A start that SPOT1 tells the server while the bridge is there and has read  *)
(* what came before is published, unless the bridge loses its server first, or  *)
(* its ROS node is shut down, after which it reads and publishes nothing        *)
(* (0725_ing1.ino:163-171, Bridge_ros_socket_for_Jetson1.cpp:93-115).          *)
StartReported ==
  \A v \in Visits :
    (pc = "move" /\ info = v /\ linked /\ bridge = "up" /\ toJet = <<>>)
      ~> (bridge \in {"ended", "mute"} \/ \E k \in DOMAIN published : published[k] = v)

(* SPOT1 is not kept for ever by one car: it hears the gate again, as long as  *)
(* the car stays until it is charged (0725_ing1.ino:177-229).                  *)
HearsAgain == (pc = "charge" /\ car = "parked") ~> (pc # "charge" \/ car # "parked")

(* A start does not end the selector: "if the Jetson1 message is 1, mode 1 is  *)
(* published" (Mode_Selector.cpp:6).                                           *)
StartIsUnderstood == [][selector' # selector => Head(topic).kind # "start"]_vars
=============================================================================
