------------------------------ MODULE EarlyGates ------------------------------
(***************************************************************************)
(* The gate programs of July, which came before the merged one of module    *)
(* ParkingGate: ten programs for the Raspberry Pi and the Arduino they were *)
(* used with.  They differ in what starts a round, whether a car may leave, *)
(* what the Arduino is answered and who is told.                            *)
(*                                                                         *)
(* The Arduino prints every distance it measures on the line on which it    *)
(* sends "S", and four of the programs take any character for a car.        *)
(*                                                                         *)
(* A round is a sequence of steps, one for each query or transmission.      *)
(***************************************************************************)
EXTENDS Integers, Sequences, FiniteSets

CONSTANTS
  Cars,        \* the last four digits of the plates
  CarType,     \* the table car_type: a function from the registered plates
  NSpot,       \* the rows of now_stat, in the order a select returns them
  Zero,        \* the empty number_back and CARNUM 0
  NoSpot,      \* the empty string in rest_spot or spot
  NoCar,       \* nothing in front of the sensor
  Faults,      \* the kinds of fault that may occur
  MaxFault,    \* bound: how many kinds in one run
  MaxInput,    \* bound: characters that wait to be read when one is printed or a car comes
  MaxAnswers   \* bound: answers that wait when a round begins

Spots == 1..NSpot
Kinds == {"load", "plate", "crash", "query", "connect", "echo", "restart"}

ASSUME EarlyAssumption ==
  /\ NSpot \in Nat /\ {MaxFault, MaxInput, MaxAnswers} \subseteq Nat /\ Faults \subseteq Kinds
  /\ IsFiniteSet(Cars) /\ Cars # {} /\ Cars \cap Int = {}
  /\ CarType \in [DOMAIN CarType -> 1..3] /\ DOMAIN CarType \subseteq Cars
  /\ Zero \notin Cars \cup Int /\ NoCar \notin Cars /\ NoSpot \notin Cars \cup Int \cup {Zero}

-----------------------------------------------------------------------------
(***************************************************************************)
(* What starts a round: "S", any character, or nothing at all where the     *)
(* test of the serial line is commented out and a key ends each round.      *)
(* Some show the picture before they ask whether there is one.              *)
(***************************************************************************)
OnS == {"S"}
OnAny == {"S", "n"}
Unasked == {}

July20Round == <<"type", "search", "update", "log", "reply">>
July20 == [starts |-> OnS, shows |-> FALSE, round |-> July20Round]

July20SocketRound == <<"type", "search", "update", "log", "reply", "tell">>
July20Socket == [starts |-> OnAny, shows |-> FALSE, round |-> July20SocketRound]

July21Round == <<"type", "search", "update", "log", "reply">>
July21 == [starts |-> OnAny, shows |-> FALSE, round |-> July21Round]

July21SocketRound == <<"type", "search", "update", "log", "reply", "tell">>
July21Socket == [starts |-> OnAny, shows |-> FALSE, round |-> July21SocketRound]

July22Round == <<"type", "search", "update", "log", "reply">>
July22 == [starts |-> Unasked, shows |-> TRUE, round |-> July22Round]

July22SocketRound == <<"type", "search", "update", "log", "reply", "tell">>
July22Socket == [starts |-> Unasked, shows |-> TRUE, round |-> July22SocketRound]

July22InOutRound == <<"type", "inout", "search", "update", "log", "reply", "tell">>
July22InOut == [starts |-> OnAny, shows |-> FALSE, round |-> July22InOutRound]

July24Round == <<"type", "search", "update", "log", "reply">>
July24 == [starts |-> Unasked, shows |-> TRUE, round |-> July24Round]

July24SocketRound == <<"type", "search", "update", "log", "reply", "tell">>
July24Socket == [starts |-> Unasked, shows |-> FALSE, round |-> July24SocketRound]

July24InOutRound == <<"type", "inout", "search", "update", "log", "reply", "tell">>
July24InOut == [starts |-> OnS, shows |-> FALSE, round |-> July24InOutRound]

Programs == {July20, July20Socket, July21, July21Socket, July22, July22Socket, July22InOut,
             July24, July24Socket, July24InOut}

VARIABLES
  program,     \* which of the programs runs; it never changes
  front,       \* the car in front of the barrier
  picture,     \* the plate on the picture argv[1]
  ardPc, status, barrier, lcd,   \* loop() of the Arduino, as in ParkingGate
  toPi, toArd, \* the two directions of the serial line
  todo,        \* the steps of the round that are left
  number,      \* number_back, which keeps its value from car to car
  type, inout, spot,
  stat, carnum,\* columns STATUS and CARNUM of now_stat
  told,        \* the last message each spot got
  faults       \* the kinds of fault that have occurred

env == <<front, picture>>
ard == <<ardPc, status, barrier, lcd>>
db == <<stat, carnum>>
vars == <<program, env, ard, toPi, toArd, todo, number, type, inout, spot, db, told, faults>>

Leaves == \E i \in DOMAIN program.round : program.round[i] = "inout"

Steps == {"type", "inout", "search", "update", "log", "reply", "tell", "dead"}
Numbers == Cars \cup {Zero}
Types == {-1} \cup 1..3
Places == Spots \cup {NoSpot}

TypeOK ==
  /\ program \in Programs /\ front \in Cars \cup {NoCar} /\ picture \in Cars
  /\ ardPc \in {"loop", "wait", "lower"} /\ status \in {"HIGH", "LOW"} /\ barrier \in {0, 90}
  /\ lcd \in {"ready", "go", "refused"}
  /\ toPi \in Seq(OnAny)
  /\ toArd \in Seq(Seq(Numbers \cup Types \cup Places \cup {0}))
  /\ todo \in Seq(Steps) /\ number \in Numbers /\ type \in Types /\ inout \in {0, 1} /\ spot \in Places
  /\ stat \in [Spots -> {0, 1}] /\ carnum \in [Spots -> Numbers]
  /\ told \in [Spots -> {0, 1} \X Numbers] /\ faults \subseteq Faults

Fault(kind) ==
  /\ kind \in Faults \ faults /\ Cardinality(faults) < MaxFault
  /\ faults' = faults \cup {kind}
NoFault == UNCHANGED faults

Init ==
  /\ program \in Programs /\ front = NoCar /\ picture \in Cars
  /\ ardPc = "loop" /\ status = "HIGH" /\ barrier = 0 /\ lcd = "ready"
  /\ toPi = <<>> /\ toArd = <<>>
  /\ todo = <<>> /\ number = Zero /\ type = -1 /\ inout = 1 /\ spot = NoSpot
  /\ stat = [s \in Spots |-> 0] /\ carnum = [s \in Spots |-> Zero]
  /\ told = [s \in Spots |-> <<0, Zero>>]
  /\ faults = {}

-----------------------------------------------------------------------------
(* The cars *)

\* A car stops at the closed gate and its picture is taken to argv[1].
CarComes(c) ==
  /\ front = NoCar /\ status = "HIGH" /\ ardPc = "loop" /\ Len(toPi) <= MaxInput
  /\ front' = c /\ picture' = c
  /\ UNCHANGED <<program, ard, toPi, toArd, todo, number, type, inout, spot, db, told, faults>>

\* It drives on, or turns round when the display refuses it.
CarGoes ==
  /\ front # NoCar /\ (barrier = 90 \/ (lcd = "refused" /\ ardPc = "loop"))
  /\ front' = NoCar
  /\ UNCHANGED <<program, picture, ard, toPi, toArd, todo, number, type, inout, spot, db, told, faults>>

-----------------------------------------------------------------------------
(* The Arduino *)

\* 0 is what pulseIn() yields when no echo comes back.
Distance ==
  IF front # NoCar THEN {15} ELSE {16} \cup (IF "echo" \in Faults THEN {0} ELSE {})

\* A program that does not read the line has it overflow, which nobody notices.
Line(chars) == IF program.starts = Unasked THEN toPi ELSE toPi \o chars

\* Of a printed distance one character stands for all.
Printed == IF Len(toPi) < MaxInput THEN <<"n">> ELSE <<>>

ArdDetect(d) ==
  /\ d <= 15 /\ status = "HIGH" /\ Len(toPi) <= MaxInput
  /\ IF d = 0 THEN Fault("echo") ELSE NoFault
  /\ toPi' = Line(Printed \o <<"S", "n">>)
  /\ ardPc' = "wait"
  /\ UNCHANGED <<status, barrier, lcd>>

ArdClear(d) ==
  /\ d > 15 /\ status = "LOW"
  /\ toPi' = Line(Printed)
  /\ lcd' = "ready" /\ ardPc' = "lower"
  /\ UNCHANGED <<status, barrier, faults>>

\* A car that is being served, or nothing, only has its distance printed.
ArdPrint(d) ==
  /\ IF d <= 15 THEN status = "LOW" ELSE status = "HIGH"
  /\ IF d = 0 THEN Fault("echo") ELSE NoFault
  /\ toPi' = Line(Printed)
  /\ UNCHANGED ard

ArdLoop ==
  /\ ardPc = "loop"
  /\ \E d \in Distance : ArdDetect(d) \/ ArdClear(d) \/ ArdPrint(d)
  /\ UNCHANGED <<program, env, toArd, todo, number, type, inout, spot, db, told>>

ArdLower ==
  /\ ardPc = "lower"
  /\ ardPc' = "loop" /\ status' = "HIGH" /\ barrier' = 0
  /\ UNCHANGED <<program, env, lcd, toPi, toArd, todo, number, type, inout, spot, db, told, faults>>

\* lcd_pass(): the second field is -1, or there is no third.
Refused(f) == Len(f) < 3 \/ f[2] = -1

\* It reads up to the first "L", whatever round that belongs to.
ArdAnswer ==
  /\ ardPc = "wait" /\ toArd # <<>>
  /\ toArd' = Tail(toArd)
  /\ IF Refused(Head(toArd))
       THEN lcd' = "refused" /\ UNCHANGED barrier
       ELSE lcd' = "go" /\ barrier' = 90
  /\ status' = "LOW" /\ ardPc' = "loop"
  /\ UNCHANGED <<program, env, toPi, todo, number, type, inout, spot, db, told, faults>>

-----------------------------------------------------------------------------
(* The Raspberry Pi *)

\* A character is read; a program that reads none begins when a key is pressed.
HearsAny ==
  \/ toPi # <<>> /\ toPi' = Tail(toPi)
  \/ program.starts = Unasked /\ UNCHANGED toPi
Hears ==
  \/ toPi # <<>> /\ Head(toPi) \in program.starts /\ toPi' = Tail(toPi)
  \/ program.starts = Unasked /\ UNCHANGED toPi

\* Without an image it goes back to the line, or ends when it is to show it.
\* The recogniser sets number_back, unless it finds no four digits, or ends the
\* program, as in ParkingGate: an index out of range, an exception of OpenCV or
\* exit(1) without tesseract's data (Capture_Inout.cpp:181, :238, :306-314, :608).
Look ==
  /\ todo = <<>> /\ Len(toArd) < MaxAnswers
  /\ Hears
  /\ \/ Fault("load") /\ todo' = (IF program.shows THEN <<"dead">> ELSE <<>>) /\ UNCHANGED number
     \/ Fault("crash") /\ todo' = <<"dead">> /\ UNCHANGED number
     \/ todo' = program.round /\ number' = picture /\ NoFault
     \/ todo' = program.round /\ number' \in Cars \cup {number} /\ Fault("plate")
  /\ UNCHANGED <<program, env, ard, toArd, type, inout, spot, db, told>>

Skip ==
  /\ todo = <<>> /\ toPi # <<>> /\ Head(toPi) \notin program.starts
  /\ toPi' = Tail(toPi)
  /\ UNCHANGED <<program, env, ard, toArd, todo, number, type, inout, spot, db, told, faults>>

\* type, inout and spot are locals of the round.
Locals ==
  IF todo' = <<>> THEN type' = -1 /\ inout' = 1 /\ spot' = NoSpot ELSE UNCHANGED <<type, inout, spot>>

At(step) == todo # <<>> /\ Head(todo) = step /\ todo' = Tail(todo)

SearchType ==
  /\ At("type")
  /\ \/ type' = (IF number \in DOMAIN CarType THEN CarType[number] ELSE -1) /\ NoFault
     \/ type' = -1 /\ Fault("query")
  /\ UNCHANGED <<program, env, ard, toPi, toArd, number, inout, spot, db, told>>

Booked(c) == {s \in Spots : carnum[s] = c}
First(rows) == CHOOSE s \in rows : \A t \in rows : s <= t

\* A plate that has a row is leaving and needs no search.
CheckInOut ==
  /\ todo # <<>> /\ Head(todo) = "inout"
  /\ \E found \in {Booked(number), {}} :
       /\ IF found = Booked(number) THEN NoFault ELSE Fault("query")
       /\ IF found # {}
            THEN spot' = First(found) /\ inout' = 0 /\ todo' = Tail(Tail(todo))
            ELSE spot' = NoSpot /\ inout' = 1 /\ todo' = Tail(todo)
  /\ UNCHANGED <<program, env, ard, toPi, toArd, number, type, db, told>>

FreeOrAny == IF \E s \in Spots : stat[s] = 0 THEN {s \in Spots : stat[s] = 0} ELSE Spots
FreeSpots == {s \in Spots : stat[s] = 0}

\* rest_spot != "" compares two addresses, so a full car park goes unnoticed here.
SearchSpot ==
  /\ At("search")
  /\ \/ spot' = (IF FreeSpots # {} THEN First(FreeSpots) ELSE spot) /\ NoFault
     \/ UNCHANGED spot /\ Fault("query")
  /\ UNCHANGED <<program, env, ard, toPi, toArd, number, type, inout, db, told>>

UpdateSpot ==
  /\ At("update")
  /\ \/ /\ stat' = [s \in Spots |-> IF s = spot THEN inout ELSE stat[s]]
        /\ carnum' = [s \in Spots |-> IF s # spot THEN carnum[s] ELSE IF inout = 1 THEN number ELSE Zero]
        /\ NoFault
     \/ UNCHANGED db /\ Fault("query")
  /\ UNCHANGED <<program, env, ard, toPi, toArd, number, type, inout, spot, told>>

\* parkinglot_log is only written; its rows are left out.
InsertLogOrContinue ==
  /\ todo # <<>> /\ Head(todo) = "log"
  /\ \/ NoFault /\ todo' = Tail(todo)
     \/ Fault("query") /\ todo' = <<>>
  /\ Locals
  /\ UNCHANGED <<program, env, ard, toPi, toArd, number, db, told>>
InsertLog ==
  /\ At("log") /\ (NoFault \/ Fault("query"))
  /\ UNCHANGED <<program, env, ard, toPi, toArd, number, type, inout, spot, db, told>>

\* The fields as strtok() of the Arduino finds them: empty ones are not there.
Unless(empty, f) == IF f = empty THEN <<>> ELSE <<f>>
AnswerAlwaysInOut == <<inout>> \o Unless(Zero, number) \o <<type>> \o Unless(NoSpot, spot)
Answer ==
  IF Leaves
  THEN <<inout>> \o Unless(Zero, number) \o <<type>> \o Unless(NoSpot, spot)
  ELSE Unless(Zero, number) \o <<type>> \o Unless(NoSpot, spot)

SendMsg ==
  /\ At("reply")
  /\ toArd' = Append(toArd, Answer)
  /\ Locals
  /\ UNCHANGED <<program, env, ard, toPi, number, db, told, faults>>

(***************************************************************************)
(* The programs for entry only greet SPOT1 as "BLOCK", an id the server     *)
(* does not have, and are not heard.  When connect() fails, write() raises  *)
(* SIGPIPE and the program ends.                                            *)
(***************************************************************************)
MessageAlwaysIn == <<1, number>>
Message == <<inout, number>>

Tell ==
  /\ todo # <<>> /\ Head(todo) = "tell"
  /\ \/ /\ told' = [s \in Spots |-> IF Leaves /\ s = spot THEN Message ELSE told[s]]
        /\ todo' = <<>> /\ NoFault
     \/ todo' = <<"dead">> /\ UNCHANGED told /\ Fault("connect")
  /\ Locals
  /\ UNCHANGED <<program, env, ard, toPi, toArd, number, db>>

\* serialOpen() resets the Arduino as well.
Restart ==
  /\ Fault("restart")
  /\ todo' = <<>> /\ number' = Zero /\ type' = -1 /\ inout' = 1 /\ spot' = NoSpot
  /\ toPi' = <<>> /\ toArd' = <<>>
  /\ ardPc' = "loop" /\ status' = "HIGH" /\ barrier' = 0 /\ lcd' = "ready"
  /\ UNCHANGED <<program, env, db, told>>
-----------------------------------------------------------------------------
Arduino == ArdLoop \/ ArdLower \/ ArdAnswer
RaspberryPi ==
  \/ Look \/ Skip \/ SearchType \/ CheckInOut \/ SearchSpot \/ UpdateSpot \/ InsertLog
  \/ SendMsg \/ Tell

Next == (\E c \in Cars : CarComes(c)) \/ CarGoes \/ Arduino \/ RaspberryPi \/ Restart

Spec == Init /\ [][Next]_vars
FairSpec == Spec /\ WF_vars(CarGoes) /\ WF_vars(Arduino) /\ WF_vars(RaspberryPi)
-----------------------------------------------------------------------------
Without(kinds) == faults \cap kinds = {}
Opens == barrier = 0 /\ barrier' = 90

(***************************************************************************)
(* The one program that waits for "S" and knows entries only                *)
(* (220720 Capture.cpp:73-434) opens to registered cars that have a spot,   *)
(* because its answer has the fields where lcd_pass() looks for them        *)
(* (Raspi_Blocking_Car.ino:66-95) and belongs to the car that stands there. *)
(***************************************************************************)
OpensForBooked ==
  [][Opens /\ program = July20 /\ Without({"query", "plate", "echo"})
       => front \in DOMAIN CarType /\ Booked(front) # {}]_vars

(***************************************************************************)
(* A program for entries (Capture.cpp:395, without "inout") gives no spot   *)
(* twice and takes none away, however many characters it takes for cars.    *)
(***************************************************************************)
RowsOnlyFill ==
  [][~Leaves => \A s \in Spots : stat[s] = 1 => stat'[s] = 1 /\ carnum'[s] = carnum[s]]_vars

(***************************************************************************)
(* Only a program that waits for "S" (Capture.cpp:73, Capture_Inout.cpp:114)*)
(* has its answers read by the car they are for: there is one while the     *)
(* Arduino waits for it, and none is left over for the next car.            *)
(***************************************************************************)
AnswerIsAwaited ==
  program.starts = OnS =>
    /\ (todo # <<>> /\ Head(todo) \notin {"tell", "dead"}) => ardPc = "wait" /\ toArd = <<>>
    /\ toArd # <<>> => ardPc = "wait" /\ Len(toArd) = 1

(***************************************************************************)
(* A program that lets cars leave (Capture_Inout.cpp:527-560) has told each *)
(* spot what its row says whenever it is back at the line, although it may  *)
(* take every character for another visit of the same car.                  *)
(***************************************************************************)
SpotsTold ==
  Leaves /\ todo = <<>> /\ Without({"query", "restart"}) =>
    \A s \in Spots : told[s][1] = stat[s] /\ (stat[s] = 1 => told[s][2] = carnum[s])

(***************************************************************************)
(* The Arduino waits for an "L" without a timeout                           *)
(* (Raspi_Blocking_Car.ino:125).  Every program gives it one, also those    *)
(* that did not hear it ask, unless an image or the server is missing or    *)
(* the recogniser has ended the program.                                    *)
(***************************************************************************)
Answered == (ardPc = "wait") ~> (ardPc # "wait" \/ ~Without({"load", "crash", "connect"}))
=============================================================================
