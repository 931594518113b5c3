---------------------------- MODULE ParkingGate ----------------------------
(***************************************************************************)
(* The barrier of the car park.  An Arduino (Raspi_InOut.ino) senses a car *)
(* and sends "S" over the serial line; a Raspberry Pi                      *)
(* (Blocking_Raspberry.cpp) reads the number plate, looks it up in the     *)
(* tables car_type and now_stat, books or frees a spot, answers the        *)
(* Arduino and tells the spot through the IoT server.  One gate serves the *)
(* cars that come and those that leave: the database says which it is.     *)
(*                                                                         *)
(* The distances that the Arduino prints on the same line are left out:    *)
(* the Pi reads and ignores them.  Everything that may go wrong is a Fault *)
(* of a kind in Faults; each kind happens once at most, MaxFault in all.   *)
(***************************************************************************)
EXTENDS Integers, Sequences, FiniteSets

CONSTANTS
  Cars,        \* the last four digits of the plates
  CarType,     \* the table car_type: a function from the registered plates
  NSpot,       \* the rows of now_stat, in the order a select returns them
  Zero,        \* the empty number_back and CARNUM 0: both are 0 for atoi
  NoSpot,      \* the empty string in the buffer spot
  NoCar,       \* nothing in front of the sensor
  Faults,      \* the kinds of fault that may occur
  MaxFault     \* bound: how many kinds in one run

Spots == 1..NSpot

Kinds == {"load", "plate", "crash", "query", "connect", "echo", "hurry", "picture", "restart"}

ASSUME GateAssumption ==
  /\ NSpot \in Nat /\ MaxFault \in Nat /\ Faults \subseteq Kinds
  /\ IsFiniteSet(Cars) /\ Cars # {} /\ Cars \cap Int = {}
  /\ CarType \in [DOMAIN CarType -> 1..3] /\ DOMAIN CarType \subseteq Cars
  /\ Zero \notin Cars \cup Int /\ NoCar \notin Cars /\ NoSpot \notin Cars \cup Int \cup {Zero}

VARIABLES
  front,       \* the car in front of the barrier
  inside,      \* the cars in the car park
  held,        \* the spot each of them was given
  picture,     \* the plate on the picture argv[1]
  ardPc,       \* where loop() of the Arduino is
  status,      \* its status: HIGH while it looks for a car
  barrier,     \* angle of the servo motor
  lcd,         \* what it displays
  toPi, toArd, \* the two directions of the serial line
  piPc,        \* where the loop of the Raspberry Pi is
  number,      \* number_back, which keeps its value from car to car
  type, inout, spot,
  stat, carnum,\* columns STATUS and CARNUM of now_stat
  logged,      \* the last row of parkinglot_log of each plate
  told,        \* the last message written for each spot; its way is Spot's matter
  faults       \* the kinds of fault that have occurred

env == <<front, inside, held, picture>>
ard == <<ardPc, status, barrier, lcd>>
pi == <<piPc, number, type, inout, spot>>
db == <<stat, carnum, logged>>
vars == <<env, ard, toPi, toArd, pi, db, told, faults>>

Numbers == Cars \cup {Zero}
Answers == {0, 1} \X Numbers \X ({-1} \cup 1..3) \X (Spots \cup {NoSpot})

EnvOK ==
  /\ front \in Cars \cup {NoCar} /\ inside \subseteq Cars
  /\ held \in [Cars -> Spots \cup {NoSpot}] /\ picture \in Cars
ArdOK ==
  /\ ardPc \in {"loop", "wait", "lower"} /\ status \in {"HIGH", "LOW"} /\ barrier \in {0, 90}
  /\ lcd \in {"ready", "go", "refused"}
LinesOK == toPi \in Seq({"S"}) /\ toArd \in Seq(Answers)
PiOK ==
  /\ piPc \in {"idle", "type", "inout", "search", "update", "log", "reply", "tell", "dead"}
  /\ number \in Numbers /\ type \in {-1} \cup 1..3 /\ inout \in {0, 1}
  /\ spot \in Spots \cup {NoSpot}
DbOK ==
  /\ stat \in [Spots -> {0, 1}] /\ carnum \in [Spots -> Numbers]
  /\ logged \in [Numbers -> {0, 1} \X (Spots \cup {NoSpot})]
  /\ told \in [Spots -> {0, 1} \X Numbers]

TypeOK == EnvOK /\ ArdOK /\ LinesOK /\ PiOK /\ DbOK /\ faults \subseteq Faults

Fault(kind) ==
  /\ kind \in Faults \ faults /\ Cardinality(faults) < MaxFault
  /\ faults' = faults \cup {kind}
NoFault == UNCHANGED faults

Init ==
  /\ front = NoCar /\ inside = {} /\ held = [c \in Cars |-> NoSpot] /\ picture \in Cars
  /\ ardPc = "loop" /\ status = "HIGH" /\ barrier = 0 /\ lcd = "ready"
  /\ toPi = <<>> /\ toArd = <<>>
  /\ piPc = "idle" /\ number = Zero /\ type = -1 /\ inout = 0 /\ spot = NoSpot
  /\ stat = [s \in Spots |-> 0] /\ carnum = [s \in Spots |-> Zero]
  /\ logged = [n \in Numbers |-> <<0, NoSpot>>]
  /\ told = [s \in Spots |-> <<0, Zero>>]
  /\ faults = {}
-----------------------------------------------------------------------------
(* The cars *)

BookedFromSecond(c) == {s \in Spots : s > 1 /\ carnum[s] = c}
Booked(c) == {s \in Spots : carnum[s] = c}
First(rows) == CHOOSE s \in rows : \A t \in rows : s <= t

\* A car stops at the gate once the barrier has closed behind the last one, and
\* its picture is taken to argv[1]; one in a hurry does not wait for the barrier.
GateClosed == status = "HIGH" /\ ardPc = "loop"
CarComes(c) ==
  /\ front = NoCar
  /\ front' = c
  /\ \/ picture' = c /\ IF GateClosed THEN NoFault ELSE Fault("hurry")
     \/ UNCHANGED picture /\ GateClosed /\ Fault("picture")
  /\ UNCHANGED <<inside, held, ard, toPi, toArd, pi, db, told>>

\* It drives through the open barrier, in to the spot it was given or out.
CarPasses ==
  /\ front # NoCar /\ barrier = 90
  /\ front' = NoCar
  /\ IF front \in inside
       THEN inside' = inside \ {front} /\ held' = [held EXCEPT ![front] = NoSpot]
       ELSE /\ inside' = inside \cup {front}
            /\ held' = [held EXCEPT ![front] =
                          IF Booked(front) # {} THEN First(Booked(front)) ELSE NoSpot]
  /\ UNCHANGED <<picture, ard, toPi, toArd, pi, db, told, faults>>
-----------------------------------------------------------------------------
(* The Arduino *)

\* What pulseIn yields, in centimetres; it is 0 when the echo times out.
Distance ==
  IF front # NoCar THEN {15} ELSE {16} \cup (IF "echo" \in Faults THEN {0} ELSE {})

ArdDetectAgain(d) ==
  /\ d <= 15
  /\ IF d = 0 THEN Fault("echo") ELSE NoFault
  /\ toPi' = Append(toPi, "S")
  /\ ardPc' = "wait"
  /\ UNCHANGED <<status, barrier, lcd>>

ArdDetect(d) ==
  /\ d <= 15 /\ status = "HIGH"
  /\ IF d = 0 THEN Fault("echo") ELSE NoFault
  /\ toPi' = Append(toPi, "S")
  /\ ardPc' = "wait"
  /\ UNCHANGED <<status, barrier, lcd>>

ArdClear(d) ==
  /\ d > 15 /\ d # 0 /\ status = "LOW"
  /\ lcd' = "ready"
  /\ ardPc' = "lower"
  /\ UNCHANGED <<status, barrier, toPi, faults>>

ArdLoop ==
  /\ ardPc = "loop"
  /\ \E d \in Distance : ArdDetect(d) \/ ArdClear(d)
  /\ UNCHANGED <<env, toArd, pi, db, told>>

\* After half a second the barrier closes, whatever has come by then.
ArdLower ==
  /\ ardPc = "lower"
  /\ ardPc' = "loop" /\ status' = "HIGH" /\ barrier' = 0
  /\ UNCHANGED <<env, lcd, toPi, toArd, pi, db, told, faults>>

\* strtok() skips empty fields; what is not there is NULL.
Unless(empty, f) == IF f = empty THEN <<>> ELSE <<f>>
Fields(a) == <<a[1]>> \o Unless(Zero, a[2]) \o <<a[3]>> \o Unless(NoSpot, a[4])
\* lcd_pass(): the second field is -1, or there is no third.
RefusedFromOne(f) == f[2] = -1 \/ Len(f) < 5
Refused(f) == f[2] = -1 \/ Len(f) < 3

ArdAnswer ==
  /\ ardPc = "wait" /\ toArd # <<>>
  /\ toArd' = Tail(toArd)
  /\ LET f == Fields(Head(toArd))
     IN  IF Refused(f)
           THEN lcd' = "refused" /\ UNCHANGED barrier
           ELSE lcd' = "go" /\ barrier' = 90
  /\ status' = "LOW"
  /\ ardPc' = "loop"
  /\ UNCHANGED <<env, toPi, pi, db, told, faults>>

\* A car that is refused turns round.
CarTurns ==
  /\ front # NoCar /\ barrier = 0 /\ lcd = "refused"
  /\ front' = NoCar
  /\ UNCHANGED <<inside, held, picture, ard, toPi, toArd, pi, db, told, faults>>
-----------------------------------------------------------------------------
(* The Raspberry Pi.  Each query is a step of its own.                     *)

\* "S": without an image it goes back to the line and says nothing.  The
\* recogniser sets number_back, unless it finds no four digits.  On some pictures
\* it ends the program instead: an index behind boundRect2 (:177-181) or a select
\* that was never set (:238), an empty crop that OpenCV throws for (:306-314), or
\* a tesseract that cannot be initialised (:606-609).  Nothing starts it again
\* but a Restart.
PiGetChar ==
  /\ piPc = "idle" /\ toPi # <<>>
  /\ toPi' = Tail(toPi)
  /\ \/ Fault("load") /\ UNCHANGED <<piPc, number>>
     \/ Fault("crash") /\ piPc' = "dead" /\ UNCHANGED number
     \/ piPc' = "type" /\ number' = picture /\ NoFault
     \/ piPc' = "type" /\ number' \in Cars \cup {number} /\ Fault("plate")
  /\ UNCHANGED <<env, ard, toArd, type, inout, spot, db, told>>

PiType ==
  /\ piPc = "type"
  /\ \/ type' = (IF number \in DOMAIN CarType THEN CarType[number] ELSE -1) /\ NoFault
     \/ type' = -1 /\ Fault("query")
  /\ piPc' = "inout"
  /\ UNCHANGED <<env, ard, toPi, toArd, number, inout, spot, db, told>>

\* A plate that has a row is leaving; CARNUM is 0 in the free rows.
PiInOut ==
  /\ piPc = "inout"
  /\ \E found \in {Booked(number), {}} :
       /\ IF found = Booked(number) THEN NoFault ELSE Fault("query")
       /\ IF found # {}
            THEN spot' = First(found) /\ inout' = 0 /\ piPc' = "update"
            ELSE spot' = NoSpot /\ inout' = 1 /\ piPc' = "search"
  /\ UNCHANGED <<env, ard, toPi, toArd, number, type, db, told>>

FreeUnchecked == Spots
Free == {s \in Spots : stat[s] = 0}

\* spot != "" compares two addresses, so "Not In" is never answered.
PiSearch ==
  /\ piPc = "search"
  /\ \/ spot' = (IF Free # {} THEN First(Free) ELSE spot) /\ NoFault
     \/ UNCHANGED spot /\ Fault("query")
  /\ piPc' = "update"
  /\ UNCHANGED <<env, ard, toPi, toArd, number, type, inout, db, told>>

\* The CARNUM that the row of spot gets.
NewCarnumKept == number
NewCarnum == IF inout = 1 THEN number ELSE Zero

PiUpdate ==
  /\ piPc = "update"
  /\ \/ /\ stat' = [s \in Spots |-> IF s = spot THEN inout ELSE stat[s]]
        /\ carnum' = [s \in Spots |-> IF s = spot THEN NewCarnum ELSE carnum[s]]
        /\ NoFault
     \/ UNCHANGED <<stat, carnum>> /\ Fault("query")
  /\ piPc' = "log"
  /\ UNCHANGED <<env, ard, toPi, toArd, number, type, inout, spot, logged, told>>

PiLogOrContinue ==
  /\ piPc = "log"
  /\ \/ logged' = [logged EXCEPT ![number] = <<inout, spot>>] /\ NoFault /\ piPc' = "reply"
     \/ UNCHANGED logged /\ Fault("query") /\ piPc' = "idle"
  /\ UNCHANGED <<env, ard, toPi, toArd, number, type, inout, spot, stat, carnum, told>>

PiLog ==
  /\ piPc = "log"
  /\ \/ logged' = [logged EXCEPT ![number] = <<inout, spot>>] /\ NoFault
     \/ UNCHANGED logged /\ Fault("query")
  /\ piPc' = "reply"
  /\ UNCHANGED <<env, ard, toPi, toArd, number, type, inout, spot, stat, carnum, told>>

PiReply ==
  /\ piPc = "reply"
  /\ toArd' = Append(toArd, <<inout, number, type, spot>>)
  /\ piPc' = "tell"
  /\ UNCHANGED <<env, ard, toPi, number, type, inout, spot, db, told, faults>>

\* If connect() fails, write() raises SIGPIPE and the program ends.
MessageAlwaysIn == <<1, number>>
Message == <<inout, number>>

PiTell ==
  /\ piPc = "tell"
  /\ \/ /\ told' = [s \in Spots |-> IF s = spot THEN Message ELSE told[s]]
        /\ piPc' = "idle" /\ NoFault
     \/ piPc' = "dead" /\ UNCHANGED told /\ Fault("connect")
  /\ UNCHANGED <<env, ard, toPi, toArd, number, type, inout, spot, db>>

\* The program is started again: serialOpen() resets the Arduino with it.
Restart ==
  /\ Fault("restart")
  /\ piPc' = "idle" /\ number' = Zero /\ type' = -1 /\ inout' = 0 /\ spot' = NoSpot
  /\ toPi' = <<>> /\ toArd' = <<>>
  /\ ardPc' = "loop" /\ status' = "HIGH" /\ barrier' = 0 /\ lcd' = "ready"
  /\ UNCHANGED <<env, db, told>>
-----------------------------------------------------------------------------
Driver == CarPasses \/ CarTurns
Arduino == ArdLoop \/ ArdLower \/ ArdAnswer
RaspberryPi == PiGetChar \/ PiType \/ PiInOut \/ PiSearch \/ PiUpdate \/ PiLog \/ PiReply \/ PiTell

Next == (\E c \in Cars : CarComes(c)) \/ Driver \/ Arduino \/ RaspberryPi \/ Restart

Spec == Init /\ [][Next]_vars
FairSpec == Spec /\ WF_vars(Driver) /\ WF_vars(Arduino) /\ WF_vars(RaspberryPi)
-----------------------------------------------------------------------------
(* Properties *)

\* Where a car is and what now_stat says of it.  The row of a car changes when
\* the car is recognised and the car moves when the barrier is up, so between
\* the two the row is ahead of the car.  A row that is not freed, or freed
\* twice, turns every later visit of that car upside down, in for out.  As long
\* as nothing goes wrong, that does not happen.
Ahead == \/ piPc \in {"log", "reply"}
         \/ toArd # <<>>
         \/ barrier = 90
CarsMatchRows ==
  faults = {} =>
  \A c \in Cars : (c \in inside) # (c = front /\ Ahead) <=> \E s \in Spots : carnum[s] = c

Without(kinds) == faults \cap kinds = {}

\* A plate has one row at most, and the rows that have STATUS 0 have CARNUM 0:
\* the second select of the Pi finds by STATUS what the first one looks up by
\* CARNUM.  Only a failed query breaks that.
OneRowPerCar ==
  Without({"query"}) =>
    /\ \A s, t \in Spots : carnum[s] = carnum[t] /\ carnum[s] # Zero => s = t
    /\ \A s \in Spots : stat[s] = 0 <=> carnum[s] = Zero

\* When the Pi waits for the next car, each spot was last told what its row
\* says, over whatever misread plates, failed images and phantom cars.
SpotsTold ==
  Without({"query", "restart"}) /\ piPc = "idle" =>
    \A s \in Spots : told[s][1] = stat[s] /\ (stat[s] = 1 => told[s][2] = carnum[s])

\* And the last log row of every plate agrees with now_stat.
LogAgrees ==
  Without({"query", "restart"}) /\ piPc = "idle" =>
    \A c \in Cars : \A s \in Spots : carnum[s] = c <=> logged[c] = <<1, s>>

\* The answer that reaches the Arduino is about the car that stands there, also
\* if cars follow one another through the open barrier or the Pi is restarted.
AnswerForFront ==
  Without({"plate", "picture", "echo"}) /\ toArd # <<>> => Head(toArd)[2] = front

\* A spot that is booked is not one in which another car was told to park.  A plate
\* that is not recognised does break this: number_back still holds the last car, whose
\* spot is freed while it stands there (Blocking_Raspberry.cpp:363, :494).
Books(s) == stat[s] = 0 /\ stat'[s] = 1
EmptySpot ==
  [][\A s \in Spots : Without({"echo", "query", "picture", "plate"}) /\ Books(s)
                        => \A c \in inside \ {front} : held[c] # s]_vars

\* Every car that comes to the gate gets through it, unless something fails.
LetThrough ==
  \A c \in Cars : /\ (front = c /\ c \notin inside) ~> (c \in inside \/ faults # {})
                  /\ (front = c /\ c \in inside) ~> (c \notin inside \/ faults # {})

\* The Arduino, which waits for the answer without a timeout, gets one unless
\* the Pi has had no image or no server, or the recogniser has ended the program;
\* a misread plate, a failed statement or a restart does not keep the gate shut.
Answered ==
  (ardPc = "wait") ~> (ardPc # "wait" \/ ~Without({"load", "crash", "connect"}))

\* The barrier opens for registered cars only, and for one that enters only if
\* there is a spot for it.
Opens == barrier = 0 /\ barrier' = 90
OpensIfAllowed ==
  [][Opens => front \in DOMAIN CarType /\ (front \in inside \/ Booked(front) # {})]_vars
=============================================================================
