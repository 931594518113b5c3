# Verification of the automated parking and charging station

The repository builds an electric-car station out of a dozen small programs:
a barrier with number-plate recognition, a parking database, a TCP message
server, and a charging robot made of three ROS nodes. This directory holds TLA+
models of those programs, the TLC runs that check them and the TLAPS proofs
about them. The station is modelled in its last merged version, in
`src/220906_Last_Merge/`, with the server and the clients it is used with; of the
versions before it, the ten gate programs of July (`220720` to `220724`) and the
seven plate readers before them (`opencv`) are modelled where they differ.

## 1. The system

```
 cars -> Arduino gate --serial--> Raspberry Pi --SQL--> parking database
          (barrier)   <--serial--     |
                                      | TCP "[block:PASSWD]" "[SPOT1] 1@1234@2L"
                                      v
        SPOT1 (ESP8266) <--TCP--> IoT server <--TCP--> Jetson1 bridge --ROS topic "Jetson1"--+
                                      ^                                                      |
                                      | TCP "[Start1:PASSWD]" "[SPOT1] 5L"                   v
                                      +------------------------------------------- mode selector
                                                                                   |  ^      ^
                                                              topic "mode"  +------+  |      |
                                                                            v         |      |
                                                                 camera node -"Camera"+      |
                                                                     | topic "angle"         |
                                                                     v                       |
                                                                 manipulator ---"Dynamixel"--+
```

| component | program | state it keeps | operations |
|---|---|---|---|
| Mode selector | `Mode_Selector.cpp` | `mode`, callback queue | three topic callbacks, 1 Hz publish, `send_msg` |
| Camera node | `Merge_Step4_Mode_Camera.cpp` | `recvMode`, `flag`, target pixel, measured distance | mode and image callbacks, report, `sleep(3)`, angles |
| Manipulator | `Charger_Manipulator/*.ino` | `mode`, `flag`, `angle`, joints | `loop()`, `modeCb`, `angleCb`, moves |
| Jetson1 bridge | `Bridge_ros_socket_for_Jetson1.cpp` | TCP connection | read, publish |
| Gate Arduino | `Raspi_InOut.ino` | `status`, barrier | distance, "S", wait for the answer, barrier |
| Gate Raspberry Pi | `Blocking_Raspberry.cpp` | number plate, database rows | recognise, look up, assign, answer, tell SPOT |
| IoT server | `iot_server.c` | client slots, fds, count | accept, log in, relay, log out |
| Plate recogniser | `Blocking_Raspberry.cpp`, the July gates, `opencv` | rectangles of one picture, last number | filter, sort, search of the row, cut, OCR |
| Gate of July | `Capture*.cpp`, `Raspi_Blocking_Car.ino` | as the gate's | as the gate's; the programs differ in what starts a round, who may leave, who is told |
| IoT client | `iot_client.c`, `iot_client.cpp` | shared descriptor, stdio's buffer | terminal, send and receive threads, topic "Sensor" |
| SPOT1 | `0725_ing1.ino` | `Hyojun`, charge level | block message, car arrival, charging loop |

The behaviours that are hard: the selector folds three topics into one variable
and forgets it every second; the camera and the manipulator are kept in step by
a `sleep(3)`; the manipulator and the gate wait without a timeout; the server's
threads share the client table and close a descriptor before they clear it; the
gate keeps the plate of the last car when a plate is not recognised, and its
recogniser drops a rectangle and reads behind the end of an array; the gates of July
start a round for any character, while their Arduino prints a distance every second;
the threads of a client tell each other its end through a descriptor, and its
`select()` does not see what stdio has read.
`PROJECT.json` lists each such hazard at its line.

## 2. The charging robot: `ChargeControl`, `ChargeCycle`, and their proofs

### What is modelled

`ChargeControl` composes selector, camera and manipulator. Every callback, every
turn of each main loop and every wait is an action; a `spinOnce` is a batch of
callbacks taken from the queue when it is called, made one by one (`SelSpin`,
`SelCallback`). Each node has its queue in order of arrival. Image callbacks are
interleaved with mode callbacks as they are in `spinOnce`; the recognition itself
is a choice: circle or not, distance off in x, centred, or not a number.
What a measured distance or a pair of angles *says* is abstracted to the arm's
pose it is right for, which is what `FreshAngles` asks about.

Time is counted in seconds. Rates, `sleep(3)`, `delay(1000)` and the delays of a
move are the numbers in the code; a second passes (`Tick`) only when every node
sleeps, moves or has nothing to do, and nodes that wake in the same second act in
any order. Publishing takes no time (the three nodes are on one host and a USB
line). A move lasts at least the whole seconds of its delays (`MinMove`) and then
ends at any time. `connect()` in `send_msg` may block for up to `MaxConnect`
seconds and may fail `MaxCut` times.

The car and SPOT1 are the environment: SPOT1 sends `1` when a car has parked and a
stop when it is charged, in either form that the selector's parser tells apart
(`6` followed by more fields, or `6L`); it obeys 5L and 7L. This is the SPOT1 that
`Mode_Selector.cpp` is written for, modelled from how the selector uses it. Its program
is not in the repository. The SPOT1 program that is (`0725_ing1.ino` of July, section 5)
is not its counterpart: it talks to port 5001 where the selector connects to 5000, the
start it sends ends the selector (`spot_start`), it charges by itself a second later,
ignores 5L and 7L and sends no 6. With it the robot takes no part at all, so
`charge_cycle` says nothing about that program; what the selector does with its start
is the stray `none` of `charge_traffic`.

`Strays` are Jetson1 messages outside that order, at most `MaxStray` of them. `Fields`
are the first fields that `SensorCallback` tells apart: any positive number is a mode
when none is waiting (`Number`; `8` stands for every number above 7), exactly `6` always
wins, a number that is not positive does nothing, and a word or no field at all ends
the node. `strays` remembers which have been sent, for the properties to name.

`ChargeCycle` is the promise to the spot: a parked car gets the connector, is
charged only when plugged in, released, and leaves only with the connector in its
holder. `Implements` is refinement of it (with its liveness) by the same two
variables, `spot` and `plug`.

### Runs

| run | question | bounds |
|---|---|---|
| `charge_cycle` | in the documented cycle, do the nodes keep in step, and is a parked car charged once the camera gets to see the port? | no strays, `connect()` blocks 0..3 s; the cycle repeats, so any number of cars |
| `charge_traffic` | what survives any one Jetson1 message at any moment, and a lost report? | all twelve fields, one stray, one failed connection |
| `charge_early_stop` | violation: a stop before plugging in ends in "5" without a connector | one stray `6L` |

Both properties of `charge_traffic` have the exception that the selector's filter makes
necessary: a stray "3" or "4" passes for a report of the camera, and the manipulator then
waits for angles nobody measured; a stray "7" is passed on as 7L without asking the arm.
TLC finds both when the exception is dropped. Every other message is survived.

Two disturbances leave nothing of the cycle and are bounds, not properties: a failed
`connect()` loses 5L for good, since the selector reports it once
(`Mode_Selector.cpp:61`), and with a stop in the middle of the approach a `connect()`
of three seconds overruns the `sleep(3)` of the camera, so that angles come before
their mode and the manipulator waits for ever. `CarServed` and `Implements` are
therefore checked without a failure, `WaitIsServed` with `MaxConnect = 0`.

`NPose = 2` is enough to tell a fresh angle from a stale one: a correction is
stale when its pose is not the present one, and it is used at most one move late.

### Fairness

`FairSpec` has weak fairness of each node (each is a loop of its own on its own
processor or process), of time, and therefore of the end of each move. `Sight`
adds what no code can promise: images keep arriving, the circle is found and the
distance is in the end measured as centred. Only `CarServed` uses it; that a
charged car is released (`Cycle!Spec`'s fairness) does not.

### Proofs

For every `NPose`, `Strays`, `MaxStray` and `MaxCut`:

* `TypeCorrect`: `Spec => []TypeOK`.
* `WaitServed`: if `MaxConnect = 0`, a manipulator in `while (!flag)` always has
  its angles coming, unless Jetson1 said "3" or "4". `WaitIsServed` is not inductive: why angles come depends on
  the mode not having overtaken them. `ReportsInTime` says that as long as a report
  is in the selector the camera still sleeps, and longer than the report stays
  (`QueueLag`: the rest of this period, and one more if the running `spinOnce` has
  missed it), unless `connect()` blocks while there is one (`Unblocked`); `AnglesFollow` says that a mode 3 or 4 in the serial input has its
  angles behind it or the camera has yet to publish them. `Sensible` adds that Jetson1
  messages in the selector belong to the cycle or have been heard. With `sleep(2)`
  `ReportsInTime` fails.
* `UnpluggedBeforeLeaving`: if `MaxConnect = 0`, `LeavesUnplugged`, whose exception is a
  Jetson1 "7". From the manipulator's "7" to 7L
  the connector stays in its holder (`SevenInTime`), because `Check_Type` takes
  five seconds and the selector at most two.

These three are in `ChargeControlProofs`. `ChargeCycleProofs` is about the cycle
without strays and failed connections (`Undisturbed`), for any `NPose` and any
`MaxConnect`:

* `CycleRefined`: every step of the three nodes is a step of `ChargeCycle` or changes
  neither `spot` nor `plug`, and so is the beginning. `NothingOverwritten`,
  `StillWhileCharging` and `HomeBeforeLeaving` prove `NoOverwrite`,
  `ArmStillWhileCharging` and `LeavesHome`.
* `WaitServedInCycle`: `WaitIsServed` again, now for any `MaxConnect`: the selector is
  blocked only when the token is its 5 or 7, and then the camera has reported nothing.
* `AnglesFresh`: `FreshAngles`.

The argument is that of a token, not of time. `InCycle` lists the fifteen stages of a
cycle: in each of them the token is a message on its way through the selector
(`Carries`), an order for the manipulator (`Obeys`), or the camera's search
(`Searches`), and whoever does not have it does nothing that counts (`Silent`, `Idle`
or `Rests`, `Blind`). `Moves` says which stage follows which. No delay of the code is used
here: if angles overtook their mode, the manipulator would wait for ever and
nothing worse. That it does not wait is `WaitServedInCycle`, whose argument is time and
token together.
`AnglesInCycle` adds where the angles of a round are: at most one pair is about, and
none outside a round. A manipulator that moves by angles has taken that pair.

Only model-checked: liveness, and the fairness part of the refinement.

## 3. The gate: `ParkingGate`, `ParkingGateProofs`

### What is modelled

One gate serves cars that come and cars that leave; the database decides which it
is. The Arduino's `loop()` is `ArdLoop` (distance of 15 cm or less: "S", and it
waits), `ArdAnswer` (the wait for the "L", `lcd_pass()` and the barrier) and
`ArdLower` (half a second after the car has gone). The Raspberry Pi handles an
"S" in eight steps, one for each query or transmission of its `main()`:
`PiGetChar` (with the recogniser), `PiType`, `PiInOut`, `PiSearch`, `PiUpdate`,
`PiLog`, `PiReply`, `PiTell`. The columns of `now_stat` are `stat` and `carnum`;
`number_back` keeps its value from car to car as in the program. The answer is
modelled by what the Arduino's `strtok()` makes of it (`Fields`), because the two
ends do not agree on its first field.

Cars (`CarComes`, `CarPasses`, `CarTurns`) are the environment: one at a time, and
with a picture taken of them, except for faults.

What may go wrong has a name in `Kinds`, happens once at most, and each property
says which kinds it does not survive: `load` (no image), `plate` (not
recognised), `crash` (the recogniser ends the program: an index out of range, an
OpenCV exception, tesseract without its data), `query` (a statement fails), `connect` (no server, SIGPIPE), `echo`
(distance 0 without a car), `hurry` (a car does not wait for the barrier),
`picture` (not of this car), `restart`.

### Runs

| run | question | bounds |
|---|---|---|
| `gate_faults` | what survives which faults? | two cars, two spots, any two of the nine kinds |
| `gate_visitor` | violation: the barrier opens for unregistered cars and into a full car park | two cars, one not registered, one spot |

`gate_faults` shows that without faults the table follows the cars; that only a
failed query makes the table disagree with itself; that spots and log
agree with the table whenever the Pi is idle; that an answer is for the car that
stands there; that no spot is booked twice unless a plate, a picture, an echo or a
query is bad (an unrecognised plate does it by itself: `number_back` is then
that of the last car, whose spot is freed or booked); and that the gate stays shut only for want of an image, a
server or a recogniser that comes back.
Two cars are what it takes for one to be taken for the other, and two kinds of
fault for one to hide the other's trace.

Fairness: a driver who may pass does, and both programs go on. Waiting for a key in
`waitKey()` is part of the Pi's step, so someone presses it. No new car has to
come.

### Proofs

For any cars, spots and faults: `GateTypes`; `RowsSound` (`OneRowPerCar`, from
`RowsInv`: `inout = 1` in the middle of a round means that the plate has no row and
the chosen one is free); `AnswerMeetsItsCar` (`AnswerForFront`, from `Order`: there
is one "S", one round or one answer under way, and `Fresh`: its number is that of
the car in front); `TableFollowsCars` (`CarsMatchRows`, when there is a spot for
every car (`Roomy`); `Match` keeps the row of a car ahead of the car by exactly the
round that is under way); `SpotsAreTold` (`SpotsTold`, from `ToldInv`: only the
row of the round under way may differ from what its spot was told, and only between
`PiUpdate` and `PiTell`); `LogIsSound` (`LogAgrees`, from `LogInv` and `RowsInv`: two
rows for one car would contradict one log); `BooksEmptySpots` (`EmptySpot`, from
`Parked`, `RowsInv` and `Fresh`: the spot a car was told has its row until it is back
at the gate, and no car that is recognised is refused there). Liveness is
model-checked.

## 4. The message server: `IotServer`, `IotServerProofs`

### What is modelled

`main()` accepts a connection, reads its login in the same thread and refuses or
admits it (`Accept`, `ReadLogin`, `NoLogin`, `Refuse`, `Admit`, `Greet`). Each
client that is logged in has a thread: `ThrRead`, `ThrSend` (the targets of
`send_msg()` are chosen), `ThrWrite` (one `write()`, to a descriptor that was taken
from the table earlier), `ThrSent`, `ThrClose` and `ThrClear` (the descriptor is
closed *before* the table forgets it). Descriptors are the lowest free ones, as
the kernel gives them, so that they are used again. `read()` returns any number of the
messages that have come, perhaps with the beginning of the next (`Remains`: it ends
at the 99th byte, and the rest is read as a message to no one); the first is handled,
as in the code. Without a free descriptor `accept()` returns -1 until there is one. The
text of answers is a word; the log is left out. A client connects, sends its login,
perhaps without a password, and messages, and leaves at any time.

The server can end (`mainPc` = "ended"), and nothing starts it again: by SIGPIPE, at a
`write()` to a client that has gone (`BrokenPipe`; whether the write is lost or breaks
the pipe depends on what came before and is a choice), and at a login without a password
before there was one with it, whose `pArray[1]` is NULL (`pwSet`). Later, `pArray[1]` is
what is left of the last login, right or wrong.

### Runs

| run | question | bounds |
|---|---|---|
| `iot_relay` | who is logged in, who owns which descriptor, what reaches whom? | two ids, three connections, two messages, three descriptors |
| `iot_login` | is every login answered? | the same with one message and two descriptors |

Three connections of two clients are the least in which a client comes back while
its old thread is still closing and takes the descriptor of the other. Connections
are numbered in the order they are made, and the two ids are symmetric in
`iot_relay` (not in `iot_login`, which checks liveness). In `iot_relay` there are as
many descriptors as connections. In `iot_login` there is one less, so that they run
out: those of refused clients, and of clients that leave before their login, are shut
down and never closed.

Fairness: `main()` and the threads run on; a client that has connected sends its
login. Without the last, one silent client keeps everyone else out: this is what
the code does, and the comment of `LoginAnswered` says so. The property has two more
exceptions, and the run fails without either: the server has ended, or it finds no
descriptor any more.

`GoesToItsAddressee` and `InOrder` have an exception, which is real: once a
connection of the addressee is gone, its descriptor may belong to another client,
who then gets the message, or gets one message twice.

### Proofs

For any ids, connections, descriptors and messages: `ServerTypes`, `CountIsExact`
(the count is the number of ids with a descriptor, `CountInv`), `ThreadsKeepTheirSlots`
(`SlotInv` with `MainInv`: the descriptor that `main()` holds is no thread's) and
`NoStrayDelivery` (`SendInv`: what `send_msg()` holds is its addressee's, or the
addressee has left).

`MessagesInOrder` proves `InOrder` from `OrderInv`. Three parts say where a message
can be: what has been delivered from a client is no later than what its thread
relays, and that comes before the rest of its stream (`PastInv`, `JobInv`,
`StreamInv`). The other three say why it comes once: a descriptor that `send_msg()`
holds belongs to one of those it is done with, or that one has left (`AimInv`); so a
client that has the message is not about to get it again, unless another has left
(`OnceInv`); and `accept()` gives a descriptor to a connection that has been sent
nothing (`FreshInv`). `LoginAnswered` is model-checked.

## 5. The spot and the way to the robot: `Spot`, `SpotProofs`

### What is modelled

SPOT1 reads its messages a character at a time, in `loop()` until an "L" and in the
charging loop one character per turn. A message is whole in the model, or the
charging loop has eaten its beginning (`tail`), or nearly all of it (`end`); the
newline behind a gate message is a message of its own (`ReadIn`, `ReadOut` leave it
there, `ReadOther` reads it up with what has come behind it). `Reboot` is
`strcmp(NULL)` on what is left of a message. `SeeCar` ends the wait for the distance
sensor; `TellJetson` sends the start; `Charge` is one turn of the charging loop.
`Connect` is the first turn of `loop()`: `init_conn` is cleared whether or not
SPOT1 got in. `level` is the reading of `A0` on a scale of `0..Full`.

Of the bridge: `BridgeStart` (with the test of a socket that has no value yet),
`Publish` (all that one `read()` returns is one message), `BridgeEnd`, and `Shutdown`: once
ROS is shut down, `ros::ok()` is false and the bridge goes on reading without publishing
anything (`mute`). Of the selector, `Hear`: how `SensorCallback` reads a text with a space in it. Gate,
server, cars and Start1 are the environment: the gate numbers its visits, and the
server may lose a message but keeps their order, which is what section 4 shows. A car
that was announced may take another spot (`ParkElsewhere`); SPOT1 then waits in front of
its distance sensor for whoever comes next, and reports that car under the number of the
announcement it heard. `StartAfterParking` and `StartsInOrder` allow for that, and hold.

### Runs

| run | question | bounds |
|---|---|---|
| `spot_chain` | which starts reach the robot's topic, and when? | three visits, one other message, a server lost once, a shutdown of ROS, a level of 0..1 |
| `spot_start` | violation: the start that SPOT1 sends ends the selector | one visit |

With three visits one can be swallowed between two that are not. Fairness: SPOT1,
the bridge and the selector run on, and a battery that is charged fills. No announced
car has to park. `StartReported` has the exceptions the bridge needs: it has lost its
server, or its ROS node is shut down.

`spot_start` concerns the space that the gate puts in front of the `1`
(`Blocking_Raspberry.cpp:568`): SPOT1 passes it on, and `stream >> ch` stops at it.
`ChargeControl` therefore takes the selector's input as its header documents it.
SPOT1 and the bridge also disagree on the server's port (5001, 5000), which a
deployment has to settle; the models have one server.

### Proofs

For any number of visits and messages: `SpotTypes`, `StartsStayInOrder` and
`NoStartOnTheWay`. The invariant orders the visits along the whole way: published,
with the bridge, waited for by SPOT1 (`InfoInv`), unread by SPOT1 (`InsNew`,
`InsSorted`), announced. Every read, torn or not, takes the gate's messages from
the front of the queue (`From`), which keeps that order. `FullIsShown`
(`AdminSeesFull`) has an invariant of its own, `ShownInv`: whenever SPOT1 is linked and
last read 100, admin was told 100; what it last read is 0 before every `Connect`.
`StartReported` and `HearsAgain` are liveness and model-checked.

## 6. From contours to digits: `PlateScan`, `PlateScanProofs`

### What is modelled

The way from the contours of one picture to four digits, in the eleven gates and in
the seven programs before them. `TakePicture` chooses a picture, a sequence of
bounding rectangles in the order in which OpenCV finds them. Then come the loops of
the code in their order: `Filter` (ratio and area; integer division, and
`refinery_count` raised before it is used, so that cell 0 stays empty and the last
rectangle may be written behind the array, `Overrun`), `Sort` (one turn of the outer
loop per step; the first turn compares with the cell behind the last one), `Snake`
(how many rectangles to the right lie on a line with each, up to the first one too
far), then `Collect` (the gates follow the row from rectangle to rectangle) or
`Frame` (the others cut a frame of the row's width), and `ReadText` with
`find_number()`. `StepCallback` is topic "step" of the two programs that are asked.

A program is a record: `reach`, `slope`, `right`, `framed`, `reads`, `asked`. The
gates of July have other filters and windows around the same text, so they are the
same record as `Gate`; they are named since `PROJECT.json` says where each is. What
the snake finds is stated by sets (`Eaten`, `LastSeen`, `Fullest`) and not by its
counters; `FullestIsChosen` compares it with the friends there are.

`select` without a snake has no initial value: `Collect` then starts at any
rectangle, or the program dies. An empty cut makes `GaussianBlur` throw.

### Run

`plate_scan`: one plate of three or seven characters, near and far, level, tilted and
steep, with one or two contours for each character, close together or with a gap as
wide as `carNumber` jumps, with a first or a last character that is wider or narrower
than the rest, and beside it nothing, a sign on the same line, one in the corner, or a
lamp. The pictures come in both orders, as sorting has to be seen to
work. It shows that what falls behind the end is always a
rightmost rectangle, that the fullest row is found although the search stops early,
that a cut frame holds every friend and stays inside the picture, and what of a plate
that is alone is cut out.

`PlateIsKept` has the premises under which it is true (`OnePlate`), and they say what the
code needs. There are three characters or more, of any widths, side by side and on a
line (14 per cent). All strokes are of one thickness, so that a character's second
contour lies in the same place as any other's (`Twin`). From one character to the next
are 23 to 100 points: a jump of `carNumber` is at most 100 (without this TLC finds a
plate cut in two), and closer together the step from an inner contour to the next outer
one may be steep. From the first to the last are 198 points at most, so that the first
snake, which sees 200, has both contours of the last among its friends; in a longer row
another snake may have more. The empty rectangle in the corner is out of reach: with a
plate there, the row starts at the corner. What it then says is not that the plate is
whole: the frame is as wide as the row from centre to centre and the *last* rectangle
(line 290), half of which goes to each side. The right end is always there; a first
character that is wider than the last one may lose half of what it is wider, and TLC
shows that it does lose some (a plate whose last character is narrow). Two points are
rounding and the inner contour. `FrameHoldsFriends` has the premise that a character is no wider than what
is added at the right.

### Proofs

For any pictures and texts, with any number of contours:

* `TypeIsKept` (`TypeOK`), `OnlyARightmostIsLost` (`LosesARightmost`),
  `TheFullestIsChosen` (`FullestIsChosen`) and `TheFrameHoldsFriends`
  (`FrameHoldsFriends`) follow from one inductive invariant, `Cut`. It says what is
  known at each stage: the array is one empty cell and the contours that fit (`Filled`),
  the cells from `Len(boxes) - turn + 2` on are settled (`Sorting`: each turn of the sort
  settles one more from the end, and swaps keep how often a rectangle occurs), and what
  `select`, `friends` and `plate_width` are worth (`Chosen`). The four properties alone
  are not inductive: the order of the array is what the search relies on.
* `ThePlateIsKept` (`PlateIsKept`), on top of `Cut`. The snake that is chosen begins on
  the first character (`StartsAtFirst`): the friends of a contour of any other one, and
  that contour, are friends of the same contour of the first (`FirstHasMore`). Then
  `carNumber` skips no character (`Reaches`, step by step over the loop; `NextIsJoined`),
  so it ends on a contour of the last (`EndsAtLast`), and the columns are counted
  (`Widened`, for two widths): the five per cent make up for an inner contour.
* `OneBehindTheEnd`: `Stored` fills at most one cell more than there are contours, and
  exactly then when all of them fit, which is `Overrun`.
* `NoFriendIsLost`: why the search may stop at the first rectangle too far. In any
  sorted sequence of rectangles `Eaten` is the set of all friends; without order by `x`
  it fails. `ReportsAreRead`: a program that was asked says that it has finished only
  with four digits in hand.

The loops of the code are folds in the model. A fold of the community modules is a
CHOOSE of a function that unrolls, and `FoldExists` proves that there is one; `StoredLoop`,
`PassLoop` and `FollowLoop` then give each loop the sequence of its intermediate values,
about which one can argue turn by turn with `Induct` (a set of numbers that has 0 and
every successor is `Nat`, from the least number outside it).

## 7. The gates of July: `EarlyGates`, `EarlyGatesProofs`

### What is modelled

Ten programs, `Capture.cpp`, `Capture_with_socket.cpp` and `Capture_Inout.cpp` in four
directories, and the Arduino program they share. A program is a record: `starts`, what
it takes for a car (only "S"; any character; nothing, where the test is commented out
and a key press begins a round), `shows`, whether it shows a picture before it asks
whether there is one, and `round`, the sequence of its queries and transmissions.
`todo` is what is left of the round, so one action stands for a step in all the
programs that have it: `SearchType`, `CheckInOut`, `SearchSpot`, `UpdateSpot`,
`InsertLog`, `SendMsg`, `Tell`. `Look` begins a round, `Skip` is a character that
starts none. Cars, faults and database are those of `ParkingGate`; here the Arduino
also prints each distance (`Printed`), because that is what four programs take for
a car.

The programs for entries only name themselves "BLOCK", an id the server does not have:
`Tell` reaches nobody there.

### Run

`early_gates`: ten programs, two cars of which one is registered, two spots, any two of
seven kinds of fault. One printed distance waits besides an "S" (`MaxInput`), and one
answer besides the one that is written (`MaxAnswers`): one of each is the least with
which a round can be too early, and an answer be left over for the next car. It shows
that only the programs that wait for "S" answer the car that asked, and what the
others keep all the same: spots that are booked stay booked, each spot is told
what its row says, and a car waits in vain only for want of an image, a server or a
recogniser.

Fairness: as for `ParkingGate`; a driver who may go does. The four programs
that do not read the line begin when a key is pressed, so someone presses it.

### Proofs

For any cars, spots and faults: `TypeCorrect`; `EntriesOnlyFill` (`RowsOnlyFill`, from
`Entry`: the spot of a round for entry is free or none, until it is updated;
`RoundOrder` keeps the steps in the order of the programs, which the proof needs
because `round` is data); `AnswersAreAwaited` (`AnswerIsAwaited`, from `Awaited`: of
"S", round and answer there is one at a time, `OneAtATime`); `SpotsAreTold`
(`SpotsTold`, from `Telling`: only the spot of the round under way may differ from what
its controller was told, and only between `UpdateSpot` and `Tell`); `OpensToBooked`
(`OpensForBooked`, from `JulyInv`: the car stays in front of the closed gate while
the Arduino waits, the round of `July20` is about it, and an answer with a type and a
spot is only sent when both are in the tables). Liveness is model-checked.

## 8. The clients of a person: `IotClient`, `IotClientProofs`

### What is modelled

`iot_client.c`, its second try for ROS and `iot_client.cpp`. Two threads share a
descriptor (`sock`), and -1 in it tells the other to end; the reader of
`iot_client.cpp` has a copy. `send_msg()` is `Select`, `Fgets`, `Load` (the test of
the descriptor), `Write` and `Check`; `recv_msg()` is `RosInit`, `Read`,
`ReadReturns`, `ReadEnds`, `Publish` and `Sleep`. A typed line is the sequence of parts
that `fgets()` makes of it with its buffer; what is left of a long line waits in stdio,
where `select()` does not see it. `conn` is the connection behind the descriptor:
after the server has closed it, a first write is answered by a reset and a second one
is SIGPIPE, which a ROS node ignores: its `write()` fails and its sender ends. A person types, presses Ctrl-D or Ctrl-C, which a ROS node survives.

### Run

`iot_client`: three programs, two lines of one or two parts, the second of which may be
without id or "quit", and two messages of the server. Two of each are the least that
can be put together or overtake each other. It shows that nothing typed is lost or
reordered while the server listens, that topic "Sensor" gets what was heard, once and
in order, and that the shared descriptor ends the sender. The copy of `iot_client.cpp` does not:
its sender only ends when its second write fails, so `EndsWithServer` and `NoLateWrite`
except it, and no property covers that hazard.

Fairness: both threads and `main()` are scheduled by the operating system. Nobody has
to type, and the server has to say nothing.

### Proofs

For any lines and numbers of messages: `TypeCorrect` and `WritesEnd` (`NoLateWrite`,
from `Told`: a reader that has ended has set the shared descriptor to -1);
`EveryPartIsKept` (`NoPartLost`, from `Conserved`: the property names the four places where
a typed part can be; that `msg` is free when `fgets()` fills it, and that nothing is
typed before the program runs, make it inductive) and `PublishesWhatItHeard`
(`PublishedAsHeard`, from `Relayed`: what is published, with the batch about to be, is
what was heard, and that is a beginning of what the server said). `EndsWithServer` is
liveness and model-checked.

## 9. What is not modelled

* Image processing and trigonometry: filters, contours, rotation, OCR, circle
  detection and `Calculate_y` are inputs or choices of their result. That `asin()` has
  no value above 13 cm, and that -10000 is sent as an angle, is listed in
  `PROJECT.json` without a property.
* Memory: writes behind an array, except the one of `boundRect2` (`ch[30]`,
  `pArray`), and descriptors above 127 in a `char`.
* Of the server: a first message without any field, a login that is read in two parts,
  and the rest of a cut message that happens to begin with an id. Of the bridge:
  the server's greeting, which it publishes like a message of SPOT1.
* Of the clients: a write that blocks on a full socket; the test of a `sock` that has no
  value yet ends the program or does not.
* `Capture_Inout.cpp` of 21 July, which uses `rest_spot` without declaring it and does
  not compile.
* The June programs for scans and topics (`22061*`, `220704*`): first versions of
  selector and manipulator, replaced by the merged ones.
* The vision experiments in `opencv` that find no plate, copies of server and client,
  generated build directories, and the text of messages, logs and displays.

## 10. Limits of the proofs

Every safety invariant and every action property that a run checks is a theorem, for
every value of the constants (`WaitServed` and `UnpluggedBeforeLeaving` for
`MaxConnect = 0`, `ChargeCycleProofs` for `Undisturbed`, `TableFollowsCars` for `Roomy`,
as in their runs). Model-checked only are the liveness properties, which need
fairness and ENABLED: `CarServed`, `Answered` (twice), `LetThrough`, `LoginAnswered`,
`StartReported`, `HearsAgain`, `EndsWithServer`, and the fairness part of `Implements`.

The library's theorems on induction are out of the provers' reach; where a proof
needs one, `Induct` of `PlateScanProofs` does the same with a set. No module has a
RECURSIVE operator, so all of them can be proved about. The assumptions are the
named `ASSUME` of each module: finite non-empty sets, bounds that are natural numbers,
and, for `PlateScan`, that a picture is a sequence of rectangles and a text one of
characters.

Every component has a type invariant `TypeOK`. That of `PlateScan` is checked by its
run too; those of the other six are theorems (`TypeCorrect`, `GateTypes`,
`ServerTypes`, `SpotTypes`), and no run repeats them.

## 11. Plan

1. `ArmAlign`: what `Set_Complete_angle_x` and `_y`, with their absolute moves,
   make of repeated corrections, and what -10000 does to the arm.
2. `Station`: gate, server and spot composed, with the abstract promise that a car
   is told one spot and only that spot's robot starts.
3. The June controllers (`Total_Scan_with_2horn_ROS`, `OpenCR_mode_change`,
   `mode_select`) as variants of `ChargeControl`.
4. Of the liveness properties, the part that is safety: that whoever waits is owed what
   it waits for, as `WaitIsServed` and `AnswerIsAwaited` say it for the manipulator and
   the July gates. The same for `LoginAnswered`, `StartReported` and `EndsWithServer`,
   with TLC first.
