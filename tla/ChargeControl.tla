---------------------------- MODULE ChargeControl ----------------------------
(***************************************************************************)
(* The control loop of the charging robot: three ROS nodes that talk over  *)
(* topics and together run one charging cycle.                             *)
(*                                                                         *)
(*   selector     Mode_Selector.cpp: collects Jetson1, Dynamixel and       *)
(*                Camera messages in one variable, mode, and publishes it  *)
(*                once a second on the topic "mode".                       *)
(*   camera       Merge_Step4_Mode_Camera.cpp: in mode 2 looks for the     *)
(*                charging port and reports 3 (off in x) or 4 (centred),   *)
(*                sleeps three seconds, then publishes the joint angles.   *)
(*   manipulator  Charger_Manipulator.ino: obeys modes 1, 3, 4 and 6 and   *)
(*                answers 2, 5 or 7 on the topic "Dynamixel".              *)
(*                                                                         *)
(* Around them stand the car on the spot and SPOT1, the spot's controller, *)
(* which hears 5 and 7 from the selector over TCP and whose messages reach *)
(* the selector on the topic "Jetson1".                                    *)
(*                                                                         *)
(* Time is counted in seconds, the unit of every loop rate and sleep of    *)
(* the three programs.  What a program does between two sleeps takes no    *)
(* time, and a message is in its subscriber's callback queue as soon as it *)
(* is published; the nodes whose sleep has run out may act in any order    *)
(* before the next Tick, so messages of different publishers may arrive in *)
(* any order.  Two things take time of their own: a move of the arm, which *)
(* lasts at least as long as the delays in its code, and connect(), which  *)
(* may block the selector.                                                 *)
(***************************************************************************)
EXTENDS Integers, Sequences

CONSTANTS
  NPose,     \* how many successive poses of the arm are told apart
  Strays,    \* Jetson1 messages that may arrive outside the cycle ...
  MaxStray,  \* ... and how many of them
  MaxCut,    \* how many times the selector's connect() to the server fails
  MaxConnect \* for how many seconds connect() can block

\* The first field of a Jetson1 message "[id]a@b@cL": a number, of which "0"
\* stands for every one that is not positive and "8" for every one above 7; the
\* stop "6L" that has no other field, for which stoi() gives 6; a word, which is
\* no number; and no field at all.
Numbers == {"0", "1", "2", "3", "4", "5", "6", "7", "8"}
Fields  == Numbers \cup {"6L", "word", "none"}

ASSUME ConstantsAssumption ==
  /\ NPose \in Nat /\ NPose > 1
  /\ Strays \subseteq Fields
  /\ MaxStray \in Nat
  /\ MaxCut \in Nat
  /\ MaxConnect \in Nat

Period   == 1   \* ros::Rate(1) of the selector and of the camera
CamSleepShort == 2   \* mutant of CamSleep: a second less
CamSleep == 3   \* sleep(3) between a Camera message and its angles
ManDelay == 1   \* delay(1000) while waiting for angles

\* The whole seconds of the delays in a move: four horns of 1000 ms and 1600 ms
\* in Check_Type, two horns in Init_First, nothing for an angle of zero.
MinMove(j) == CASE j = 1 -> 5 [] j = 6 -> 7 [] j = -2 -> 2 [] OTHER -> 0

VARIABLES
  \* selector
  selPc,     \* "publish", "send", "spin" (about to spinOnce), "calls", "down"
  mode,      \* the mode to publish, -1 when there is none
  selQ,      \* its callback queue: <<topic, text>> in arrival order
  selBatch,  \* the callbacks the running spinOnce still has to make
  selT,      \* seconds left of the period of its ros::Rate
  conn,      \* seconds until connect() returns
  \* camera
  camPc,     \* "top", "angle" (after the report), "calls" (in spinOnce)
  recvMode,  \* the last mode received
  camFlag,   \* flag: -1, 1 (off in x) or 2 (centred in x)
  imode,     \* what was last reported
  target,    \* pose from which tar_x, tar_y were seen, NoPose if reset
  measure,   \* pose the measured distance is right for
  camQ,      \* modes waiting for spinOnce
  camBatch,  \* modes the running spinOnce still has to deliver
  images,    \* images the running spinOnce still has to deliver
  camT,      \* seconds left of the period of its ros::Rate
  nap,       \* seconds left of sleep(3)
  \* manipulator
  manPc,     \* "spin", "wait" (spinOnce of a wait loop), "delay", "move"
  manMode,   \* mode: the command received, -1 when there is none
  job,       \* the branch of loop() that is running
  manFlag,   \* flag: an angle message has been received
  angle,     \* the last angles received
  manQ,      \* mode and angle messages in the order they reach the board
  manT,      \* seconds left of delay(1000), or before the move can end
  \* the world
  plug,      \* the charging connector is in its "holder", the "arm", the "car"
  home,      \* the arm is in the waiting pose
  pose,      \* counts the arm's moves, modulo NPose
  spot,      \* "empty", "parked", "charging", "charged": as SPOT1 sees it
  strays,    \* the Jetson1 messages outside the cycle so far
  cuts       \* failed connections so far

selVars   == <<selPc, mode, selQ, selBatch, selT, conn>>
camVars   == <<camPc, recvMode, camFlag, imode, target, measure, camQ, camBatch,
               images, camT, nap>>
manVars   == <<manPc, manMode, job, manFlag, angle, manQ, manT>>
worldVars == <<plug, home, pose, spot, strays, cuts>>
vars      == <<selVars, camVars, manVars, worldVars>>

NoPose  == -1
NoAngle == <<"none", NoPose>>
Poses   == 0 .. NPose - 1
Modes   == 1 .. 8   \* 8 for whatever else a Jetson1 message may set
Angles  == {"x", "y"} \X (Poses \cup {NoPose})

\* What reaches the selector, and what reaches the board.
SelMsgs == ({"Jetson1"} \X Fields) \cup ({"Dynamixel"} \X {"2", "5", "7"})
                                   \cup ({"Camera"} \X {"3", "4"})
ModeMsg(m)  == [topic |-> "mode", mode |-> m, angle |-> NoAngle]
AngleMsg(a) == [topic |-> "angle", mode |-> -1, angle |-> a]
ManMsgs == {ModeMsg(m) : m \in Modes} \cup {AngleMsg(a) : a \in Angles}

-----------------------------------------------------------------------------
Init ==
  /\ selPc = "publish" /\ mode = -1 /\ selQ = <<>> /\ selBatch = <<>>
  /\ selT = 0 /\ conn = 0
  /\ camPc = "top" /\ recvMode = -1 /\ camFlag = -1 /\ imode = -1
  /\ target = NoPose /\ measure = NoPose
  /\ camQ = <<>> /\ camBatch = <<>> /\ images = {} /\ camT = 0 /\ nap = 0
  /\ manPc = "move" /\ manMode = -2 /\ job = -2     \* loop() starts with Init_First()
  /\ manFlag = 0 /\ angle = NoAngle /\ manQ = <<>> /\ manT = MinMove(-2)
  /\ plug = "holder" /\ home = FALSE /\ pose = 0
  /\ spot = "empty" /\ strays = <<>> /\ cuts = 0

-----------------------------------------------------------------------------
(***************************************************************************)
(* The selector.  A turn of its loop publishes mode, tells SPOT1 when mode *)
(* is 5 or 7, forgets mode, runs the callbacks that are queued and sleeps. *)
(***************************************************************************)

\* SPOT1 and the car: 5L starts the charging of a parked car, 7L has the car
\* driven away.  This is the SPOT1 that Mode_Selector is written for; its program
\* is not in the repository.  The one that is (0725_ing1.ino, an earlier one, at
\* port 5001 where the selector connects to 5000) starts with a message that
\* ends the selector ("none" here, see Spot), charges by itself, ignores 5L and
\* 7L and sends no 6: with it there is no cycle to speak of.
Told(m) == CASE m = 5 /\ spot = "parked" -> "charging"
             [] m = 7                    -> "empty"
             [] OTHER                    -> spot

SelPublish ==
  /\ selPc = "publish" /\ selT = 0
  /\ selT' = Period
  /\ IF mode > 0
     THEN camQ' = Append(camQ, mode) /\ manQ' = Append(manQ, ModeMsg(mode))
     ELSE UNCHANGED <<camQ, manQ>>
  /\ IF mode \in {5, 7}
     THEN /\ selPc' = "send"
          /\ conn' \in 0 .. MaxConnect
          /\ UNCHANGED mode
     ELSE /\ selPc' = "spin"
          /\ mode' = -1
          /\ UNCHANGED conn
  /\ UNCHANGED <<selQ, selBatch, camPc, recvMode, camFlag, imode, target, measure,
                 camBatch, images, camT, nap, manPc, manMode, job, manFlag, angle,
                 manT, worldVars>>

\* send_msg(): one connection per message.  When connect() fails this is
\* printed and nothing else, so the message is lost.
SelSend ==
  /\ selPc = "send" /\ conn = 0
  /\ \/ spot' = Told(mode) /\ UNCHANGED cuts
     \/ cuts < MaxCut /\ cuts' = cuts + 1 /\ UNCHANGED spot
  /\ selPc' = "spin"
  /\ mode' = -1
  /\ UNCHANGED <<selQ, selBatch, selT, conn, camVars, manVars, plug, home, pose,
                 strays>>

\* ros::spinOnce() makes the callbacks queued when it is called.
SelSpin ==
  /\ selPc = "spin"
  /\ selPc' = "calls"
  /\ selBatch' = selQ
  /\ selQ' = <<>>
  /\ UNCHANGED <<mode, selT, conn, camVars, manVars, worldVars>>

\* stoi() of the first field, for what it does not throw.
Number(text) == CASE text = "1" -> 1
                  [] text = "2" -> 2
                  [] text = "3" -> 3
                  [] text = "4" -> 4
                  [] text = "5" -> 5
                  [] text \in {"6", "6L"} -> 6
                  [] text = "7" -> 7
                  [] text = "8" -> 8
                  [] OTHER      -> 0

\* The mode after SensorCallback: exactly "6" always wins, any other positive
\* number only counts when no mode is waiting.
AfterSensor(text) ==
  IF text = "6" \/ (mode = -1 /\ Number(text) > 0) THEN Number(text) ELSE mode

\* Mutant of AfterDynamixel: 5 and 7 exchanged.
AfterDynamixelSwapped(text) ==
  CASE text = "2" -> 2
    [] text = "5" -> 7
    [] text = "7" -> 5
    [] OTHER      -> mode

AfterDynamixel(text) ==
  CASE text = "2" -> 2
    [] text = "5" -> 5
    [] text = "7" -> 7
    [] OTHER      -> mode

\* Mutant of AfterCamera: "4" is not recognised.
AfterCameraXOnly(text) == IF text = "3" THEN 3 ELSE mode

AfterCamera(text) ==
  CASE text = "3" -> 3
    [] text = "4" -> 4
    [] OTHER      -> mode

\* One callback.  A Jetson1 message without a field makes strtok() return
\* NULL, which strcmp() dereferences, and stoi() throws at a word, which nothing
\* catches: the node dies.
SelCallback ==
  /\ selPc = "calls" /\ selBatch # <<>>
  /\ LET topic == Head(selBatch)[1]
         text  == Head(selBatch)[2]
     IN  /\ mode' = CASE topic = "Jetson1"   -> AfterSensor(text)
                      [] topic = "Dynamixel" -> AfterDynamixel(text)
                      [] topic = "Camera"    -> AfterCamera(text)
         /\ selPc' = IF topic = "Jetson1" /\ text \in {"none", "word"} THEN "down" ELSE selPc
  /\ selBatch' = Tail(selBatch)
  /\ UNCHANGED <<selQ, selT, conn, camVars, manVars, worldVars>>

\* loop_rate.sleep() lasts until the period is over.
SelSleep ==
  /\ selPc = "calls" /\ selBatch = <<>>
  /\ selPc' = "publish"
  /\ UNCHANGED <<mode, selQ, selBatch, selT, conn, camVars, manVars, worldVars>>

-----------------------------------------------------------------------------
(***************************************************************************)
(* The camera.  spinOnce delivers the queued modes and at most one image   *)
(* of each topic (their subscriptions have a queue of one), in any order.  *)
(***************************************************************************)
CamSpinOnce ==
  /\ camPc' = "calls"
  /\ camBatch' = camQ
  /\ camQ' = <<>>
  /\ images' \in SUBSET {"color", "depth"}

\* flag <= 0: nothing measured yet, spinOnce and sleep.
CamSearch ==
  /\ camPc = "top" /\ camT = 0 /\ camFlag <= 0
  /\ camT' = Period
  /\ CamSpinOnce
  /\ UNCHANGED <<recvMode, camFlag, imode, target, measure, nap, selVars, manVars,
                 worldVars>>

ReportedModeKept == recvMode   \* mutant of ReportedMode: recvMode is not reset

\* A report ends the search: the mode is forgotten until the next one comes.
ReportedMode == -1

\* flag > 0: announce 3 or 4, then sleep(3) before the angles.
CamReport ==
  /\ camPc = "top" /\ camT = 0 /\ camFlag > 0
  /\ camT' = Period
  /\ recvMode' = ReportedMode
  /\ camFlag' = -1
  /\ imode' = IF camFlag = 1 THEN 3 ELSE 4
  /\ selQ' = Append(selQ, <<"Camera", IF camFlag = 1 THEN "3" ELSE "4">>)
  /\ camPc' = "angle"
  /\ nap' = CamSleep
  /\ UNCHANGED <<target, measure, camQ, camBatch, images, selPc, mode, selBatch, selT,
                 conn, manVars, worldVars>>

\* Calculate_x or Calculate_y from the measured distance, publish the angles,
\* forget the target and go on to spinOnce.
CamAngle ==
  /\ camPc = "angle" /\ nap = 0
  /\ manQ' = Append(manQ, AngleMsg(<<IF imode = 3 THEN "x" ELSE "y", measure>>))
  /\ target' = NoPose
  /\ CamSpinOnce
  /\ UNCHANGED <<recvMode, camFlag, imode, measure, camT, nap, selVars, manPc, manMode, job,
                 manFlag, angle, manT, worldVars>>

\* ModeCallback keeps whatever mode was published last.
CamModeCallback ==
  /\ camPc = "calls" /\ camBatch # <<>>
  /\ recvMode' = Head(camBatch)
  /\ camBatch' = Tail(camBatch)
  /\ UNCHANGED <<camPc, camFlag, imode, target, measure, camQ, images, camT, nap, selVars,
                 manVars, worldVars>>

LookingAlways == TRUE   \* mutant of Looking: images are used in every mode

\* FindCircle and GetDepth do nothing in any other mode.
Looking == recvMode = 2

\* FindCircle: in mode 2, the circle seen from the present pose, if any.
CamFindCircle ==
  /\ camPc = "calls" /\ "color" \in images
  /\ images' = images \ {"color"}
  /\ target' \in (IF Looking THEN {target, pose} ELSE {target})
  /\ UNCHANGED <<camPc, recvMode, camFlag, imode, measure, camQ, camBatch, camT, nap,
                 selVars, manVars, worldVars>>

\* GetDepth: in mode 2 with a target in the image, the distance, which is
\* right for the present pose only if the target was seen from it.  A depth
\* of zero or a negative root gives NaN, for which flag stays as it is.
CamGetDepth(f) ==
  /\ camPc = "calls" /\ "depth" \in images
  /\ images' = images \ {"depth"}
  /\ IF Looking /\ target # NoPose
     THEN /\ camFlag' = f
          /\ measure' = IF target = pose THEN pose ELSE NoPose
     ELSE /\ f = camFlag
          /\ UNCHANGED <<camFlag, measure>>
  /\ UNCHANGED <<camPc, recvMode, imode, target, camQ, camBatch, camT, nap, selVars,
                 manVars, worldVars>>

\* loop_rate.sleep(), which after a sleep(3) returns at once.
CamSleepRate ==
  /\ camPc = "calls" /\ camBatch = <<>> /\ images = {}
  /\ camPc' = "top"
  /\ UNCHANGED <<recvMode, camFlag, imode, target, measure, camQ, camBatch, images,
                 camT, nap, selVars, manVars, worldVars>>

-----------------------------------------------------------------------------
(***************************************************************************)
(* The manipulator.  loop() runs the branch of its mode, reports, forgets  *)
(* mode, flag and angles and calls spinOnce; with nothing to do it spins.  *)
(***************************************************************************)

\* modeCb and angleCb, called by spinOnce at the end of loop() or inside the
\* loop that waits for angles.
ManCallback ==
  /\ manPc \in {"spin", "wait"} /\ manQ # <<>>
  /\ manQ' = Tail(manQ)
  /\ LET m == Head(manQ)
     IN  IF m.topic = "mode"
         THEN /\ manMode' = IF m.mode \in {1, 3, 4, 6} THEN m.mode ELSE manMode
              /\ UNCHANGED <<manFlag, angle>>
         ELSE /\ angle' = m.angle
              /\ manFlag' = 1
              /\ UNCHANGED manMode
  /\ UNCHANGED <<manPc, job, manT, selVars, camVars, worldVars>>

\* The arm starts to move: in Check_Type, Init_First or Set_Complete_angle.
ManStart ==
  /\ manPc = "spin" /\ manQ = <<>>
  /\ manMode \in {1, 6} \/ (manMode \in {3, 4} /\ manFlag = 1)
  /\ job' = manMode
  /\ manPc' = "move"
  /\ manT' = MinMove(manMode)
  /\ UNCHANGED <<manMode, manFlag, angle, manQ, selVars, camVars, worldVars>>

\* while (!flag): no angles yet.
ManAwait ==
  /\ manPc = "spin" /\ manQ = <<>>
  /\ manMode \in {3, 4} /\ manFlag = 0
  /\ job' = manMode
  /\ manPc' = "wait"
  /\ UNCHANGED <<manMode, manFlag, angle, manQ, manT, selVars, camVars, worldVars>>

\* delay(1000) after the spinOnce of the wait loop.
ManSleep ==
  /\ manPc = "wait" /\ manQ = <<>>
  /\ manPc' = "delay"
  /\ manT' = ManDelay
  /\ UNCHANGED <<manMode, job, manFlag, angle, manQ, selVars, camVars, worldVars>>

\* The test of the wait loop.
ManCheck ==
  /\ manPc = "delay" /\ manT = 0
  /\ manPc' = IF manFlag = 1 THEN "move" ELSE "wait"
  /\ UNCHANGED <<manMode, job, manFlag, angle, manQ, manT, selVars, camVars, worldVars>>

\* The end of the move and of the turn of loop(): publish the answer, then
\* mode = -1, flag = 0 and no angles, whatever came in meanwhile.
ManReset ==
  /\ job' = -1
  /\ manMode' = -1
  /\ manFlag' = 0
  /\ angle' = NoAngle
  /\ manPc' = "spin"

\* Mutant of Answer: Init_First at start-up is answered like that of mode 6.
AnswerAtStart(j) == CASE j \in {1, 3}  -> <<<<"Dynamixel", "2">>>>
                      [] j = 4         -> <<<<"Dynamixel", "5">>>>
                      [] j \in {-2, 6} -> <<<<"Dynamixel", "7">>>>
                      [] OTHER         -> <<>>

\* movingOK, which decides the answer.
Answer(j) == CASE j \in {1, 3} -> <<<<"Dynamixel", "2">>>>
               [] j = 4        -> <<<<"Dynamixel", "5">>>>
               [] j = 6        -> <<<<"Dynamixel", "7">>>>
               [] OTHER        -> <<>>

\* Mutant of PlugAfter: mode 6 without Check_Type.
PlugAfterNoReturn(j) == CASE j = 1                 -> "arm"
                          [] j = 4 /\ plug = "arm" -> "car"
                          [] OTHER                 -> plug

\* Check_Type takes the connector out of its holder, or puts it back before
\* Init_First; Set_Complete_angle_y plugs in what the arm holds.
PlugAfter(j) == CASE j = 1                 -> "arm"
                  [] j = 4 /\ plug = "arm" -> "car"
                  [] j = 6                 -> "holder"
                  [] OTHER                 -> plug

HomingAtStart == {-2}   \* mutant of Homing: mode 6 without Init_First

\* The branches that end with Init_First.
Homing == {-2, 6}

ManFinish ==
  /\ manPc = "move" /\ manT = 0
  /\ plug' = PlugAfter(job)
  /\ home' = (job \in Homing)
  /\ pose' = (pose + 1) % NPose
  /\ selQ' = selQ \o Answer(job)
  /\ ManReset
  /\ UNCHANGED <<manQ, manT, selPc, mode, selBatch, selT, conn, camVars, spot, strays,
                 cuts>>

\* A turn of loop() with no mode clears flag and angles all the same.
ManDiscard ==
  /\ manPc = "spin" /\ manQ = <<>>
  /\ manMode = -1 /\ manFlag = 1
  /\ ManReset
  /\ UNCHANGED <<manQ, manT, selVars, camVars, worldVars>>

-----------------------------------------------------------------------------
(***************************************************************************)
(* The world: a car takes the spot, its charging ends (the 6 or 6L of the  *)
(* SPOT1 the selector is written for), and any Jetson1 message outside     *)
(* that order.                                                             *)
(***************************************************************************)
CarArrives ==
  /\ spot = "empty"
  /\ spot' = "parked"
  /\ selQ' = Append(selQ, <<"Jetson1", "1">>)
  /\ UNCHANGED <<selPc, mode, selBatch, selT, conn, camVars, manVars, plug, home, pose,
                 strays, cuts>>

ChargeDone ==
  /\ spot = "charging"
  /\ spot' = "charged"
  /\ \E text \in {"6", "6L"} : selQ' = Append(selQ, <<"Jetson1", text>>)
  /\ UNCHANGED <<selPc, mode, selBatch, selT, conn, camVars, manVars, plug, home, pose,
                 strays, cuts>>

Stray ==
  /\ Len(strays) < MaxStray
  /\ \E text \in Strays : /\ strays' = Append(strays, text)
                          /\ selQ' = Append(selQ, <<"Jetson1", text>>)
  /\ UNCHANGED <<selPc, mode, selBatch, selT, conn, camVars, manVars, plug, home, pose, spot,
                 cuts>>

-----------------------------------------------------------------------------
\* A second passes when every node sleeps, moves the arm or has nothing to do.
Asleep ==
  /\ \/ selPc = "down"
     \/ selPc = "send" /\ conn > 0
     \/ selPc = "publish" /\ selT > 0
  /\ \/ camPc = "top" /\ camT > 0
     \/ camPc = "angle" /\ nap > 0
  /\ \/ manPc = "move"
     \/ manPc = "delay" /\ manT > 0
     \/ manPc = "spin" /\ manQ = <<>> /\ manMode = -1 /\ manFlag = 0

Less(t) == IF t > 0 THEN t - 1 ELSE t

Tick ==
  /\ Asleep
  /\ selT' = Less(selT) /\ conn' = Less(conn)
  /\ camT' = Less(camT) /\ nap' = Less(nap)
  /\ manT' = Less(manT)
  /\ UNCHANGED <<selPc, mode, selQ, selBatch, camPc, recvMode, camFlag, imode, target,
                 measure, camQ, camBatch, images, manPc, manMode, job, manFlag, angle,
                 manQ, worldVars>>

Selector    == SelPublish \/ SelSend \/ SelSpin \/ SelCallback \/ SelSleep
Camera      == \/ CamSearch \/ CamReport \/ CamAngle
               \/ CamModeCallback \/ CamFindCircle \/ CamSleepRate
               \/ \E f \in {camFlag, 1, 2} : CamGetDepth(f)
Manipulator == \/ ManCallback \/ ManStart \/ ManAwait \/ ManSleep \/ ManCheck
               \/ ManFinish \/ ManDiscard

Next == \/ Selector \/ Camera \/ Manipulator \/ Tick
        \/ CarArrives \/ ChargeDone \/ Stray

\* Every node keeps running, time passes and the arm's moves end.
Fairness == WF_vars(Selector) /\ WF_vars(Camera) /\ WF_vars(Manipulator) /\ WF_vars(Tick)

\* Images keep coming, the port comes into view and is in the end measured as
\* centred.
Sight == /\ SF_vars(CamSearch /\ images' = {"color", "depth"})
         /\ SF_vars(CamFindCircle /\ target' = pose)
         /\ SF_vars(CamGetDepth(2) /\ camFlag' = 2)

Spec      == Init /\ [][Next]_vars
FairSpec  == Spec /\ Fairness

-----------------------------------------------------------------------------
\* The variables keep to their ranges: in particular the selector never holds a
\* mode that is neither a Jetson1 number nor one of its own nor -1, and every queue only holds what its topics carry.
SelType ==
  /\ selPc \in {"publish", "send", "spin", "calls", "down"}
  /\ mode \in Modes \cup {-1}
  /\ selQ \in Seq(SelMsgs) /\ selBatch \in Seq(SelMsgs)
  /\ selT \in 0 .. Period /\ conn \in 0 .. MaxConnect

CamType ==
  /\ camPc \in {"top", "calls", "angle"}
  /\ recvMode \in Modes \cup {-1} /\ camFlag \in {-1, 1, 2} /\ imode \in {-1, 3, 4}
  /\ target \in Poses \cup {NoPose} /\ measure \in Poses \cup {NoPose}
  /\ camQ \in Seq(Modes) /\ camBatch \in Seq(Modes)
  /\ images \subseteq {"color", "depth"}
  /\ camT \in 0 .. Period /\ nap \in 0 .. CamSleep

ManType ==
  /\ manPc \in {"spin", "wait", "delay", "move"}
  /\ manMode \in {-2, -1, 1, 3, 4, 6} /\ job \in {-2, -1, 1, 3, 4, 6}
  /\ manFlag \in {0, 1} /\ angle \in Angles \cup {NoAngle}
  /\ manQ \in Seq(ManMsgs) /\ manT \in 0 .. 7

WorldType ==
  /\ plug \in {"holder", "arm", "car"} /\ home \in BOOLEAN /\ pose \in Poses
  /\ spot \in {"empty", "parked", "charging", "charged"}
  /\ strays \in Seq(Strays) /\ Len(strays) <= MaxStray /\ cuts \in 0 .. MaxCut

TypeOK == SelType /\ CamType /\ ManType /\ WorldType

\* Angles are in hand, about to be published, or in the serial input.
HasAngle(q) == \E i \in 1 .. Len(q) : q[i].topic = "angle"

AnglesComing == manFlag = 1 \/ camPc = "angle" \/ HasAngle(manQ)

\* The Jetson1 message text has been sent outside the cycle.
Heard(text) == \E i \in 1 .. Len(strays) : strays[i] = text

\* While the manipulator sits in while (!flag), the angles it waits for have
\* come, are in its serial input or will be published by the camera: sleep(3)
\* in the camera is long enough for the selector, which needs up to two turns
\* of its loop, to get the mode to the board before the angles, and the wait,
\* which has no timeout, always ends.  The selector takes any positive number
\* from Jetson1 as the mode (Mode_Selector.cpp:100-106), so a stray "3" or "4"
\* makes the manipulator wait for angles nobody measured; nothing else does.
WaitIsServed ==
  manPc \in {"wait", "delay"} => AnglesComing \/ Heard("3") \/ Heard("4")

\* The angles a correction moves by are for the joints it moves (x in mode 3, y
\* in mode 4) and were measured from where the arm still is, with a target seen
\* from there: nothing stale survives in tar_x, tar_y, angle or the queues from
\* one search to the next.
FreshAngles ==
  manPc = "move" /\ job \in {3, 4} => angle = <<IF job = 3 THEN "x" ELSE "y", pose>>

\* The selector has a single mode for three topics, and two callbacks of one
\* spinOnce would lose the first of two events.  In a cycle the nodes take turns
\* so that a callback never finds a mode waiting.
NoOverwrite == selPc = "calls" /\ selBatch # <<>> => mode = -1

\* While SPOT1 charges the car the arm does not move, in whatever order the
\* late messages of the approach are handled.
ArmStillWhileCharging == spot = "charging" => manPc # "move"

\* SPOT1 is told to start charging (5L) only when the connector is in the car,
\* as the selector's comment on mode 5 says.
ChargingPlugged == spot = "charging" => plug = "car"

\* SPOT1 is told to drive the car away (7L) only when the arm has reached its
\* waiting pose and is not moving again.
LeavesHome == [][spot' = "empty" /\ spot # "empty" => home /\ manPc # "move"]_vars

\* Whatever else arrives on the topic Jetson1, and whatever that makes the nodes
\* do out of turn, a car is never driven away with the connector in it, unless a
\* Jetson1 message was itself a "7", which the selector takes as its mode and
\* passes on as 7L without asking the arm (Mode_Selector.cpp:100-106, 177).
LeavesUnplugged ==
  [][spot' = "empty" /\ spot # "empty" => plug # "car" \/ Heard("7")]_vars

\* The three nodes together do what ChargeCycle promises, its liveness included:
\* each step of theirs is one of its steps or changes neither spot nor plug.
Cycle == INSTANCE ChargeCycle WITH spot <- spot, plug <- plug
Implements == Cycle!Spec

\* A parked car is charged in the end, if the camera gets to see the port.
CarServed == Sight => (spot = "parked" ~> spot = "charging")
=============================================================================
