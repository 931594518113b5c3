------------------------- MODULE ChargeControlProofs -------------------------
(***************************************************************************)
(* Theorems about ChargeControl, for every value of its constants.         *)
(***************************************************************************)
EXTENDS ChargeControl, TLAPS

-----------------------------------------------------------------------------
(***************************************************************************)
(* What the messages of the two queues are made of.                        *)
(***************************************************************************)

\* A message to the selector comes from one of the three topics it subscribes
\* to, and its text is one that topic carries.
LEMMA SelMsgParts ==
  ASSUME NEW m \in SelMsgs
  PROVE  /\ m[1] \in {"Jetson1", "Dynamixel", "Camera"}
         /\ m[1] = "Dynamixel" => m[2] \in {"2", "5", "7"}
         /\ m[1] = "Camera" => m[2] \in {"3", "4"}
BY DEF SelMsgs

\* The messages that reach the board: modes 1..8 and pairs of angles.
LEMMA ManMsgParts ==
  /\ \A m \in Modes : ModeMsg(m) \in ManMsgs
  /\ \A a \in Angles : AngleMsg(a) \in ManMsgs
  /\ \A m \in ManMsgs : m.topic = "mode" => m.mode \in Modes
  /\ \A m \in ManMsgs : m.topic # "mode" => m.topic = "angle" /\ m.angle \in Angles
<1>1. \A m \in Modes : ModeMsg(m) \in ManMsgs
  BY DEF ManMsgs
<1>2. \A a \in Angles : AngleMsg(a) \in ManMsgs
  BY DEF ManMsgs
<1>3. \A m : ModeMsg(m).topic = "mode" /\ ModeMsg(m).mode = m
  BY DEF ModeMsg
<1>4. \A a : AngleMsg(a).topic = "angle" /\ AngleMsg(a).angle = a
  BY DEF AngleMsg
<1>5. \A m \in ManMsgs : (\E k \in Modes : m = ModeMsg(k)) \/ (\E a \in Angles : m = AngleMsg(a))
  BY DEF ManMsgs
<1> QED BY <1>1, <1>2, <1>3, <1>4, <1>5

\* Answers of the manipulator are messages to the selector.
LEMMA AnswerParts == \A j : Answer(j) \in Seq(SelMsgs)
<1>1. <<"Dynamixel", "2">> \in SelMsgs BY DEF SelMsgs
<1>2. <<"Dynamixel", "5">> \in SelMsgs BY DEF SelMsgs
<1>3. <<"Dynamixel", "7">> \in SelMsgs BY DEF SelMsgs
<1> QED BY <1>1, <1>2, <1>3 DEF Answer

\* Appending keeps a sequence over S one.
LEMMA Appended == \A S : \A q \in Seq(S), e \in S : Append(q, e) \in Seq(S)
OBVIOUS

\* A step that leaves the variables of a part alone keeps its types.
LEMMA Frame ==
  /\ SelType /\ UNCHANGED selVars => SelType'
  /\ CamType /\ UNCHANGED camVars => CamType'
  /\ ManType /\ UNCHANGED manVars => ManType'
  /\ WorldType /\ UNCHANGED worldVars => WorldType'
<1>1. SelType /\ UNCHANGED selVars => SelType'
  BY DEF SelType, selVars
<1>2. CamType /\ UNCHANGED camVars => CamType'
  BY DEF CamType, camVars
<1>3. ManType /\ UNCHANGED manVars => ManType'
  BY DEF ManType, manVars
<1>4. WorldType /\ UNCHANGED worldVars => WorldType'
  BY DEF WorldType, worldVars
<1> QED BY <1>1, <1>2, <1>3, <1>4

\* Every variable keeps to its range, whatever the constants.
THEOREM TypeCorrect == Spec => []TypeOK
<1>1. Init => TypeOK
  <2> SUFFICES ASSUME Init PROVE TypeOK
    OBVIOUS
  <2>1. MinMove(-2) = 2
    BY DEF MinMove
  <2>2. 0 \in Poses
    BY ConstantsAssumption DEF Poses
  <2>3. \A S : <<>> \in Seq(S)
    OBVIOUS
  <2>4. 0 \in 0 .. Period /\ 0 \in 0 .. MaxConnect /\ 0 \in 0 .. CamSleep /\ 0 \in 0 .. MaxStray /\ 0 \in 0 .. MaxCut
    BY ConstantsAssumption DEF Period, CamSleep
  <2> USE DEF Init
  <2>5. selPc \in {"publish", "send", "spin", "calls", "down"} /\ mode \in Modes \cup {-1}
    OBVIOUS
  <2>6. selQ \in Seq(SelMsgs) /\ selBatch \in Seq(SelMsgs) /\ camQ \in Seq(Modes) /\ camBatch \in Seq(Modes) /\ manQ \in Seq(ManMsgs)
    OBVIOUS
  <2>7. selT \in 0 .. Period /\ conn \in 0 .. MaxConnect /\ camT \in 0 .. Period /\ nap \in 0 .. CamSleep
    BY <2>4
  <2>8. manT \in 0 .. 7
    BY <2>1
  <2>9. strays \in Seq(Strays) /\ Len(strays) <= MaxStray
    BY ConstantsAssumption
  <2> QED BY <2>2, <2>4, <2>5, <2>6, <2>7, <2>8, <2>9 DEF TypeOK, SelType, CamType, ManType, WorldType
<1>2. TypeOK /\ [Next]_vars => TypeOK'
  <2> SUFFICES ASSUME SelType, CamType, ManType, WorldType, [Next]_vars PROVE TypeOK'
    BY DEF TypeOK
  <2>1. CASE SelPublish
    <3>1. mode > 0 => mode \in Modes
      BY DEF Modes, SelType
    <3>2. camQ' \in Seq(Modes)
      <4>1. CASE mode > 0
        <5>1. camQ' = Append(camQ, mode)
          BY <2>1, <4>1 DEF SelPublish
        <5> QED BY <5>1, <3>1, <4>1, Appended DEF CamType
      <4>2. CASE ~(mode > 0)
        BY <2>1, <4>2 DEF SelPublish, CamType
      <4> QED BY <4>1, <4>2
    <3>3. manQ' \in Seq(ManMsgs)
      <4>1. CASE mode > 0
        <5>1. manQ' = Append(manQ, ModeMsg(mode))
          BY <2>1, <4>1 DEF SelPublish
        <5> QED BY <5>1, <3>1, <4>1, Appended, ManMsgParts DEF ManType
      <4>2. CASE ~(mode > 0)
        BY <2>1, <4>2 DEF SelPublish, ManType
      <4> QED BY <4>1, <4>2
    <3>4. SelType'
      BY <2>1, ConstantsAssumption DEF SelPublish, SelType, Period
    <3>5. CamType'
      BY <2>1, <3>2 DEF SelPublish, CamType
    <3>6. ManType'
      BY <2>1, <3>3 DEF SelPublish, ManType
    <3> QED BY <2>1, <3>4, <3>5, <3>6, Frame DEF SelPublish, TypeOK
  <2>2. CASE SelSend
    <3>1. SelType'
      BY <2>2, ConstantsAssumption DEF SelSend, SelType
    <3>2. WorldType'
      BY <2>2, ConstantsAssumption DEF SelSend, WorldType, Told
    <3> QED BY <2>2, <3>1, <3>2, Frame DEF SelSend, TypeOK
  <2>3. CASE SelSpin
    <3>1. SelType'
      BY <2>3 DEF SelSpin, SelType
    <3> QED BY <2>3, <3>1, Frame DEF SelSpin, TypeOK
  <2>4. CASE SelCallback
    <3>1. selBatch \in Seq(SelMsgs) /\ selBatch # <<>>
      BY <2>4 DEF SelCallback, SelType
    <3>2. Head(selBatch) \in SelMsgs /\ Tail(selBatch) \in Seq(SelMsgs)
      BY <3>1
    <3>3. mode' \in Modes \cup {-1}
      <4>1. mode \in Modes \cup {-1}
        BY DEF SelType
      <4>2. \A t : AfterSensor(t) \in Modes \cup {-1}
        BY <4>1 DEF AfterSensor, Number, Modes
      <4>3. \A t : AfterDynamixel(t) \in Modes \cup {-1}
        BY <4>1 DEF AfterDynamixel, Modes
      <4>4. \A t : AfterCamera(t) \in Modes \cup {-1}
        BY <4>1 DEF AfterCamera, Modes
      <4> QED BY <2>4, <3>2, <4>2, <4>3, <4>4, SelMsgParts DEF SelCallback
    <3>4. selPc' \in {"calls", "down"}
      BY <2>4 DEF SelCallback
    <3>5. selBatch' = Tail(selBatch) /\ UNCHANGED <<selQ, selT, conn>>
      BY <2>4 DEF SelCallback
    <3>6. SelType'
      BY <3>2, <3>3, <3>4, <3>5 DEF SelType
    <3> QED BY <2>4, <3>6, Frame DEF SelCallback, TypeOK
  <2>5. CASE SelSleep
    <3>1. SelType'
      BY <2>5 DEF SelSleep, SelType
    <3> QED BY <2>5, <3>1, Frame DEF SelSleep, TypeOK
  <2>6. CASE CamSearch
    <3>1. CamType'
      BY <2>6 DEF CamSearch, CamType, CamSpinOnce, Period
    <3> QED BY <2>6, <3>1, Frame DEF CamSearch, TypeOK
  <2>7. CASE CamReport
    <3>1. \A t \in {"3", "4"} : <<"Camera", t>> \in SelMsgs
      BY DEF SelMsgs
    <3>2. PICK t \in {"3", "4"} : selQ' = Append(selQ, <<"Camera", t>>)
      BY <2>7 DEF CamReport
    <3>3. selQ' \in Seq(SelMsgs)
      BY <3>1, <3>2, Appended DEF SelType
    <3>4. SelType'
      BY <2>7, <3>3 DEF CamReport, SelType
    <3>5. CamType'
      BY <2>7 DEF CamReport, CamType, ReportedMode, CamSleep, Period
    <3> QED BY <2>7, <3>4, <3>5, Frame DEF CamReport, TypeOK
  <2>8. CASE CamAngle
    <3>1. <<IF imode = 3 THEN "x" ELSE "y", measure>> \in Angles
      BY DEF Angles, CamType
    <3>2. manQ' \in Seq(ManMsgs)
      BY <2>8, <3>1, ManMsgParts, Appended DEF CamAngle, ManType
    <3>3. CamType'
      BY <2>8 DEF CamAngle, CamType, CamSpinOnce
    <3>4. ManType'
      BY <2>8, <3>2 DEF CamAngle, ManType
    <3> QED BY <2>8, <3>3, <3>4, Frame DEF CamAngle, TypeOK
  <2>9. CASE CamModeCallback
    <3>1. CamType'
      BY <2>9 DEF CamModeCallback, CamType
    <3> QED BY <2>9, <3>1, Frame DEF CamModeCallback, TypeOK
  <2>10. CASE CamFindCircle
    <3>1. CamType'
      BY <2>10 DEF CamFindCircle, CamType, WorldType
    <3> QED BY <2>10, <3>1, Frame DEF CamFindCircle, TypeOK
  <2>11. CASE \E f \in {camFlag, 1, 2} : CamGetDepth(f)
    <3>1. CamType'
      BY <2>11 DEF CamGetDepth, CamType, WorldType
    <3> QED BY <2>11, <3>1, Frame DEF CamGetDepth, TypeOK
  <2>12. CASE CamSleepRate
    <3>1. CamType'
      BY <2>12 DEF CamSleepRate, CamType
    <3> QED BY <2>12, <3>1, Frame DEF CamSleepRate, TypeOK
  <2>13. CASE ManCallback
    <3>1. manQ \in Seq(ManMsgs) /\ manQ # <<>>
      BY <2>13 DEF ManCallback, ManType
    <3>2. Head(manQ) \in ManMsgs /\ Tail(manQ) \in Seq(ManMsgs)
      BY <3>1
    <3>3. /\ manMode' \in {-2, -1, 1, 3, 4, 6}
          /\ manFlag' \in {0, 1}
          /\ angle' \in Angles \cup {NoAngle}
      BY <2>13, <3>2, ManMsgParts DEF ManCallback, ManType
    <3>4. manQ' = Tail(manQ) /\ UNCHANGED <<manPc, job, manT>>
      BY <2>13 DEF ManCallback
    <3>5. ManType'
      BY <3>2, <3>3, <3>4 DEF ManType
    <3> QED BY <2>13, <3>5, Frame DEF ManCallback, TypeOK
  <2>14. CASE ManStart
    <3>1. ManType'
      BY <2>14 DEF ManStart, ManType, MinMove
    <3> QED BY <2>14, <3>1, Frame DEF ManStart, TypeOK
  <2>15. CASE ManAwait
    <3>1. ManType'
      BY <2>15 DEF ManAwait, ManType
    <3> QED BY <2>15, <3>1, Frame DEF ManAwait, TypeOK
  <2>16. CASE ManSleep
    <3>1. ManType'
      BY <2>16 DEF ManSleep, ManType, ManDelay
    <3> QED BY <2>16, <3>1, Frame DEF ManSleep, TypeOK
  <2>17. CASE ManCheck
    <3>1. ManType'
      BY <2>17 DEF ManCheck, ManType
    <3> QED BY <2>17, <3>1, Frame DEF ManCheck, TypeOK
  <2>18. CASE ManFinish
    <3>1. pose' \in Poses
      BY <2>18, ConstantsAssumption DEF ManFinish, Poses, WorldType
    <3>2. selQ' \in Seq(SelMsgs)
      BY <2>18, AnswerParts DEF ManFinish, SelType
    <3>3. SelType'
      BY <2>18, <3>2 DEF ManFinish, SelType
    <3>4. ManType'
      BY <2>18 DEF ManFinish, ManType, ManReset
    <3>5. WorldType'
      BY <2>18, <3>1 DEF ManFinish, WorldType, PlugAfter
    <3> QED BY <2>18, <3>3, <3>4, <3>5, Frame DEF ManFinish, TypeOK
  <2>19. CASE ManDiscard
    <3>1. ManType'
      BY <2>19 DEF ManDiscard, ManType, ManReset
    <3> QED BY <2>19, <3>1, Frame DEF ManDiscard, TypeOK
  <2>20. CASE Tick
    <3>1. SelType'
      BY <2>20, ConstantsAssumption DEF Tick, SelType, Less, Period
    <3>2. CamType'
      BY <2>20 DEF Tick, CamType, Less, Period, CamSleep
    <3>3. ManType'
      BY <2>20 DEF Tick, ManType, Less
    <3> QED BY <2>20, <3>1, <3>2, <3>3, Frame DEF Tick, TypeOK
  <2>21. CASE CarArrives \/ ChargeDone \/ Stray
    <3>1. \A t \in Fields : <<"Jetson1", t>> \in SelMsgs
      BY DEF SelMsgs
    <3>2. PICK t \in Fields : selQ' = Append(selQ, <<"Jetson1", t>>)
      BY <2>21, ConstantsAssumption DEF CarArrives, ChargeDone, Stray, Fields, Numbers
    <3>3. selQ' \in Seq(SelMsgs)
      BY <3>1, <3>2, Appended DEF SelType
    <3>4. SelType'
      BY <2>21, <3>3 DEF CarArrives, ChargeDone, Stray, SelType
    <3>5. strays' \in Seq(Strays) /\ Len(strays') <= MaxStray
      <4>1. CASE Stray
        <5>1. PICK u \in Strays : strays' = Append(strays, u)
          BY <4>1 DEF Stray
        <5> QED BY <4>1, <5>1, ConstantsAssumption DEF Stray, WorldType
      <4>2. CASE CarArrives \/ ChargeDone
        BY <4>2 DEF CarArrives, ChargeDone, WorldType
      <4> QED BY <2>21, <4>1, <4>2
    <3>6. WorldType'
      BY <2>21, <3>5, ConstantsAssumption DEF CarArrives, ChargeDone, Stray, WorldType
    <3> QED BY <2>21, <3>4, <3>6, Frame DEF CarArrives, ChargeDone, Stray, TypeOK
  <2>22. CASE UNCHANGED vars
    BY <2>22, Frame DEF vars, TypeOK
  <2> QED BY <2>1, <2>2, <2>3, <2>4, <2>5, <2>6, <2>7, <2>8, <2>9, <2>10, <2>11, <2>12,
             <2>13, <2>14, <2>15, <2>16, <2>17, <2>18, <2>19, <2>20, <2>21, <2>22
          DEF Next, Selector, Camera, Manipulator
<1> QED BY <1>1, <1>2, PTL DEF Spec

-----------------------------------------------------------------------------
(***************************************************************************)
(* The queues, seen through what the invariants ask of them.               *)
(***************************************************************************)

\* A report of the camera, and the answer "7", waits in a queue of the selector.
HasCamera(q) == \E i \in 1 .. Len(q) : q[i][1] = "Camera"
HasSeven(q)  == \E i \in 1 .. Len(q) : q[i] = <<"Dynamixel", "7">>

\* A mode that makes the manipulator wait is not followed by angles.
Waits(m) == m.topic = "mode" /\ m.mode \in {3, 4}
Owed(q)  == \E i \in 1 .. Len(q) :
              Waits(q[i]) /\ \A j \in i + 1 .. Len(q) : q[j].topic # "angle"

LEMMA EmptyQueue ==
  ~HasCamera(<<>>) /\ ~HasSeven(<<>>) /\ ~HasAngle(<<>>) /\ ~Owed(<<>>)
BY DEF HasCamera, HasSeven, HasAngle, Owed

\* What a new message adds to a queue of the selector.
LEMMA SelAppend ==
  ASSUME NEW q \in Seq(SelMsgs), NEW m \in SelMsgs
  PROVE  /\ HasCamera(Append(q, m)) => HasCamera(q) \/ m[1] = "Camera"
         /\ HasSeven(Append(q, m)) => HasSeven(q) \/ m = <<"Dynamixel", "7">>
<1>1. \A i \in 1 .. Len(Append(q, m)) :
        (i \in 1 .. Len(q) /\ Append(q, m)[i] = q[i]) \/ Append(q, m)[i] = m
  OBVIOUS
<1>2. HasCamera(Append(q, m)) => HasCamera(q) \/ m[1] = "Camera"
  BY <1>1 DEF HasCamera
<1>3. HasSeven(Append(q, m)) => HasSeven(q) \/ m = <<"Dynamixel", "7">>
  BY <1>1, Zenon DEF HasSeven
<1> QED BY <1>2, <1>3

\* What is left of a queue of the selector after a callback was there before.
LEMMA SelTail ==
  ASSUME NEW q \in Seq(SelMsgs), q # <<>>
  PROVE  /\ HasCamera(Tail(q)) => HasCamera(q)
         /\ Head(q)[1] = "Camera" => HasCamera(q)
         /\ HasSeven(Tail(q)) => HasSeven(q)
         /\ Head(q) = <<"Dynamixel", "7">> => HasSeven(q)
BY DEF HasCamera, HasSeven

\* An answer of the manipulator adds no report, and "7" only after mode 6.
LEMMA SelAnswer ==
  ASSUME NEW q \in Seq(SelMsgs), NEW j
  PROVE  /\ HasCamera(q \o Answer(j)) => HasCamera(q)
         /\ HasSeven(q \o Answer(j)) => HasSeven(q) \/ j = 6
<1>1. <<"Dynamixel", "2">> \in SelMsgs /\ <<"Dynamixel", "5">> \in SelMsgs
      /\ <<"Dynamixel", "7">> \in SelMsgs
  BY DEF SelMsgs
<1>2. Answer(j) = <<>> \/ Answer(j) = <<<<"Dynamixel", "2">>>>
      \/ Answer(j) = <<<<"Dynamixel", "5">>>> \/ (j = 6 /\ Answer(j) = <<<<"Dynamixel", "7">>>>)
  BY DEF Answer
<1>3. CASE Answer(j) = <<>>
  BY <1>3
<1>4. ASSUME NEW t \in {"2", "5", "7"}, Answer(j) = <<<<"Dynamixel", t>>>>, t = "7" => j = 6
      PROVE  /\ HasCamera(q \o Answer(j)) => HasCamera(q)
             /\ HasSeven(q \o Answer(j)) => HasSeven(q) \/ j = 6
  <2>1. <<"Dynamixel", t>> \in SelMsgs
    BY <1>1
  <2>2. q \o Answer(j) = Append(q, <<"Dynamixel", t>>)
    BY <1>4, <2>1
  <2>3. <<"Dynamixel", t>>[1] # "Camera"
    OBVIOUS
  <2>4. <<"Dynamixel", t>> = <<"Dynamixel", "7">> => t = "7"
    OBVIOUS
  <2> QED BY <1>4, <2>1, <2>2, <2>3, <2>4, SelAppend
<1>5. CASE Answer(j) = <<<<"Dynamixel", "2">>>>
  BY <1>4, <1>5
<1>6. CASE Answer(j) = <<<<"Dynamixel", "5">>>>
  BY <1>4, <1>6
<1>7. CASE j = 6 /\ Answer(j) = <<<<"Dynamixel", "7">>>>
  BY <1>4, <1>7
<1> QED BY <1>2, <1>3, <1>5, <1>6, <1>7

\* Publishing a mode or a pair of angles.
LEMMA ManAppendMode ==
  ASSUME NEW q \in Seq(ManMsgs), NEW m \in Modes
  PROVE  /\ Owed(Append(q, ModeMsg(m))) => Owed(q) \/ m \in {3, 4}
         /\ HasAngle(q) => HasAngle(Append(q, ModeMsg(m)))
BY DEF Owed, HasAngle, Waits, ModeMsg

LEMMA ManAppendAngle ==
  ASSUME NEW q \in Seq(ManMsgs), NEW a \in Angles
  PROVE  ~Owed(Append(q, AngleMsg(a))) /\ HasAngle(Append(q, AngleMsg(a)))
BY DEF Owed, HasAngle, Waits, AngleMsg

\* Taking the first message: one that waits leaves its angles in the queue.
LEMMA ManTail ==
  ASSUME NEW q \in Seq(ManMsgs), q # <<>>
  PROVE  /\ Owed(Tail(q)) => Owed(q)
         /\ Waits(Head(q)) => Owed(q) \/ HasAngle(Tail(q))
         /\ HasAngle(q) => HasAngle(Tail(q)) \/ Head(q).topic = "angle"
<1>1. /\ Len(q) \in Nat /\ Len(q) >= 1
      /\ Len(Tail(q)) = Len(q) - 1
      /\ \A i \in 1 .. Len(q) - 1 : Tail(q)[i] = q[i + 1]
      /\ Head(q) = q[1]
  OBVIOUS
<1>2. Owed(Tail(q)) => Owed(q)
  <2> SUFFICES ASSUME NEW i \in 1 .. Len(Tail(q)),
                      Waits(Tail(q)[i]),
                      \A j \in i + 1 .. Len(Tail(q)) : Tail(q)[j].topic # "angle"
               PROVE  Owed(q)
    BY DEF Owed
  <2>1. i + 1 \in 1 .. Len(q) /\ Waits(q[i + 1])
    BY <1>1
  <2>2. \A j \in (i + 1) + 1 .. Len(q) : q[j].topic # "angle"
    <3> TAKE j \in (i + 1) + 1 .. Len(q)
    <3>1. j - 1 \in i + 1 .. Len(Tail(q)) /\ j - 1 \in 1 .. Len(q) - 1 /\ (j - 1) + 1 = j
      BY <1>1
    <3>2. Tail(q)[j - 1] = q[j]
      BY <3>1, <1>1
    <3> QED BY <3>1, <3>2
  <2> QED BY <2>1, <2>2 DEF Owed
<1>3. Waits(Head(q)) => Owed(q) \/ HasAngle(Tail(q))
  <2> SUFFICES ASSUME Waits(Head(q)), ~Owed(q) PROVE HasAngle(Tail(q))
    OBVIOUS
  <2>1. PICK j \in 1 + 1 .. Len(q) : q[j].topic = "angle"
    BY <1>1 DEF Owed
  <2>2. j - 1 \in 1 .. Len(q) - 1 /\ (j - 1) + 1 = j
    BY <1>1
  <2> QED BY <1>1, <2>1, <2>2 DEF HasAngle
<1>4. HasAngle(q) => HasAngle(Tail(q)) \/ Head(q).topic = "angle"
  <2> SUFFICES ASSUME NEW j \in 1 .. Len(q), q[j].topic = "angle", j # 1
               PROVE  HasAngle(Tail(q))
    BY <1>1 DEF HasAngle
  <2>1. j - 1 \in 1 .. Len(q) - 1 /\ (j - 1) + 1 = j
    BY <1>1
  <2> QED BY <1>1, <2>1 DEF HasAngle
<1> QED BY <1>2, <1>3, <1>4

-----------------------------------------------------------------------------
(***************************************************************************)
(* What Jetson1 may set as a mode, and when the callbacks are made.        *)
(***************************************************************************)

\* The first fields Jetson1 has sent, in the cycle or outside it, and a queue
\* that holds no other.
Known == {"1", "6", "6L"} \cup {t \in Fields : Heard(t)}
Sensed(q, known) == \A i \in 1 .. Len(q) : q[i][1] = "Jetson1" => q[i][2] \in known
Sensible == Sensed(selQ, Known) /\ Sensed(selBatch, Known)

\* Outside the callbacks of a spinOnce none is left to make.
BatchTaken == selPc \notin {"calls", "down"} => selBatch = <<>>

\* What has been heard stays heard, and so it stays known.
LEMMA HeardStays ==
  ASSUME TypeOK, [Next]_vars
  PROVE  /\ \A t : Heard(t) => Heard(t)'
         /\ Known \subseteq Known'
<1>1. strays' = strays \/ \E e \in Strays : strays' = Append(strays, e)
  BY DEF Next, Selector, Camera, Manipulator, SelPublish, SelSend, SelSpin, SelCallback,
         SelSleep, CamSearch, CamReport, CamAngle, CamModeCallback, CamFindCircle,
         CamGetDepth, CamSleepRate, ManCallback, ManStart, ManAwait, ManSleep, ManCheck,
         ManFinish, ManDiscard, CarArrives, ChargeDone, Stray, Tick, vars, worldVars
<1>2. ASSUME NEW t, Heard(t) PROVE Heard(t)'
  <2>1. PICK i \in 1 .. Len(strays) : strays[i] = t
    BY <1>2 DEF Heard
  <2>2. strays \in Seq(Strays)
    BY DEF TypeOK, WorldType
  <2>3. i \in 1 .. Len(strays') /\ strays'[i] = t
    BY <1>1, <2>1, <2>2
  <2> QED BY <2>3 DEF Heard
<1> QED BY <1>2 DEF Known

\* What a queue of the selector may become without losing that.
LEMMA SensedQueues ==
  ASSUME NEW q \in Seq(SelMsgs), NEW known, Sensed(q, known)
  PROVE  /\ \A more : known \subseteq more => Sensed(q, more)
         /\ q # <<>> => /\ Sensed(Tail(q), known)
                        /\ Head(q)[1] = "Jetson1" => Head(q)[2] \in known
         /\ \A m \in SelMsgs :
              (m[1] = "Jetson1" => m[2] \in known) => Sensed(Append(q, m), known)
<1>1. \A more : known \subseteq more => Sensed(q, more)
  BY DEF Sensed
<1>2. ASSUME q # <<>>
      PROVE  Sensed(Tail(q), known) /\ (Head(q)[1] = "Jetson1" => Head(q)[2] \in known)
  <2>1. \A i \in 1 .. Len(Tail(q)) : i + 1 \in 1 .. Len(q) /\ Tail(q)[i] = q[i + 1]
    BY <1>2
  <2>2. 1 \in 1 .. Len(q) /\ Head(q) = q[1]
    BY <1>2
  <2> QED BY <2>1, <2>2, Zenon DEF Sensed
<1>3. ASSUME NEW m \in SelMsgs, m[1] = "Jetson1" => m[2] \in known
      PROVE  Sensed(Append(q, m), known)
  <2>1. \A i \in 1 .. Len(Append(q, m)) :
          (i \in 1 .. Len(q) /\ Append(q, m)[i] = q[i]) \/ Append(q, m)[i] = m
    OBVIOUS
  <2> QED BY <1>3, <2>1, Zenon DEF Sensed
<1> QED BY <1>1, <1>2, <1>3

LEMMA SensedEmpty == \A known : Sensed(<<>>, known)
BY DEF Sensed

\* One step keeps the queues sensible.
LEMMA SensibleStep ==
  ASSUME TypeOK, Sensible, [Next]_vars
  PROVE  Sensible'
<1>0. /\ selQ \in Seq(SelMsgs) /\ selBatch \in Seq(SelMsgs)
      /\ Sensed(selQ, Known') /\ Sensed(selBatch, Known')
  BY HeardStays, SensedQueues DEF TypeOK, SelType, Sensible
<1>1. CASE SelSpin
  BY <1>0, <1>1, SensedEmpty DEF SelSpin, Sensible
<1>2. CASE SelCallback
  BY <1>0, <1>2, SensedQueues DEF SelCallback, Sensible
<1>3. ASSUME NEW m \in SelMsgs, selQ' = Append(selQ, m), UNCHANGED selBatch,
             m[1] = "Jetson1" => m[2] \in Known'
      PROVE  Sensible'
  BY <1>0, <1>3, SensedQueues DEF Sensible
<1>4. CASE CamReport
  <2>1. PICK t \in {"3", "4"} : selQ' = Append(selQ, <<"Camera", t>>)
    BY <1>4 DEF CamReport
  <2>2. <<"Camera", t>> \in SelMsgs
    BY DEF SelMsgs
  <2> QED BY <1>3, <1>4, <2>1, <2>2 DEF CamReport
<1>5. CASE ManFinish
  <2>1. CASE Answer(job) = <<>>
    <3>1. selQ' = selQ
      BY <1>0, <1>5, <2>1 DEF ManFinish
    <3> QED BY <1>0, <1>5, <3>1 DEF ManFinish, Sensible
  <2>2. ASSUME NEW t \in {"2", "5", "7"}, Answer(job) = <<<<"Dynamixel", t>>>>
        PROVE  Sensible'
    <3>1. <<"Dynamixel", t>> \in SelMsgs
      BY DEF SelMsgs
    <3>2. selQ' = Append(selQ, <<"Dynamixel", t>>)
      BY <1>0, <1>5, <2>2, <3>1 DEF ManFinish
    <3> QED BY <1>3, <1>5, <3>1, <3>2 DEF ManFinish
  <2> QED BY <2>1, <2>2 DEF Answer
<1>6. ASSUME NEW t \in Fields, selQ' = Append(selQ, <<"Jetson1", t>>), UNCHANGED selBatch,
             t \in Known'
      PROVE  Sensible'
  <2>1. <<"Jetson1", t>> \in SelMsgs
    BY DEF SelMsgs
  <2> QED BY <1>3, <1>6, <2>1
<1>7. CASE CarArrives
  BY <1>6, <1>7 DEF CarArrives, Fields, Known, Numbers
<1>8. CASE ChargeDone
  BY <1>6, <1>8 DEF ChargeDone, Fields, Known, Numbers
<1>9. CASE Stray
  <2>1. PICK t \in Strays : strays' = Append(strays, t) /\ selQ' = Append(selQ, <<"Jetson1", t>>)
    BY <1>9 DEF Stray
  <2>2. strays \in Seq(Strays) /\ t \in Fields
    BY ConstantsAssumption DEF TypeOK, WorldType
  <2>3. Len(strays') \in 1 .. Len(strays') /\ strays'[Len(strays')] = t
    BY <2>1, <2>2
  <2>4. t \in Known'
    BY <2>2, <2>3 DEF Known, Heard
  <2> QED BY <1>6, <1>9, <2>1, <2>2, <2>4 DEF Stray
<1>10. CASE UNCHANGED <<selQ, selBatch>>
  BY <1>0, <1>10 DEF Sensible
<1> QED BY <1>1, <1>2, <1>4, <1>5, <1>7, <1>8, <1>9, <1>10
        DEF Next, Selector, Camera, Manipulator, SelPublish, SelSend, SelSleep, CamSearch,
            CamAngle, CamModeCallback, CamFindCircle, CamGetDepth, CamSleepRate, ManCallback,
            ManStart, ManAwait, ManSleep, ManCheck, ManDiscard, Tick, vars, selVars

\* The callbacks of one spinOnce are all made before the loop goes on.
LEMMA BatchStep == BatchTaken /\ [Next]_vars => BatchTaken'
BY DEF BatchTaken, Next, Selector, Camera, Manipulator, SelPublish, SelSend, SelSpin,
       SelCallback, SelSleep, CamSearch, CamReport, CamAngle, CamModeCallback, CamFindCircle,
       CamGetDepth, CamSleepRate, ManCallback, ManStart, ManAwait, ManSleep, ManCheck,
       ManFinish, ManDiscard, CarArrives, ChargeDone, Stray, Tick, vars, selVars

\* The mode after a Jetson1 message is the one before, that of the cycle or one
\* that was heard.
LEMMA SensorMode ==
  ASSUME NEW t \in Known
  PROVE  /\ AfterSensor(t) = 3 => mode = 3 \/ Heard("3")
         /\ AfterSensor(t) = 4 => mode = 4 \/ Heard("4")
         /\ AfterSensor(t) = 7 => mode = 7 \/ Heard("7")
<1>1. /\ Number(t) = 3 => t = "3"
      /\ Number(t) = 4 => t = "4"
      /\ Number(t) = 7 => t = "7"
  BY DEF Number
<1>2. t \in {"3", "4", "7"} => Heard(t)
  BY DEF Known
<1> QED BY <1>1, <1>2 DEF AfterSensor

-----------------------------------------------------------------------------
(***************************************************************************)
(* The wait for angles.  A message in the selector's queue is published in *)
(* this period if the running spinOnce still takes it, else in the next.   *)
(***************************************************************************)

\* Seconds until what is in selQ, or what was taken from it, is published.
QueueLag == selT + (IF selPc \in {"publish", "calls"} THEN Period ELSE 0)
ModeLag  == IF selPc = "send" THEN 0 ELSE selT

\* Every report of the camera is published before its nap ends, because the nap
\* is longer than a message can stay in the selector.
ReportsInTime ==
  selPc # "down" =>
    /\ HasCamera(selQ) => camPc = "angle" /\ nap > QueueLag
    /\ HasCamera(selBatch) => camPc = "angle" /\ nap > selT
    /\ mode \in {3, 4} => camPc = "angle" /\ nap > selT

\* So angles always follow the mode that waits for them.
AnglesFollow ==
  /\ Owed(manQ) => camPc = "angle"
  /\ manMode \in {3, 4} => AnglesComing
  /\ manPc \in {"wait", "delay"} => AnglesComing

\* Jetson1 has not asked for a correction itself.
Unasked == ~Heard("3") /\ ~Heard("4")

WaitInv == TypeOK /\ Sensible /\ BatchTaken /\ (Unasked => ReportsInTime /\ AnglesFollow)

\* No report waits while connect() blocks the selector: it would be published
\* late, and the nap be over before it is.
Unblocked == selPc = "send" /\ conn > 0 => ~HasCamera(selQ) /\ mode \notin {3, 4}

\* One step keeps the reports in time.
LEMMA ReportsStep ==
  ASSUME TypeOK, Sensible, BatchTaken, Unasked, ReportsInTime, Unblocked, [Next]_vars
  PROVE  ReportsInTime'
<1> USE DEF BatchTaken, ReportsInTime, QueueLag, Period
<1>0. /\ selT \in 0 .. 1 /\ conn \in Nat /\ nap \in 0 .. 3 /\ mode \in -1 .. 8
      /\ selQ \in Seq(SelMsgs) /\ selBatch \in Seq(SelMsgs)
  BY ConstantsAssumption DEF TypeOK, SelType, CamType, CamSleep, Modes
<1>1. CASE SelPublish
  <2>1. /\ selPc = "publish" /\ selT = 0 /\ selT' = 1
        /\ UNCHANGED <<selQ, selBatch, camPc, nap>>
    BY <1>1 DEF SelPublish
  <2>2. (selPc' = "send" /\ mode \in {5, 7} /\ mode' = mode) \/ (selPc' = "spin" /\ mode' = -1)
    BY <1>1 DEF SelPublish
  <2> QED BY <1>0, <2>1, <2>2, EmptyQueue
<1>2. CASE SelSend
  BY <1>0, <1>2 DEF SelSend, camVars
<1>3. CASE SelSpin
  BY <1>0, <1>3, EmptyQueue DEF SelSpin, camVars
<1>4. CASE SelCallback
  <2>1. Head(selBatch) \in SelMsgs
    BY <1>0, <1>4 DEF SelCallback
  <2>2. mode' \in {3, 4} => mode \in {3, 4} \/ Head(selBatch)[1] = "Camera"
    <3>1. Head(selBatch)[1] = "Jetson1" => Head(selBatch)[2] \in Known
      BY <1>0, <1>4, SensedQueues DEF SelCallback, Sensible
    <3>2. Head(selBatch)[1] = "Jetson1" /\ AfterSensor(Head(selBatch)[2]) \in {3, 4}
          => mode \in {3, 4}
      BY <3>1, SensorMode DEF Unasked
    <3>3. \A t : AfterDynamixel(t) \in {3, 4} => mode \in {3, 4}
      BY DEF AfterDynamixel
    <3> QED BY <1>4, <2>1, <3>2, <3>3, SelMsgParts DEF SelCallback
  <2>3. /\ selPc = "calls" /\ selPc' \in {"calls", "down"}
        /\ selBatch' = Tail(selBatch) /\ selBatch # <<>>
        /\ UNCHANGED <<selQ, selT, camPc, nap>>
    BY <1>4 DEF SelCallback, camVars
  <2> QED BY <1>0, <2>2, <2>3, SelTail
<1>5. CASE SelSleep
  BY <1>0, <1>5 DEF SelSleep, camVars
<1>6. CASE CamSearch
  BY <1>0, <1>6 DEF CamSearch, CamSpinOnce, selVars
<1>7. CASE CamReport
  <2>1. /\ camPc' = "angle" /\ nap' = 3
        /\ UNCHANGED <<selPc, mode, selBatch, selT>>
    BY <1>7 DEF CamReport, CamSleep
  <2> QED BY <1>0, <2>1
<1>8. CASE CamAngle
  BY <1>0, <1>8 DEF CamAngle, selVars
<1>9. CASE CamModeCallback
  BY <1>0, <1>9 DEF CamModeCallback, selVars
<1>10. CASE CamFindCircle
  BY <1>0, <1>10 DEF CamFindCircle, selVars
<1>11. CASE \E f \in {camFlag, 1, 2} : CamGetDepth(f)
  BY <1>0, <1>11 DEF CamGetDepth, selVars
<1>12. CASE CamSleepRate
  BY <1>0, <1>12 DEF CamSleepRate, selVars
<1>13. CASE ManCallback \/ ManStart \/ ManAwait \/ ManSleep \/ ManCheck \/ ManDiscard
  BY <1>0, <1>13
  DEF ManCallback, ManStart, ManAwait, ManSleep, ManCheck, ManDiscard, selVars, camVars
<1>14. CASE ManFinish
  <2>1. /\ selQ' = selQ \o Answer(job)
        /\ UNCHANGED <<selPc, mode, selBatch, selT, camPc, nap>>
    BY <1>14 DEF ManFinish, camVars
  <2>2. HasCamera(selQ') => HasCamera(selQ)
    BY <1>0, <2>1, SelAnswer
  <2> QED BY <1>0, <2>1, <2>2
<1>15. CASE Tick
  BY <1>0, <1>15, EmptyQueue DEF Tick, Asleep, Less, Unblocked
<1>16. ASSUME NEW t \in Fields, selQ' = Append(selQ, <<"Jetson1", t>>),
              UNCHANGED <<selPc, mode, selBatch, selT, conn, camVars>>
       PROVE  ReportsInTime'
  <2>1. <<"Jetson1", t>> \in SelMsgs /\ <<"Jetson1", t>>[1] # "Camera"
    BY <1>16 DEF SelMsgs
  <2>2. HasCamera(selQ') => HasCamera(selQ)
    BY <1>0, <1>16, <2>1, SelAppend
  <2> QED BY <1>0, <1>16, <2>2 DEF camVars
<1>17. CASE CarArrives
  BY <1>16, <1>17 DEF CarArrives, Fields, Numbers
<1>18. CASE ChargeDone
  BY <1>16, <1>18 DEF ChargeDone, Fields, Numbers
<1>19. CASE Stray
  BY <1>16, <1>19, ConstantsAssumption DEF Stray
<1>20. CASE UNCHANGED vars
  BY <1>0, <1>20 DEF vars, selVars, camVars
<1> QED BY <1>1, <1>2, <1>3, <1>4, <1>5, <1>6, <1>7, <1>8, <1>9, <1>10, <1>11, <1>12,
           <1>13, <1>14, <1>15, <1>17, <1>18, <1>19, <1>20
        DEF Next, Selector, Camera, Manipulator

\* One step keeps the angles behind the modes.
LEMMA AnglesStep ==
  ASSUME TypeOK, ReportsInTime, AnglesFollow, [Next]_vars
  PROVE  AnglesFollow'
<1> USE DEF AnglesFollow, AnglesComing
<1>0. /\ manQ \in Seq(ManMsgs) /\ mode \in Modes \cup {-1} /\ manFlag \in {0, 1}
      /\ nap \in 0 .. 3
  BY DEF TypeOK, SelType, CamType, ManType, CamSleep
<1>1. CASE SelPublish
  <2>1. UNCHANGED <<camPc, manMode, manPc, manFlag>>
    BY <1>1 DEF SelPublish
  <2>2. CASE mode > 0
    <3>1. mode \in Modes /\ manQ' = Append(manQ, ModeMsg(mode))
      BY <1>0, <1>1, <2>2 DEF SelPublish, Modes
    <3>2. mode \in {3, 4} => camPc = "angle"
      BY <1>1 DEF SelPublish, ReportsInTime
    <3> QED BY <1>0, <2>1, <3>1, <3>2, ManAppendMode
  <2>3. CASE ~(mode > 0)
    BY <1>1, <2>1, <2>3 DEF SelPublish
  <2> QED BY <2>2, <2>3
<1>2. CASE SelSend \/ SelSpin \/ SelCallback \/ SelSleep
  BY <1>2 DEF SelSend, SelSpin, SelCallback, SelSleep, camVars, manVars
<1>3. CASE CamSearch
  BY <1>3 DEF CamSearch, manVars
<1>4. CASE CamReport
  BY <1>4 DEF CamReport, manVars
<1>5. CASE CamAngle
  <2>1. UNCHANGED <<manMode, manPc, manFlag>>
    BY <1>5 DEF CamAngle
  <2>2. <<IF imode = 3 THEN "x" ELSE "y", measure>> \in Angles
    BY DEF TypeOK, CamType, Angles
  <2>3. ~Owed(manQ') /\ HasAngle(manQ')
    BY <1>0, <1>5, <2>2, ManAppendAngle DEF CamAngle
  <2> QED BY <2>1, <2>3
<1>6. CASE CamModeCallback \/ CamFindCircle \/ CamSleepRate
           \/ \E f \in {camFlag, 1, 2} : CamGetDepth(f)
  BY <1>6 DEF CamModeCallback, CamFindCircle, CamSleepRate, CamGetDepth, manVars
<1>7. CASE ManCallback
  <2>1. manQ # <<>> /\ manQ' = Tail(manQ) /\ UNCHANGED <<camPc, manPc>>
    BY <1>7 DEF ManCallback, camVars
  <2>2. Head(manQ) \in ManMsgs
    BY <1>0, <2>1
  <2>3. CASE Head(manQ).topic = "mode"
    <3>1. /\ UNCHANGED manFlag
          /\ manMode' \in {3, 4} => manMode \in {3, 4} \/ Waits(Head(manQ))
      BY <1>7, <2>3 DEF ManCallback, Waits
    <3>2. Head(manQ).topic # "angle"
      BY <2>3
    <3> QED BY <1>0, <2>1, <3>1, <3>2, ManTail
  <2>4. CASE Head(manQ).topic # "mode"
    <3>1. manFlag' = 1 /\ UNCHANGED manMode
      BY <1>7, <2>4 DEF ManCallback
    <3> QED BY <1>0, <2>1, <3>1, ManTail
  <2> QED BY <2>3, <2>4
<1>8. CASE ManStart \/ ManAwait \/ ManSleep \/ ManCheck
  BY <1>8 DEF ManStart, ManAwait, ManSleep, ManCheck, camVars
<1>9. CASE ManFinish \/ ManDiscard
  BY <1>9 DEF ManFinish, ManDiscard, ManReset, camVars
<1>10. CASE Tick
  BY <1>10 DEF Tick
<1>11. CASE CarArrives \/ ChargeDone \/ Stray
  BY <1>11 DEF CarArrives, ChargeDone, Stray, camVars, manVars
<1>12. CASE UNCHANGED vars
  BY <1>12 DEF vars, camVars, manVars
<1> QED BY <1>1, <1>2, <1>3, <1>4, <1>5, <1>6, <1>7, <1>8, <1>9, <1>10, <1>11, <1>12
        DEF Next, Selector, Camera, Manipulator

LEMMA NeverBlocked == MaxConnect = 0 /\ TypeOK => Unblocked
BY DEF TypeOK, SelType, Unblocked

\* If connect() does not block, the manipulator's wait for angles always ends,
\* whatever arrives on the topic Jetson1 except "3" and "4", which the selector
\* would take for reports of the camera, and however many cars there are: the
\* sleep(3) of the camera outlasts the two turns a report spends in the selector
\* (Mode_Selector.cpp:100-106, 163-182; Merge_Step4_Mode_Camera.cpp:274-291).
THEOREM WaitServed == MaxConnect = 0 => (Spec => []WaitIsServed)
<1> SUFFICES ASSUME MaxConnect = 0 PROVE Spec => []WaitIsServed
  OBVIOUS
<1>1. Init => Sensible /\ BatchTaken /\ ReportsInTime /\ AnglesFollow
  BY EmptyQueue, SensedEmpty DEF Init, Sensible, BatchTaken, ReportsInTime, AnglesFollow
<1>2. TypeOK /\ WaitInv /\ [Next]_vars
      => /\ Sensible' /\ BatchTaken'
         /\ Unasked' => ReportsInTime' /\ AnglesFollow'
  <2> SUFFICES ASSUME TypeOK, WaitInv, [Next]_vars
               PROVE  /\ Sensible' /\ BatchTaken'
                      /\ Unasked' => ReportsInTime' /\ AnglesFollow'
    OBVIOUS
  <2>1. Unasked' => Unasked
    BY HeardStays DEF Unasked
  <2> QED BY <2>1, SensibleStep, BatchStep, ReportsStep, AnglesStep, NeverBlocked DEF WaitInv
<1>3. WaitInv => WaitIsServed
  BY DEF WaitInv, Unasked, AnglesFollow, WaitIsServed
<1> QED BY <1>1, <1>2, <1>3, TypeCorrect, PTL DEF Spec, WaitInv

\* For u seconds the connector stays where the arm put it back: it is in its
\* holder, and if the arm is fetching it again that takes longer than u.
Parted(u) == plug = "holder" /\ (manPc = "move" /\ job = 1 => manT > u)

\* From the manipulator's "7" to 7L the connector stays in its holder.
SevenInTime ==
  /\ manPc \in {"wait", "delay"} => job \in {3, 4}
  /\ selPc # "down" =>
       /\ HasSeven(selQ) => Parted(QueueLag)
       /\ HasSeven(selBatch) => Parted(selT)
       /\ mode = 7 => Parted(ModeLag)

LeaveInv == TypeOK /\ Sensible /\ BatchTaken /\ (~Heard("7") => SevenInTime)

\* One step of the nodes keeps the connector parted from the car.
LEMMA SevenStep ==
  ASSUME TypeOK, Sensible, BatchTaken, ~Heard("7"), SevenInTime, MaxConnect = 0, [Next]_vars
  PROVE  SevenInTime'
<1> USE DEF SevenInTime, Parted, QueueLag, ModeLag, Period
<1>0. /\ selT \in 0 .. 1 /\ conn = 0 /\ manT \in 0 .. 7 /\ mode \in -1 .. 8
      /\ selQ \in Seq(SelMsgs) /\ selBatch \in Seq(SelMsgs)
      /\ selPc \notin {"calls", "down"} => selBatch = <<>>
  BY DEF TypeOK, SelType, ManType, Modes, BatchTaken
<1>1. CASE SelPublish
  <2>1. /\ selPc = "publish" /\ selT = 0 /\ selT' = 1
        /\ UNCHANGED <<selQ, selBatch, manPc, job, manT, plug>>
    BY <1>1 DEF SelPublish, worldVars
  <2>2. (selPc' = "send" /\ mode' = mode) \/ (selPc' = "spin" /\ mode' = -1)
    BY <1>1 DEF SelPublish
  <2> QED BY <1>0, <2>1, <2>2, EmptyQueue
<1>2. CASE SelSend
  BY <1>0, <1>2, EmptyQueue DEF SelSend, manVars
<1>3. CASE SelSpin
  BY <1>0, <1>3, EmptyQueue DEF SelSpin, manVars, worldVars
<1>4. CASE SelCallback
  <2>1. Head(selBatch) \in SelMsgs
    BY <1>0, <1>4 DEF SelCallback
  <2>2. mode' = 7 => mode = 7 \/ Head(selBatch) = <<"Dynamixel", "7">>
    <3>0. Head(selBatch)[1] = "Jetson1" => Head(selBatch)[2] \in Known
      BY <1>0, <1>4, SensedQueues DEF SelCallback, Sensible
    <3>1. Head(selBatch)[1] = "Jetson1" /\ AfterSensor(Head(selBatch)[2]) = 7 => mode = 7
      BY <3>0, SensorMode
    <3>2. \A t : AfterDynamixel(t) = 7 => mode = 7 \/ t = "7"
      BY DEF AfterDynamixel
    <3>3. \A t : AfterCamera(t) = 7 => mode = 7
      BY DEF AfterCamera
    <3>4. Head(selBatch)[1] = "Dynamixel" /\ Head(selBatch)[2] = "7"
          => Head(selBatch) = <<"Dynamixel", "7">>
      BY <2>1 DEF SelMsgs
    <3> QED BY <1>4, <2>1, <3>1, <3>2, <3>3, <3>4, SelMsgParts DEF SelCallback
  <2>3. /\ selPc = "calls" /\ selPc' \in {"calls", "down"}
        /\ selBatch' = Tail(selBatch) /\ selBatch # <<>>
        /\ UNCHANGED <<selQ, selT, manPc, job, manT, plug>>
    BY <1>4 DEF SelCallback, manVars, worldVars
  <2> QED BY <1>0, <2>2, <2>3, SelTail
<1>5. CASE SelSleep
  BY <1>0, <1>5 DEF SelSleep, manVars, worldVars
<1>6. CASE CamReport
  <2>1. PICK t \in {"3", "4"} : selQ' = Append(selQ, <<"Camera", t>>)
    BY <1>6 DEF CamReport
  <2>2. <<"Camera", t>> \in SelMsgs /\ <<"Camera", t>> # <<"Dynamixel", "7">>
    BY DEF SelMsgs
  <2>3. HasSeven(selQ') => HasSeven(selQ)
    BY <1>0, <2>1, <2>2, SelAppend
  <2> QED BY <1>0, <1>6, <2>3 DEF CamReport, manVars, worldVars
<1>7. CASE CamSearch \/ CamModeCallback \/ CamFindCircle \/ CamSleepRate
           \/ \E f \in {camFlag, 1, 2} : CamGetDepth(f)
  BY <1>7
  DEF CamSearch, CamModeCallback, CamFindCircle, CamSleepRate, CamGetDepth, selVars,
      manVars, worldVars
<1>8. CASE CamAngle
  BY <1>8 DEF CamAngle, selVars, worldVars
<1>9. CASE ManCallback \/ ManSleep \/ ManDiscard
  BY <1>9 DEF ManCallback, ManSleep, ManDiscard, ManReset, selVars, worldVars
<1>10. CASE ManStart
  <2>1. manT' = MinMove(manMode) /\ job' = manMode /\ UNCHANGED <<selVars, worldVars>>
    BY <1>10 DEF ManStart
  <2>2. manMode = 1 => manT' = 5
    BY <2>1 DEF MinMove
  <2> QED BY <1>0, <1>10, <2>1, <2>2 DEF ManStart, selVars, worldVars
<1>11. CASE ManAwait
  BY <1>11 DEF ManAwait, selVars, worldVars
<1>12. CASE ManCheck
  BY <1>12 DEF ManCheck, selVars, worldVars
<1>13. CASE ManFinish
  <2>1. /\ manPc = "move" /\ manT = 0 /\ manPc' = "spin"
        /\ selQ' = selQ \o Answer(job) /\ plug' = PlugAfter(job)
        /\ UNCHANGED <<selPc, mode, selBatch, selT>>
    BY <1>13 DEF ManFinish, ManReset
  <2>2. HasSeven(selQ') => HasSeven(selQ) \/ job = 6
    BY <1>0, <2>1, SelAnswer
  <2>3. /\ job = 6 => plug' = "holder"
        /\ job # 1 /\ plug = "holder" => plug' = "holder"
    BY <2>1 DEF PlugAfter
  <2> QED BY <1>0, <2>1, <2>2, <2>3
<1>14. CASE Tick
  BY <1>0, <1>14, EmptyQueue DEF Tick, Asleep, Less, worldVars
<1>15. ASSUME NEW t \in Fields, selQ' = Append(selQ, <<"Jetson1", t>>),
              UNCHANGED <<selPc, mode, selBatch, selT, manVars, plug>>
       PROVE  SevenInTime'
  <2>1. <<"Jetson1", t>> \in SelMsgs /\ <<"Jetson1", t>> # <<"Dynamixel", "7">>
    BY <1>15 DEF SelMsgs
  <2>2. HasSeven(selQ') => HasSeven(selQ)
    BY <1>0, <1>15, <2>1, SelAppend
  <2> QED BY <1>0, <1>15, <2>2 DEF manVars
<1>16. CASE CarArrives
  BY <1>15, <1>16 DEF CarArrives, Fields, Numbers
<1>17. CASE ChargeDone
  BY <1>15, <1>17 DEF ChargeDone, Fields, Numbers
<1>18. CASE Stray
  BY <1>15, <1>18, ConstantsAssumption DEF Stray
<1>19. CASE UNCHANGED vars
  BY <1>19 DEF vars, selVars, manVars, worldVars
<1> QED BY <1>1, <1>2, <1>3, <1>4, <1>5, <1>6, <1>7, <1>8, <1>9, <1>10, <1>11, <1>12,
           <1>13, <1>14, <1>15, <1>16, <1>17, <1>18, <1>19
        DEF Next, Selector, Camera, Manipulator

\* If connect() does not block, 7L never has a car driven away with the
\* connector in it, whatever arrives on the topic Jetson1 except "7", which the
\* selector passes on as 7L itself: fetching the connector again takes longer
\* than the manipulator's "7" stays in the selector (Mode_Selector.cpp:100-106,
\* 128-131, 177; Charger_Manipulator.ino:81-98).
THEOREM UnpluggedBeforeLeaving == MaxConnect = 0 => (Spec => LeavesUnplugged)
<1> SUFFICES ASSUME MaxConnect = 0 PROVE Spec => LeavesUnplugged
  OBVIOUS
<1>1. Init => Sensible /\ BatchTaken /\ SevenInTime
  BY EmptyQueue, SensedEmpty DEF Init, Sensible, BatchTaken, SevenInTime
<1>2. TypeOK /\ LeaveInv /\ [Next]_vars
      => Sensible' /\ BatchTaken' /\ (~Heard("7")' => SevenInTime')
  <2> SUFFICES ASSUME TypeOK, LeaveInv, [Next]_vars
               PROVE  Sensible' /\ BatchTaken' /\ (~Heard("7")' => SevenInTime')
    OBVIOUS
  <2>1. ~Heard("7")' => ~Heard("7")
    BY HeardStays
  <2> QED BY <2>1, SensibleStep, BatchStep, SevenStep DEF LeaveInv
<1>3. LeaveInv /\ [Next]_vars
      => [spot' = "empty" /\ spot # "empty" => plug # "car" \/ Heard("7")]_vars
  <2> SUFFICES ASSUME SevenInTime, [Next]_vars, spot' = "empty", spot # "empty"
               PROVE  plug # "car"
    BY DEF LeaveInv
  <2>1. SelSend
    BY DEF Next, Selector, Camera, Manipulator, SelPublish, SelSpin, SelCallback, SelSleep,
           CamSearch, CamReport, CamAngle, CamModeCallback, CamFindCircle, CamGetDepth,
           CamSleepRate, ManCallback, ManStart, ManAwait, ManSleep, ManCheck, ManFinish,
           ManDiscard, CarArrives, ChargeDone, Stray, Tick, vars, worldVars
  <2>2. mode = 7
    BY <2>1 DEF SelSend, Told
  <2> QED BY <2>1, <2>2 DEF SelSend, SevenInTime, Parted
<1> QED BY <1>1, <1>2, <1>3, TypeCorrect, PTL DEF Spec, LeavesUnplugged, LeaveInv
=============================================================================
