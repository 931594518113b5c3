--------------------------- MODULE ChargeCycleProofs ---------------------------
(***************************************************************************)
(* The undisturbed charging cycle implements ChargeCycle: nothing arrives   *)
(* on the topic Jetson1 out of turn and no connection fails.                *)
(*                                                                         *)
(* The three nodes hand one token round.  It is a message on its way        *)
(* through the selector, an order of the manipulator, or the camera's       *)
(* search; whoever does not have it does nothing that counts.  How long     *)
(* connect() blocks does not matter, and how long anything else takes only  *)
(* for the wait of the manipulator.                                         *)
(***************************************************************************)
EXTENDS ChargeControlProofs

Undisturbed == MaxStray = 0 /\ MaxCut = 0

-----------------------------------------------------------------------------
(* The selector has nothing, or carries message m, which makes it publish n. *)

Silent == selQ = <<>> /\ selBatch = <<>> /\ mode = -1
Carries(m, n) ==
  \/ selQ = <<m>> /\ selBatch = <<>> /\ mode = -1
  \/ selQ = <<>> /\ selBatch = <<m>> /\ mode = -1 /\ selPc = "calls"
  \/ selQ = <<>> /\ selBatch = <<>> /\ mode = n /\ (selPc = "send" => n \in {5, 7})

\* The messages of the cycle and the modes they stand for.
Means(m, n) ==
  \/ m = <<"Jetson1", "1">> /\ n = 1
  \/ m = <<"Jetson1", "6">> /\ n = 6
  \/ m = <<"Jetson1", "6L">> /\ n = 6
  \/ m = <<"Dynamixel", "2">> /\ n = 2
  \/ m = <<"Dynamixel", "5">> /\ n = 5
  \/ m = <<"Dynamixel", "7">> /\ n = 7
  \/ m = <<"Camera", "3">> /\ n = 3
  \/ m = <<"Camera", "4">> /\ n = 4

(* The manipulator has no order, or obeys n. *)

Orders == {1, 3, 4, 6}
Order(m) == m.topic = "mode" /\ m.mode \in Orders
Starting == manPc = "move" /\ manMode = -2 /\ job = -2
Resting == manPc = "spin" /\ manMode = -1 /\ job = -1
NoOrder == \A i \in 1 .. Len(manQ) : ~Order(manQ[i])
OneOrder(n) ==
  \E i \in 1 .. Len(manQ) :
    manQ[i] = ModeMsg(n) /\ \A j \in 1 .. Len(manQ) : Order(manQ[j]) => j = i
Idle == NoOrder /\ (Resting \/ Starting)
Rests == NoOrder /\ Resting
Obeys(n) ==
  \/ OneOrder(n) /\ (Resting \/ Starting)
  \/ /\ NoOrder /\ manMode = n
     /\ (manPc = "spin" /\ job = -1) \/ (manPc \in {"wait", "delay", "move"} /\ job = n)

(* The camera does not search, or is about to or does. *)

NoSearch(q) == \A i \in 1 .. Len(q) : q[i] # 2
SearchLast(q) == q # <<>> /\ q[Len(q)] = 2 /\ \A i \in 1 .. Len(q) : q[i] = 2 => i = Len(q)
Blind == NoSearch(camQ) /\ NoSearch(camBatch) /\ recvMode # 2 /\ camFlag = -1
Searches ==
  \/ SearchLast(camQ) /\ NoSearch(camBatch) /\ recvMode # 2 /\ camFlag = -1
  \/ camPc = "calls" /\ SearchLast(camBatch) /\ camQ = <<>> /\ recvMode # 2 /\ camFlag = -1
  \/ recvMode = 2 /\ camQ = <<>> /\ camBatch = <<>>

-----------------------------------------------------------------------------
(* The stages of the cycle. *)

At(s, p) == spot = s /\ plug = p
Empty == At("empty", "holder") /\ Silent /\ Idle /\ Blind
Announced == At("parked", "holder") /\ Carries(<<"Jetson1", "1">>, 1) /\ Idle /\ Blind
Fetching == At("parked", "holder") /\ Silent /\ Obeys(1) /\ Blind
Fetched == At("parked", "arm") /\ Carries(<<"Dynamixel", "2">>, 2) /\ Rests /\ Blind
Searching == At("parked", "arm") /\ Silent /\ Rests /\ Searches
Reported3 == At("parked", "arm") /\ Carries(<<"Camera", "3">>, 3) /\ Rests /\ Blind
Reported4 == At("parked", "arm") /\ Carries(<<"Camera", "4">>, 4) /\ Rests /\ Blind
Correcting == At("parked", "arm") /\ Silent /\ Obeys(3) /\ Blind
Inserting == At("parked", "arm") /\ Silent /\ Obeys(4) /\ Blind
Inserted == At("parked", "car") /\ Carries(<<"Dynamixel", "5">>, 5) /\ Rests /\ Blind
Charging == At("charging", "car") /\ Silent /\ Rests /\ Blind
Stopped6 == At("charged", "car") /\ Carries(<<"Jetson1", "6">>, 6) /\ Rests /\ Blind
Stopped6L == At("charged", "car") /\ Carries(<<"Jetson1", "6L">>, 6) /\ Rests /\ Blind
Returning == At("charged", "car") /\ Silent /\ Obeys(6) /\ Blind
Returned == At("charged", "holder") /\ Carries(<<"Dynamixel", "7">>, 7) /\ Rests /\ Blind /\ home

InCycle ==
  \/ Empty \/ Announced \/ Fetching \/ Fetched \/ Searching \/ Reported3 \/ Reported4
  \/ Correcting \/ Inserting \/ Inserted \/ Charging \/ Stopped6 \/ Stopped6L
  \/ Returning \/ Returned

-----------------------------------------------------------------------------
(* Each node, with and without the token. *)

LEMMA OneMessage == \A m : /\ <<m>> # <<>> /\ Head(<<m>>) = m /\ Tail(<<m>>) = <<>>
                           /\ Append(<<>>, m) = <<m>>
OBVIOUS

\* A selector that has nothing publishes and tells nothing.
LEMMA SilentStep ==
  ASSUME TypeOK, Undisturbed, Silent, Selector
  PROVE  Silent' /\ UNCHANGED <<camVars, manVars, worldVars>>
<1> USE DEF Silent
<1>0. cuts = 0
  BY ConstantsAssumption DEF TypeOK, WorldType, Undisturbed
<1>1. CASE SelPublish
  <2>1. UNCHANGED <<selQ, selBatch, camQ, manQ>> /\ mode' = -1
    BY <1>1 DEF SelPublish
  <2> QED BY <1>1, <2>1 DEF SelPublish, camVars, manVars
<1>2. CASE SelSend
  <2>1. spot' = spot /\ UNCHANGED cuts
    BY <1>0, <1>2 DEF SelSend, Told, Undisturbed
  <2> QED BY <1>2, <2>1 DEF SelSend, worldVars
<1>3. CASE SelSpin
  BY <1>3 DEF SelSpin
<1>4. CASE SelCallback
  BY <1>4 DEF SelCallback
<1>5. CASE SelSleep
  BY <1>5 DEF SelSleep
<1> QED BY <1>1, <1>2, <1>3, <1>4, <1>5 DEF Selector

\* What a message of the cycle makes of no mode.
LEMMA Understood ==
  ASSUME NEW m, NEW n, Means(m, n), mode = -1
  PROVE  /\ m[1] = "Jetson1" => AfterSensor(m[2]) = n /\ m[2] \notin {"none", "word"}
         /\ m[1] = "Dynamixel" => AfterDynamixel(m[2]) = n
         /\ m[1] = "Camera" => AfterCamera(m[2]) = n
         /\ m[1] \in {"Jetson1", "Dynamixel", "Camera"}
         /\ n \in Modes
BY DEF Means, AfterSensor, Number, AfterDynamixel, AfterCamera, Modes

\* The publication of mode n.
Published(n) == camQ' = Append(camQ, n) /\ manQ' = Append(manQ, ModeMsg(n))
OnlyPublished(n) ==
  /\ Published(n)
  /\ UNCHANGED <<camPc, recvMode, camFlag, camBatch, manPc, manMode, job, manFlag, worldVars>>

\* A selector that carries a message keeps it, publishes its mode, which is all
\* for an order, or tells the spot.
LEMMA CarriesStep ==
  ASSUME TypeOK, Undisturbed, NEW m, NEW n, Means(m, n), Carries(m, n), Selector
  PROVE  \/ Carries(m, n)' /\ UNCHANGED <<camVars, manVars, worldVars>>
         \/ n \notin {5, 7} /\ Silent' /\ OnlyPublished(n)
         \/ n \in {5, 7} /\ Carries(m, n)' /\ OnlyPublished(n)
         \/ n \in {5, 7} /\ Silent' /\ spot' = Told(n)
              /\ UNCHANGED <<camVars, manVars, plug, home, pose>>
<1>0. cuts = 0 /\ n \in 1 .. 7
  BY ConstantsAssumption DEF TypeOK, WorldType, Undisturbed, Means
<1>1. CASE SelPublish
  <2>1. selPc = "publish" /\ UNCHANGED <<selQ, selBatch>>
    BY <1>1 DEF SelPublish
  <2>2. CASE mode = -1
    <3>1. selPc' = "spin" /\ mode' = -1 /\ UNCHANGED <<camQ, manQ>>
      BY <1>1, <2>2 DEF SelPublish
    <3>2. selQ = <<m>> /\ selBatch = <<>>
      BY <1>0, <2>1, <2>2 DEF Carries
    <3> QED BY <1>1, <2>1, <3>1, <3>2 DEF SelPublish, Carries, camVars, manVars
  <2>3. CASE mode = n /\ mode # -1
    <3>1. selQ = <<>> /\ selBatch = <<>>
      BY <2>3 DEF Carries
    <3>2. OnlyPublished(n)
      BY <1>0, <1>1, <2>3 DEF SelPublish, OnlyPublished, Published
    <3>3. CASE n \in {5, 7}
      <4>1. mode' = n
        BY <1>1, <2>3, <3>3 DEF SelPublish
      <4> QED BY <2>1, <3>1, <3>2, <3>3, <4>1 DEF Carries
    <3>4. CASE n \notin {5, 7}
      <4>1. mode' = -1
        BY <1>1, <2>3, <3>4 DEF SelPublish
      <4> QED BY <2>1, <3>1, <3>2, <3>4, <4>1 DEF Silent
    <3> QED BY <3>3, <3>4
  <2> QED BY <2>2, <2>3 DEF Carries
<1>2. CASE SelSend
  <2>1. /\ selPc = "send" /\ selPc' = "spin" /\ mode' = -1 /\ spot' = Told(mode) /\ UNCHANGED cuts
        /\ UNCHANGED <<selQ, selBatch, camVars, manVars, plug, home, pose, strays>>
    BY <1>0, <1>2 DEF SelSend, Undisturbed
  <2>2. CASE mode = -1
    <3>1. spot' = spot
      BY <2>1, <2>2 DEF Told
    <3>2. selQ = <<m>> /\ selBatch = <<>>
      BY <1>0, <2>1, <2>2 DEF Carries
    <3> QED BY <2>1, <3>1, <3>2 DEF Carries, worldVars
  <2>3. CASE mode # -1
    <3>1. mode = n /\ n \in {5, 7} /\ selQ = <<>> /\ selBatch = <<>>
      BY <2>1, <2>3 DEF Carries
    <3> QED BY <2>1, <3>1 DEF Silent
  <2> QED BY <2>2, <2>3
<1>3. CASE SelSpin
  <2>1. /\ selPc = "spin" /\ selPc' = "calls" /\ selBatch' = selQ /\ selQ' = <<>> /\ mode' = mode
        /\ UNCHANGED <<camVars, manVars, worldVars>>
    BY <1>3 DEF SelSpin
  <2> QED BY <2>1 DEF Carries
<1>4. CASE SelCallback
  <2>1. selPc = "calls" /\ selBatch # <<>> /\ UNCHANGED <<selQ, camVars, manVars, worldVars>>
    BY <1>4 DEF SelCallback
  <2>2. selQ = <<>> /\ selBatch = <<m>> /\ mode = -1
    BY <2>1 DEF Carries
  <2>3. Head(selBatch) = m /\ Tail(selBatch) = <<>>
    BY <2>2, OneMessage
  <2>4. mode' = n /\ selPc' = "calls" /\ selBatch' = <<>>
    BY <1>4, <2>1, <2>2, <2>3, Understood DEF SelCallback
  <2> QED BY <2>1, <2>2, <2>4 DEF Carries
<1>5. CASE SelSleep
  <2>1. /\ selPc = "calls" /\ selBatch = <<>> /\ selPc' = "publish"
        /\ UNCHANGED <<mode, selQ, selBatch, camVars, manVars, worldVars>>
    BY <1>5 DEF SelSleep
  <2>2. selBatch # <<m>>
    BY <2>1, OneMessage
  <2> QED BY <2>1, <2>2 DEF Carries
<1> QED BY <1>1, <1>2, <1>3, <1>4, <1>5 DEF Selector

-----------------------------------------------------------------------------
\* At most a pair of angles goes to the board.
AnglesAtMost == manQ' = manQ \/ \E a \in Angles : manQ' = Append(manQ, AngleMsg(a))
CamOnly == UNCHANGED <<manPc, manMode, job, worldVars>>

\* The rest of a queue of modes.
LEMMA TailParts ==
  ASSUME NEW q \in Seq(Modes), q # <<>>
  PROVE  /\ Len(q) \in Nat \ {0} /\ Head(q) = q[1] /\ 1 \in 1 .. Len(q) /\ Len(q) \in 1 .. Len(q)
         /\ Tail(q) \in Seq(Modes) /\ Len(Tail(q)) = Len(q) - 1
         /\ (Tail(q) = <<>> <=> Len(q) = 1)
         /\ \A i \in 1 .. Len(Tail(q)) :
              Tail(q)[i] = q[i + 1] /\ i + 1 \in 1 .. Len(q) /\ i + 1 # 1
<1>1. Len(q) \in Nat \ {0} /\ Head(q) = q[1] /\ Len(Tail(q)) = Len(q) - 1 /\ Tail(q) \in Seq(Modes)
  OBVIOUS
<1>2. \A i \in 1 .. Len(Tail(q)) : Tail(q)[i] = q[i + 1]
  OBVIOUS
<1>3. Tail(q) = <<>> <=> Len(q) = 1
  <2>1. \A t \in Seq(Modes) : t = <<>> <=> Len(t) = 0
    OBVIOUS
  <2>2. Len(Tail(q)) = 0 <=> Len(q) = 1
    BY <1>1
  <2> QED BY <1>1, <2>1, <2>2, Zenon
<1>4. \A i \in 1 .. Len(Tail(q)) : i + 1 \in 1 .. Len(q) /\ i + 1 # 1
  BY <1>1
<1>5. 1 \in 1 .. Len(q) /\ Len(q) \in 1 .. Len(q)
  BY <1>1
<1> QED BY <1>1, <1>2, <1>3, <1>4, <1>5

LEMMA SearchParts ==
  /\ NoSearch(<<>>)
  /\ \A q \in Seq(Modes) : ~(NoSearch(q) /\ SearchLast(q))
  /\ \A q \in Seq(Modes) : q # <<>> => (NoSearch(q) => NoSearch(Tail(q)) /\ Head(q) # 2)
  /\ \A q \in Seq(Modes) : q # <<>> =>
       (SearchLast(q) => (Head(q) = 2 /\ Tail(q) = <<>>) \/ (Head(q) # 2 /\ SearchLast(Tail(q))))
  /\ \A q \in Seq(Modes), n \in Modes : NoSearch(q) =>
       (n # 2 => NoSearch(Append(q, n))) /\ (n = 2 => SearchLast(Append(q, n)))
<1>1. NoSearch(<<>>)
  BY DEF NoSearch
<1>2. \A q \in Seq(Modes) : ~(NoSearch(q) /\ SearchLast(q))
  BY DEF NoSearch, SearchLast
<1>3. ASSUME NEW q \in Seq(Modes), q # <<>>, NoSearch(q) PROVE NoSearch(Tail(q)) /\ Head(q) # 2
  <2>1. \A i \in 1 .. Len(Tail(q)) : Tail(q)[i] # 2
    BY <1>3, TailParts, Zenon DEF NoSearch
  <2>2. Head(q) # 2
    BY <1>3, TailParts, Zenon DEF NoSearch
  <2> QED BY <2>1, <2>2, Zenon DEF NoSearch
<1>4. ASSUME NEW q \in Seq(Modes), q # <<>>, SearchLast(q)
      PROVE  (Head(q) = 2 /\ Tail(q) = <<>>) \/ (Head(q) # 2 /\ SearchLast(Tail(q)))
  <2>1. /\ Len(q) \in 1 .. Len(q) /\ 1 \in 1 .. Len(q) /\ Head(q) = q[1]
        /\ Len(q) \in Nat /\ Len(Tail(q)) = Len(q) - 1
        /\ (Tail(q) = <<>> <=> Len(q) = 1)
    BY <1>4, TailParts
  <2>2. CASE Len(q) = 1
    <3>1. Head(q) = 2
      BY <1>4, <2>1, <2>2 DEF SearchLast
    <3> QED BY <2>1, <2>2, <3>1
  <2>3. CASE Len(q) # 1
    <3>1. Head(q) # 2
      BY <1>4, <2>1, <2>3, Zenon DEF SearchLast
    <3>2. Len(Tail(q)) \in 1 .. Len(Tail(q)) /\ Len(Tail(q)) + 1 = Len(q)
      BY <2>1, <2>3
    <3>3. Tail(q)[Len(Tail(q))] = 2
      <4>1. Tail(q)[Len(Tail(q))] = q[Len(Tail(q)) + 1]
        BY <1>4, <3>2, TailParts, Zenon
      <4> QED BY <1>4, <3>2, <4>1, Zenon DEF SearchLast
    <3>4. ASSUME NEW i \in 1 .. Len(Tail(q)), Tail(q)[i] = 2 PROVE i = Len(Tail(q))
      <4>1. i + 1 \in 1 .. Len(q) /\ q[i + 1] = 2
        BY <1>4, <3>4, TailParts, Zenon
      <4>2. i + 1 = Len(q)
        BY <1>4, <4>1, Zenon DEF SearchLast
      <4> QED BY <2>1, <4>2
    <3> QED BY <2>1, <2>3, <3>1, <3>3, <3>4, Zenon DEF SearchLast
  <2> QED BY <2>2, <2>3
<1>5. ASSUME NEW q \in Seq(Modes), NEW n \in Modes, NoSearch(q)
      PROVE  (n # 2 => NoSearch(Append(q, n))) /\ (n = 2 => SearchLast(Append(q, n)))
  <2>1. /\ Len(Append(q, n)) = Len(q) + 1 /\ Append(q, n)[Len(q) + 1] = n
        /\ \A i \in 1 .. Len(q) : Append(q, n)[i] = q[i] /\ q[i] # 2
        /\ Append(q, n) # <<>> /\ Len(q) \in Nat
    BY <1>5 DEF NoSearch
  <2> QED BY <2>1 DEF NoSearch, SearchLast
<1> QED BY <1>1, <1>2, <1>3, <1>4, <1>5

\* A camera that is not asked to search reports nothing.
LEMMA BlindStep ==
  ASSUME TypeOK, Blind, Camera
  PROVE  Blind' /\ AnglesAtMost /\ CamOnly /\ UNCHANGED selVars
<1> USE DEF Blind, CamOnly
<1>0. camQ \in Seq(Modes) /\ camBatch \in Seq(Modes)
  BY DEF TypeOK, CamType
<1>1. CASE CamSearch
  BY <1>1, SearchParts DEF CamSearch, CamSpinOnce, AnglesAtMost, manVars
<1>2. CASE CamReport
  BY <1>2 DEF CamReport
<1>3. CASE CamAngle
  <2>1. <<IF imode = 3 THEN "x" ELSE "y", measure>> \in Angles
    BY DEF TypeOK, CamType, Angles
  <2> QED BY <1>3, <2>1, SearchParts DEF CamAngle, CamSpinOnce, AnglesAtMost
<1>4. CASE CamModeCallback
  BY <1>0, <1>4, SearchParts DEF CamModeCallback, AnglesAtMost, manVars
<1>5. CASE CamFindCircle \/ CamSleepRate
  BY <1>5 DEF CamFindCircle, CamSleepRate, AnglesAtMost, manVars
<1>6. CASE \E f \in {camFlag, 1, 2} : CamGetDepth(f)
  BY <1>6 DEF CamGetDepth, Looking, AnglesAtMost, manVars
<1> QED BY <1>1, <1>2, <1>3, <1>4, <1>5, <1>6 DEF Camera

\* A camera that searches goes on or reports what it has seen.
LEMMA SearchesStep ==
  ASSUME TypeOK, Searches, Camera
  PROVE  /\ AnglesAtMost /\ CamOnly
         /\ \/ Searches' /\ UNCHANGED selVars
            \/ /\ Blind' /\ UNCHANGED <<selBatch, mode, selPc>>
               /\ \E t \in {"3", "4"} : selQ' = Append(selQ, <<"Camera", t>>)
<1> USE DEF CamOnly
<1>0. camQ \in Seq(Modes) /\ camBatch \in Seq(Modes) /\ camFlag \in {-1, 1, 2}
  BY DEF TypeOK, CamType
<1>1. CASE CamSearch
  <2>1. /\ camPc = "top" /\ camPc' = "calls" /\ camBatch' = camQ /\ camQ' = <<>>
        /\ UNCHANGED <<recvMode, camFlag>>
    BY <1>1 DEF CamSearch, CamSpinOnce
  <2>2. Searches'
    BY <2>1 DEF Searches
  <2> QED BY <1>1, <2>2 DEF CamSearch, AnglesAtMost, manVars
<1>2. CASE CamReport
  <2>1. camFlag > 0 /\ camFlag' = -1 /\ recvMode' = -1 /\ UNCHANGED <<camQ, camBatch, selBatch, mode, selPc>>
    BY <1>2 DEF CamReport, ReportedMode
  <2>2. camQ = <<>> /\ camBatch = <<>>
    BY <2>1 DEF Searches
  <2>3. Blind'
    BY <2>1, <2>2, SearchParts DEF Blind
  <2>4. \E t \in {"3", "4"} : selQ' = Append(selQ, <<"Camera", t>>)
    BY <1>2 DEF CamReport
  <2> QED BY <1>2, <2>1, <2>3, <2>4 DEF CamReport, AnglesAtMost, manVars
<1>3. CASE CamAngle
  <2>1. <<IF imode = 3 THEN "x" ELSE "y", measure>> \in Angles
    BY DEF TypeOK, CamType, Angles
  <2>2. /\ camPc = "angle" /\ camPc' = "calls" /\ camBatch' = camQ /\ camQ' = <<>>
        /\ UNCHANGED <<recvMode, camFlag>>
    BY <1>3 DEF CamAngle, CamSpinOnce
  <2>3. Searches'
    BY <2>2 DEF Searches
  <2> QED BY <1>3, <2>1, <2>3 DEF CamAngle, AnglesAtMost
<1>4. CASE CamModeCallback
  <2>1. /\ camPc = "calls" /\ camBatch # <<>> /\ recvMode' = Head(camBatch) /\ camBatch' = Tail(camBatch)
        /\ UNCHANGED <<camPc, camFlag, camQ>>
    BY <1>4 DEF CamModeCallback
  <2>2. CASE SearchLast(camQ) /\ NoSearch(camBatch) /\ recvMode # 2 /\ camFlag = -1
    <3>1. NoSearch(camBatch') /\ recvMode' # 2
      BY <1>0, <2>1, <2>2, SearchParts
    <3> QED BY <1>4, <2>1, <2>2, <3>1 DEF Searches, CamModeCallback, AnglesAtMost, manVars
  <2>3. CASE SearchLast(camBatch) /\ camQ = <<>> /\ recvMode # 2 /\ camFlag = -1
    <3>1. (recvMode' = 2 /\ camBatch' = <<>>) \/ (recvMode' # 2 /\ SearchLast(camBatch'))
      BY <1>0, <2>1, <2>3, SearchParts
    <3> QED BY <1>4, <2>1, <2>3, <3>1 DEF Searches, CamModeCallback, AnglesAtMost, manVars
  <2> QED BY <2>1, <2>2, <2>3 DEF Searches
<1>5. CASE CamFindCircle
  BY <1>5 DEF CamFindCircle, Searches, AnglesAtMost, manVars
<1>6. CASE CamSleepRate
  <2>1. camBatch = <<>> /\ UNCHANGED <<recvMode, camFlag, camQ, camBatch>>
    BY <1>6 DEF CamSleepRate
  <2>2. Searches'
    BY <2>1 DEF Searches, SearchLast
  <2> QED BY <1>6, <2>2 DEF CamSleepRate, AnglesAtMost, manVars
<1>7. CASE \E f \in {camFlag, 1, 2} : CamGetDepth(f)
  <2>1. UNCHANGED <<camPc, recvMode, camQ, camBatch>> /\ (recvMode # 2 => UNCHANGED camFlag)
    BY <1>7 DEF CamGetDepth, Looking
  <2>2. Searches'
    BY <2>1 DEF Searches
  <2> QED BY <1>7, <2>2 DEF CamGetDepth, AnglesAtMost, manVars
<1> QED BY <1>1, <1>2, <1>3, <1>4, <1>5, <1>6, <1>7 DEF Camera

-----------------------------------------------------------------------------
LEMMA OrderParts ==
  /\ \A a : ~Order(AngleMsg(a))
  /\ \A n : Order(ModeMsg(n)) <=> n \in Orders
  /\ \A n : ModeMsg(n).topic = "mode" /\ ModeMsg(n).mode = n
BY DEF Order, AngleMsg, ModeMsg

\* What a new message makes of the orders in a queue.
LEMMA OrderAppended ==
  ASSUME NEW m \in ManMsgs, manQ \in Seq(ManMsgs), manQ' = Append(manQ, m)
  PROVE  /\ NoOrder /\ ~Order(m) => NoOrder'
         /\ \A n : OneOrder(n) /\ ~Order(m) => OneOrder(n)'
         /\ \A n \in Orders : NoOrder /\ m = ModeMsg(n) => OneOrder(n)'
<1>1. /\ Len(manQ') = Len(manQ) + 1 /\ Len(manQ) \in Nat /\ manQ'[Len(manQ) + 1] = m
      /\ \A i \in 1 .. Len(manQ) : manQ'[i] = manQ[i]
  OBVIOUS
<1>2. \A i \in 1 .. Len(manQ') : i \in 1 .. Len(manQ) \/ i = Len(manQ) + 1
  BY <1>1
<1>3. Len(manQ) + 1 \in 1 .. Len(manQ') /\ \A i \in 1 .. Len(manQ) : i \in 1 .. Len(manQ')
  BY <1>1
<1>4. NoOrder /\ ~Order(m) => NoOrder'
  BY <1>1, <1>2, Zenon DEF NoOrder, Order
<1>5. ASSUME NEW n, OneOrder(n), ~Order(m) PROVE OneOrder(n)'
  <2>1. PICK i \in 1 .. Len(manQ) :
          manQ[i] = ModeMsg(n) /\ \A j \in 1 .. Len(manQ) : Order(manQ[j]) => j = i
    BY <1>5 DEF OneOrder
  <2>2. \A j \in 1 .. Len(manQ') : Order(manQ'[j]) => j = i
    BY <1>1, <1>2, <1>5, <2>1, Zenon
  <2>3. i \in 1 .. Len(manQ') /\ manQ'[i] = ModeMsg(n)
    BY <1>1, <1>3, <2>1, Zenon
  <2> QED BY <2>2, <2>3, Zenon DEF OneOrder, Order, ModeMsg
<1>6. ASSUME NEW n \in Orders, NoOrder, m = ModeMsg(n) PROVE OneOrder(n)'
  <2>1. \A j \in 1 .. Len(manQ') : Order(manQ'[j]) => j = Len(manQ) + 1
    BY <1>1, <1>2, <1>6, Zenon DEF NoOrder
  <2> QED BY <1>1, <1>3, <1>6, <2>1, Zenon DEF OneOrder, Order, ModeMsg
<1> QED BY <1>4, <1>5, <1>6

\* What is left when the board takes a message.
LEMMA OrderTaken ==
  ASSUME manQ \in Seq(ManMsgs), manQ # <<>>, manQ' = Tail(manQ)
  PROVE  /\ NoOrder => NoOrder' /\ ~Order(Head(manQ))
         /\ \A n \in Orders : OneOrder(n) =>
              \/ Head(manQ) = ModeMsg(n) /\ NoOrder'
              \/ ~Order(Head(manQ)) /\ OneOrder(n)'
<1>1. /\ Len(manQ) \in Nat \ {0} /\ Len(manQ') = Len(manQ) - 1 /\ Head(manQ) = manQ[1]
      /\ \A i \in 1 .. Len(manQ') : manQ'[i] = manQ[i + 1]
  OBVIOUS
<1>2. \A i \in 1 .. Len(manQ') : i + 1 \in 1 .. Len(manQ) /\ i + 1 # 1
  BY <1>1
<1>3. 1 \in 1 .. Len(manQ)
  BY <1>1
<1>4. NoOrder => NoOrder' /\ ~Order(Head(manQ))
  BY <1>1, <1>2, <1>3, Zenon DEF NoOrder, Order
<1>5. ASSUME NEW n \in Orders, OneOrder(n)
      PROVE  \/ Head(manQ) = ModeMsg(n) /\ NoOrder'
             \/ ~Order(Head(manQ)) /\ OneOrder(n)'
  <2>1. PICK i \in 1 .. Len(manQ) :
          manQ[i] = ModeMsg(n) /\ \A j \in 1 .. Len(manQ) : Order(manQ[j]) => j = i
    BY <1>5 DEF OneOrder
  <2>2. CASE i = 1
    <3>1. \A j \in 1 .. Len(manQ') : ~Order(manQ'[j])
      BY <1>1, <1>2, <2>1, <2>2, Zenon
    <3> QED BY <1>1, <2>1, <2>2, <3>1, Zenon DEF NoOrder, Order
  <2>3. CASE i # 1
    <3>1. ~Order(Head(manQ))
      BY <1>1, <1>3, <2>1, <2>3, Zenon
    <3>2. i - 1 \in 1 .. Len(manQ') /\ (i - 1) + 1 = i
      BY <1>1, <2>3
    <3>3. manQ'[i - 1] = ModeMsg(n)
      BY <1>1, <2>1, <3>2
    <3>4. \A j \in 1 .. Len(manQ') : Order(manQ'[j]) => j = i - 1
      <4> SUFFICES ASSUME NEW j \in 1 .. Len(manQ'), Order(manQ'[j]) PROVE j = i - 1
        OBVIOUS
      <4>1. j + 1 = i
        BY <1>1, <1>2, <2>1, Zenon
      <4> QED BY <3>2, <4>1
    <3> QED BY <3>1, <3>2, <3>3, <3>4, Zenon DEF OneOrder, Order, ModeMsg
  <2> QED BY <2>2, <2>3
<1> QED BY <1>4, <1>5

\* A manipulator without an order moves nothing but itself at start-up.
LEMMA IdleStep ==
  ASSUME TypeOK, Idle, Manipulator
  PROVE  /\ Idle' /\ (Resting => Resting' /\ UNCHANGED home)
         /\ UNCHANGED <<selVars, camVars, plug, spot>>
<1> USE DEF Resting, Starting
<1>0. manQ \in Seq(ManMsgs) /\ selQ \in Seq(SelMsgs)
  BY DEF TypeOK, ManType, SelType
<1>1. CASE ManCallback
  <2>1. /\ manPc = "spin" /\ manQ # <<>> /\ manQ' = Tail(manQ) /\ Resting
        /\ UNCHANGED <<manPc, job, selVars, camVars, worldVars>>
    BY <1>1 DEF ManCallback, Idle
  <2>2. NoOrder' /\ ~Order(Head(manQ))
    BY <1>0, <2>1, OrderTaken DEF Idle
  <2>3. manMode' = manMode
    BY <1>1, <2>2 DEF ManCallback, Order, Orders
  <2> QED BY <2>1, <2>2, <2>3 DEF Idle, worldVars
<1>2. CASE ManStart \/ ManAwait \/ ManSleep \/ ManCheck
  BY <1>2 DEF ManStart, ManAwait, ManSleep, ManCheck, Idle
<1>3. CASE ManFinish
  <2>1. job = -2
    BY <1>3 DEF ManFinish, Idle
  <2>2. Answer(job) = <<>> /\ PlugAfter(job) = plug
    BY <2>1 DEF Answer, PlugAfter
  <2>3. UNCHANGED <<selQ, plug>>
    BY <1>0, <1>3, <2>2 DEF ManFinish
  <2>4. NoOrder'
    BY <1>3 DEF ManFinish, Idle, NoOrder
  <2> QED BY <1>3, <2>1, <2>3, <2>4 DEF ManFinish, ManReset, Idle, selVars
<1>4. CASE ManDiscard
  <2>1. NoOrder'
    BY <1>4 DEF ManDiscard, Idle, NoOrder
  <2> QED BY <1>4, <2>1 DEF ManDiscard, ManReset, Idle, worldVars
<1> QED BY <1>1, <1>2, <1>3, <1>4 DEF Manipulator

\* A manipulator with an order keeps it until it has moved, and answers.
LEMMA ObeysStep ==
  ASSUME TypeOK, NEW n \in Orders, Obeys(n), Manipulator
  PROVE  \/ Obeys(n)' /\ UNCHANGED <<selVars, camVars, plug, spot>>
         \/ /\ Rests' /\ selQ' = selQ \o Answer(n) /\ plug' = PlugAfter(n) /\ home' = (n = 6)
            /\ UNCHANGED <<mode, selPc, selBatch, camVars, spot>>
<1> USE DEF Resting, Starting
<1>0. manQ \in Seq(ManMsgs) /\ selQ \in Seq(SelMsgs) /\ n \in {1, 3, 4, 6}
  BY DEF TypeOK, ManType, SelType, Orders
<1>1. CASE ManCallback
  <2>1. /\ manPc \in {"spin", "wait"} /\ manQ # <<>> /\ manQ' = Tail(manQ)
        /\ UNCHANGED <<manPc, job, selVars, camVars, worldVars>>
    BY <1>1 DEF ManCallback
  <2>2. CASE OneOrder(n) /\ (Resting \/ Starting)
    <3>1. manPc = "spin" /\ manMode = -1 /\ job = -1
      BY <2>1, <2>2
    <3>2. CASE Head(manQ) = ModeMsg(n) /\ NoOrder'
      <4>1. manMode' = n
        BY <1>0, <1>1, <3>2, OrderParts DEF ManCallback
      <4> QED BY <2>1, <3>1, <3>2, <4>1 DEF Obeys, worldVars
    <3>3. CASE ~Order(Head(manQ)) /\ OneOrder(n)'
      <4>1. manMode' = manMode
        BY <1>1, <3>3 DEF ManCallback, Order, Orders
      <4> QED BY <2>1, <3>1, <3>3, <4>1 DEF Obeys, worldVars
    <3> QED BY <1>0, <2>1, <2>2, <3>2, <3>3, OrderTaken
  <2>3. CASE NoOrder /\ manMode = n
    <3>1. NoOrder' /\ ~Order(Head(manQ))
      BY <1>0, <2>1, <2>3, OrderTaken
    <3>2. manMode' = manMode
      BY <1>1, <3>1 DEF ManCallback, Order, Orders
    <3>3. (manPc = "spin" /\ job = -1) \/ (manPc \in {"wait", "delay", "move"} /\ job = n)
      BY <1>0, <2>3 DEF Obeys
    <3> QED BY <2>1, <2>3, <3>1, <3>2, <3>3 DEF Obeys, worldVars
  <2> QED BY <2>2, <2>3 DEF Obeys
<1>2. CASE ManStart \/ ManAwait \/ ManSleep \/ ManCheck
  <2>1. UNCHANGED <<manQ, manMode, selVars, camVars, worldVars>>
    BY <1>2 DEF ManStart, ManAwait, ManSleep, ManCheck
  <2>2. NoOrder /\ manMode = n
    BY <1>0, <1>2 DEF ManStart, ManAwait, ManSleep, ManCheck, Obeys
  <2>3. manPc' \in {"wait", "delay", "move"} /\ job' = n
    BY <1>0, <1>2, <2>2 DEF ManStart, ManAwait, ManSleep, ManCheck, Obeys
  <2>4. NoOrder'
    BY <2>1, <2>2 DEF NoOrder
  <2> QED BY <2>1, <2>2, <2>3, <2>4 DEF Obeys, worldVars
<1>3. CASE ManFinish
  <2>1. /\ manPc = "move" /\ manPc' = "spin" /\ manMode' = -1 /\ job' = -1 /\ manQ' = manQ
        /\ selQ' = selQ \o Answer(job) /\ plug' = PlugAfter(job) /\ home' = (job \in {-2, 6})
        /\ UNCHANGED <<mode, selPc, selBatch, selT, conn, camVars, spot>>
    BY <1>3 DEF ManFinish, ManReset, Homing
  <2>2. CASE OneOrder(n) /\ job = -2
    <3>1. Answer(job) = <<>> /\ PlugAfter(job) = plug
      BY <2>2 DEF Answer, PlugAfter
    <3>2. UNCHANGED <<selQ, plug>>
      BY <1>0, <2>1, <3>1
    <3>3. OneOrder(n)'
      BY <2>1, <2>2 DEF OneOrder
    <3> QED BY <2>1, <3>2, <3>3 DEF Obeys, selVars
  <2>3. CASE NoOrder /\ job = n
    <3>1. NoOrder'
      BY <2>1, <2>3 DEF NoOrder
    <3>2. home' = (n = 6)
      BY <1>0, <2>1, <2>3
    <3> QED BY <2>1, <2>3, <3>1, <3>2 DEF Rests
  <2> QED BY <2>1, <2>2, <2>3 DEF Obeys
<1>4. CASE ManDiscard
  <2>1. /\ manPc = "spin" /\ manMode = -1 /\ manPc' = "spin" /\ manMode' = -1 /\ job' = -1 /\ manQ' = manQ
        /\ UNCHANGED <<selVars, camVars, worldVars>>
    BY <1>4 DEF ManDiscard, ManReset
  <2>2. OneOrder(n)
    BY <1>0, <2>1 DEF Obeys
  <2>3. OneOrder(n)'
    BY <2>1, <2>2 DEF OneOrder
  <2> QED BY <2>1, <2>3 DEF Obeys, worldVars
<1> QED BY <1>1, <1>2, <1>3, <1>4 DEF Manipulator

-----------------------------------------------------------------------------
(* What the others make of a step: nothing, a publication or a pair of angles. *)

SelSame == UNCHANGED <<selPc, mode, selQ, selBatch>>
CamSame == UNCHANGED <<camPc, recvMode, camFlag, camQ, camBatch>>
ManSame == UNCHANGED <<manPc, manMode, job, manQ>>

LEMMA SelKeeps ==
  SelSame => (Silent => Silent') /\ \A m, n : Carries(m, n) => Carries(m, n)'
BY DEF SelSame, Silent, Carries

LEMMA CamKeeps == CamSame => (Blind => Blind') /\ (Searches => Searches')
BY DEF CamSame, Blind, Searches, NoSearch, SearchLast

LEMMA ManKeeps ==
  ManSame => (Idle => Idle') /\ (Rests => Rests') /\ \A n : Obeys(n) => Obeys(n)'
<1> SUFFICES ASSUME ManSame PROVE (Idle => Idle') /\ (Rests => Rests') /\ \A n : Obeys(n) => Obeys(n)'
  OBVIOUS
<1>1. (Resting => Resting') /\ (Starting => Starting') /\ (NoOrder => NoOrder')
  BY DEF ManSame, Resting, Starting, NoOrder
<1>2. \A n : OneOrder(n) => OneOrder(n)'
  BY DEF ManSame, OneOrder
<1>3. \A n : Obeys(n) => Obeys(n)'
  BY <1>1, <1>2 DEF ManSame, Obeys
<1> QED BY <1>1, <1>3 DEF Idle, Rests

LEMMA SameVars ==
  /\ UNCHANGED selVars => SelSame
  /\ UNCHANGED camVars => CamSame
  /\ UNCHANGED manVars => ManSame
  /\ UNCHANGED worldVars => UNCHANGED <<spot, plug, home>>
BY DEF selVars, camVars, manVars, worldVars, SelSame, CamSame, ManSame

\* A pair of angles is no order.
LEMMA AnglesKeep ==
  ASSUME TypeOK, AnglesAtMost, CamOnly
  PROVE  /\ (Idle => Idle') /\ (Rests => Rests') /\ \A n \in Orders : Obeys(n) => Obeys(n)'
         /\ UNCHANGED <<spot, plug, home>>
<1>0. manQ \in Seq(ManMsgs)
  BY DEF TypeOK, ManType
<1>1. UNCHANGED <<manPc, manMode, job, spot, plug, home>>
  BY DEF CamOnly, worldVars
<1>2. CASE manQ' = manQ
  BY <1>1, <1>2, ManKeeps DEF ManSame
<1>3. CASE \E a \in Angles : manQ' = Append(manQ, AngleMsg(a))
  <2>1. PICK a \in Angles : manQ' = Append(manQ, AngleMsg(a))
    BY <1>3
  <2>2. AngleMsg(a) \in ManMsgs
    BY DEF ManMsgs
  <2>3. ~Order(AngleMsg(a))
    BY OrderParts, Zenon
  <2>4. (NoOrder => NoOrder') /\ \A n : OneOrder(n) => OneOrder(n)'
    BY <1>0, <2>1, <2>2, <2>3, OrderAppended, Zenon
  <2>5. (Resting => Resting') /\ (Starting => Starting')
    BY <1>1 DEF Resting, Starting
  <2>6. \A n : Obeys(n) => Obeys(n)'
    BY <1>1, <2>4, <2>5 DEF Obeys
  <2> QED BY <1>1, <2>4, <2>5, <2>6 DEF Idle, Rests
<1> QED BY <1>2, <1>3 DEF AnglesAtMost

\* A published mode is an order for the board, 2 is one for the camera.
LEMMA PublishedReaches ==
  ASSUME TypeOK, NEW n \in Modes, OnlyPublished(n)
  PROVE  /\ n \in Orders /\ Idle => Obeys(n)'
         /\ n \notin Orders /\ Rests => Rests'
         /\ n # 2 /\ Blind => Blind'
         /\ n = 2 /\ Blind => Searches'
         /\ UNCHANGED <<spot, plug, home>>
<1>0. manQ \in Seq(ManMsgs) /\ camQ \in Seq(Modes) /\ ModeMsg(n) \in ManMsgs
  BY DEF TypeOK, ManType, CamType, ManMsgs
<1>1. /\ manQ' = Append(manQ, ModeMsg(n)) /\ camQ' = Append(camQ, n)
      /\ UNCHANGED <<camPc, recvMode, camFlag, camBatch, manPc, manMode, job, spot, plug, home>>
  BY DEF OnlyPublished, Published, worldVars
<1>2. (Resting => Resting') /\ (Starting => Starting')
  BY <1>1 DEF Resting, Starting
<1>3. ASSUME n \in Orders, Idle PROVE Obeys(n)'
  <2>1. OneOrder(n)'
    BY <1>0, <1>1, <1>3, OrderAppended, Zenon DEF Idle
  <2> QED BY <1>2, <1>3, <2>1 DEF Obeys, Idle
<1>4. ASSUME n \notin Orders, Rests PROVE Rests'
  <2>1. ~Order(ModeMsg(n))
    BY <1>4, OrderParts, Zenon
  <2>2. NoOrder'
    BY <1>0, <1>1, <1>4, <2>1, OrderAppended, Zenon DEF Rests
  <2> QED BY <1>2, <1>4, <2>2 DEF Rests
<1>5. Blind => (n # 2 => NoSearch(camQ')) /\ (n = 2 => SearchLast(camQ'))
  BY <1>0, <1>1, SearchParts, Zenon DEF Blind
<1>6. NoSearch(camBatch) => NoSearch(camBatch')
  BY <1>1 DEF NoSearch
<1>7. (n # 2 /\ Blind => Blind') /\ (n = 2 /\ Blind => Searches')
  BY <1>1, <1>5, <1>6 DEF Blind, Searches
<1> QED BY <1>1, <1>3, <1>4, <1>7

-----------------------------------------------------------------------------
(* The cycle goes from stage to stage. *)

Still == UNCHANGED <<spot, plug>>
Moves ==
  /\ Empty      => (Empty' /\ Still) \/ (Announced' /\ Cycle!Arrive)
  /\ Announced  => (Announced' \/ Fetching') /\ Still
  /\ Fetching   => (Fetching' /\ Still) \/ (Fetched' /\ Cycle!Fetch)
  /\ Fetched    => (Fetched' \/ Searching') /\ Still
  /\ Searching  => (Searching' \/ Reported3' \/ Reported4') /\ Still
  /\ Reported3  => (Reported3' \/ Correcting') /\ Still
  /\ Reported4  => (Reported4' \/ Inserting') /\ Still
  /\ Correcting => (Correcting' \/ Fetched') /\ Still
  /\ Inserting  => (Inserting' /\ Still) \/ (Inserted' /\ Cycle!Insert)
  /\ Inserted   => (Inserted' /\ Still) \/ (Charging' /\ Cycle!Start)
  /\ Charging   => (Charging' /\ Still) \/ ((Stopped6' \/ Stopped6L') /\ Cycle!Finish)
  /\ Stopped6   => (Stopped6' \/ Returning') /\ Still
  /\ Stopped6L  => (Stopped6L' \/ Returning') /\ Still
  /\ Returning  => (Returning' /\ Still) \/ (Returned' /\ Cycle!Return)
  /\ Returned   => (Returned' /\ Still) \/ (Empty' /\ Cycle!Leave)

LEMMA Meanings ==
  /\ Means(<<"Jetson1", "1">>, 1) /\ Means(<<"Jetson1", "6">>, 6) /\ Means(<<"Jetson1", "6L">>, 6)
  /\ Means(<<"Dynamixel", "2">>, 2) /\ Means(<<"Dynamixel", "5">>, 5) /\ Means(<<"Dynamixel", "7">>, 7)
  /\ Means(<<"Camera", "3">>, 3) /\ Means(<<"Camera", "4">>, 4)
BY DEF Means

LEMMA RestsAreIdle == Rests => Idle
BY DEF Rests, Idle

\* A selector without the token, and one that hands it on.
LEMMA SelectorInCycle ==
  ASSUME TypeOK, Undisturbed, Selector
  PROVE  Moves
<1>1. ASSUME Silent
      PROVE  /\ (Empty => Empty') /\ (Fetching => Fetching') /\ (Searching => Searching')
             /\ (Correcting => Correcting') /\ (Inserting => Inserting') /\ (Charging => Charging')
             /\ (Returning => Returning') /\ Still
  <2>2. Silent' /\ UNCHANGED <<camVars, manVars, worldVars>>
    BY <1>1, SilentStep
  <2>3. CamSame /\ ManSame /\ UNCHANGED <<spot, plug, home>>
    BY <2>2, SameVars
  <2>4. (Empty => Empty') /\ (Fetching => Fetching') /\ (Searching => Searching')
    BY <2>2, <2>3, CamKeeps, ManKeeps DEF Empty, Fetching, Searching, At
  <2>5. (Correcting => Correcting') /\ (Inserting => Inserting') /\ (Charging => Charging')
    BY <2>2, <2>3, CamKeeps, ManKeeps DEF Correcting, Inserting, Charging, At
  <2>6. Returning => Returning'
    BY <2>2, <2>3, CamKeeps, ManKeeps DEF Returning, At
  <2> QED BY <2>3, <2>4, <2>5, <2>6 DEF Still
<1>2. ASSUME NEW m, NEW n, Means(m, n), Carries(m, n), n \notin {5, 7}
      PROVE  \/ Carries(m, n)' /\ CamSame /\ ManSame /\ UNCHANGED <<spot, plug, home>>
             \/ Silent' /\ OnlyPublished(n)
  <2>1. \/ Carries(m, n)' /\ UNCHANGED <<camVars, manVars, worldVars>>
        \/ Silent' /\ OnlyPublished(n)
    BY <1>2, CarriesStep
  <2> QED BY <2>1, SameVars
<1>3. ASSUME NEW m, NEW n, Means(m, n), Carries(m, n), n \in {5, 7}, Rests, Blind
      PROVE  \/ Carries(m, n)' /\ Rests' /\ Blind' /\ UNCHANGED <<spot, plug, home>>
             \/ Silent' /\ Rests' /\ Blind' /\ spot' = Told(n) /\ UNCHANGED <<plug, home>>
  <2>1. \/ Carries(m, n)' /\ UNCHANGED <<camVars, manVars, worldVars>>
        \/ Carries(m, n)' /\ OnlyPublished(n)
        \/ Silent' /\ spot' = Told(n) /\ UNCHANGED <<camVars, manVars, plug, home>>
    BY <1>3, CarriesStep
  <2>2. n \in Modes /\ n \notin Orders /\ n # 2
    BY <1>3 DEF Modes, Orders
  <2>3. UNCHANGED <<camVars, manVars>> => Rests' /\ Blind'
    BY <1>3, SameVars, CamKeeps, ManKeeps
  <2>4. OnlyPublished(n) => Rests' /\ Blind' /\ UNCHANGED <<spot, plug, home>>
    BY <1>3, <2>2, PublishedReaches
  <2> QED BY <2>1, <2>3, <2>4, SameVars
<1>4. ASSUME Announced PROVE (Announced' \/ Fetching') /\ Still
  <2>1. \/ Carries(<<"Jetson1", "1">>, 1)' /\ CamSame /\ ManSame /\ UNCHANGED <<spot, plug, home>>
        \/ Silent' /\ OnlyPublished(1)
    BY <1>2, <1>4, Meanings DEF Announced
  <2>2. OnlyPublished(1) => Obeys(1)' /\ Blind' /\ UNCHANGED <<spot, plug, home>>
    BY <1>4, PublishedReaches DEF Announced, Modes, Orders
  <2> QED
    BY <1>4, <2>1, <2>2, CamKeeps, ManKeeps DEF Announced, Fetching, At, Still
<1>5. ASSUME Fetched PROVE (Fetched' \/ Searching') /\ Still
  <2>1. \/ Carries(<<"Dynamixel", "2">>, 2)' /\ CamSame /\ ManSame /\ UNCHANGED <<spot, plug, home>>
        \/ Silent' /\ OnlyPublished(2)
    BY <1>2, <1>5, Meanings DEF Fetched
  <2>2. OnlyPublished(2) => Rests' /\ Searches' /\ UNCHANGED <<spot, plug, home>>
    BY <1>5, PublishedReaches DEF Fetched, Modes, Orders
  <2> QED
    BY <1>5, <2>1, <2>2, CamKeeps, ManKeeps DEF Fetched, Searching, At, Still
<1>6. ASSUME Reported3 PROVE (Reported3' \/ Correcting') /\ Still
  <2>1. \/ Carries(<<"Camera", "3">>, 3)' /\ CamSame /\ ManSame /\ UNCHANGED <<spot, plug, home>>
        \/ Silent' /\ OnlyPublished(3)
    BY <1>2, <1>6, Meanings DEF Reported3
  <2>2. OnlyPublished(3) => Obeys(3)' /\ Blind' /\ UNCHANGED <<spot, plug, home>>
    BY <1>6, PublishedReaches, RestsAreIdle DEF Reported3, Modes, Orders
  <2> QED
    BY <1>6, <2>1, <2>2, CamKeeps, ManKeeps DEF Reported3, Correcting, At, Still
<1>7. ASSUME Reported4 PROVE (Reported4' \/ Inserting') /\ Still
  <2>1. \/ Carries(<<"Camera", "4">>, 4)' /\ CamSame /\ ManSame /\ UNCHANGED <<spot, plug, home>>
        \/ Silent' /\ OnlyPublished(4)
    BY <1>2, <1>7, Meanings DEF Reported4
  <2>2. OnlyPublished(4) => Obeys(4)' /\ Blind' /\ UNCHANGED <<spot, plug, home>>
    BY <1>7, PublishedReaches, RestsAreIdle DEF Reported4, Modes, Orders
  <2> QED
    BY <1>7, <2>1, <2>2, CamKeeps, ManKeeps DEF Reported4, Inserting, At, Still
<1>8. ASSUME Inserted PROVE (Inserted' /\ Still) \/ (Charging' /\ Cycle!Start)
  <2>1. \/ Carries(<<"Dynamixel", "5">>, 5)' /\ Rests' /\ Blind' /\ UNCHANGED <<spot, plug, home>>
        \/ Silent' /\ Rests' /\ Blind' /\ spot' = Told(5) /\ UNCHANGED <<plug, home>>
    BY <1>3, <1>8, Meanings DEF Inserted
  <2>2. Told(5) = "charging"
    BY <1>8 DEF Inserted, At, Told
  <2> QED BY <1>8, <2>1, <2>2 DEF Inserted, Charging, At, Cycle!Start, Still
<1>9. ASSUME Stopped6 PROVE (Stopped6' \/ Returning') /\ Still
  <2>1. \/ Carries(<<"Jetson1", "6">>, 6)' /\ CamSame /\ ManSame /\ UNCHANGED <<spot, plug, home>>
        \/ Silent' /\ OnlyPublished(6)
    BY <1>2, <1>9, Meanings DEF Stopped6
  <2>2. OnlyPublished(6) => Obeys(6)' /\ Blind' /\ UNCHANGED <<spot, plug, home>>
    BY <1>9, PublishedReaches, RestsAreIdle DEF Stopped6, Modes, Orders
  <2> QED
    BY <1>9, <2>1, <2>2, CamKeeps, ManKeeps DEF Stopped6, Returning, At, Still
<1>10. ASSUME Stopped6L PROVE (Stopped6L' \/ Returning') /\ Still
  <2>1. \/ Carries(<<"Jetson1", "6L">>, 6)' /\ CamSame /\ ManSame /\ UNCHANGED <<spot, plug, home>>
        \/ Silent' /\ OnlyPublished(6)
    BY <1>2, <1>10, Meanings DEF Stopped6L
  <2>2. OnlyPublished(6) => Obeys(6)' /\ Blind' /\ UNCHANGED <<spot, plug, home>>
    BY <1>10, PublishedReaches, RestsAreIdle DEF Stopped6L, Modes, Orders
  <2> QED
    BY <1>10, <2>1, <2>2, CamKeeps, ManKeeps DEF Stopped6L, Returning, At, Still
<1>11. ASSUME Returned PROVE (Returned' /\ Still) \/ (Empty' /\ Cycle!Leave)
  <2>1. \/ Carries(<<"Dynamixel", "7">>, 7)' /\ Rests' /\ Blind' /\ UNCHANGED <<spot, plug, home>>
        \/ Silent' /\ Rests' /\ Blind' /\ spot' = Told(7) /\ UNCHANGED <<plug, home>>
    BY <1>3, <1>11, Meanings DEF Returned
  <2>2. Told(7) = "empty"
    BY DEF Told
  <2>3. Rests' => Idle'
    BY RestsAreIdle, PTL
  <2> QED BY <1>11, <2>1, <2>2, <2>3 DEF Returned, Empty, At, Cycle!Leave, Still
<1>12. Empty \/ Fetching \/ Searching \/ Correcting \/ Inserting \/ Charging \/ Returning => Silent
  BY DEF Empty, Fetching, Searching, Correcting, Inserting, Charging, Returning
<1> QED BY <1>1, <1>4, <1>5, <1>6, <1>7, <1>8, <1>9, <1>10, <1>11, <1>12, Zenon DEF Moves

\* A camera that searches reports in the end, any other one does nothing.
LEMMA CameraInCycle ==
  ASSUME TypeOK, Camera
  PROVE  Moves
<1>1. ASSUME Blind
      PROVE  /\ (Empty => Empty') /\ (Announced => Announced') /\ (Fetching => Fetching')
             /\ (Fetched => Fetched') /\ (Reported3 => Reported3') /\ (Reported4 => Reported4')
             /\ (Correcting => Correcting') /\ (Inserting => Inserting') /\ (Inserted => Inserted')
             /\ (Charging => Charging') /\ (Stopped6 => Stopped6') /\ (Stopped6L => Stopped6L')
             /\ (Returning => Returning') /\ (Returned => Returned') /\ Still
  <2>1. Blind' /\ SelSame /\ UNCHANGED <<spot, plug, home>>
    BY <1>1, BlindStep, AnglesKeep, SameVars
  <2>2. (Idle => Idle') /\ (Rests => Rests') /\ \A n \in Orders : Obeys(n) => Obeys(n)'
    BY <1>1, BlindStep, AnglesKeep
  <2>3. 1 \in Orders /\ 3 \in Orders /\ 4 \in Orders /\ 6 \in Orders
    BY DEF Orders
  <2>4. (Empty => Empty') /\ (Announced => Announced') /\ (Fetching => Fetching') /\ (Fetched => Fetched')
    BY <2>1, <2>2, <2>3, SelKeeps DEF Empty, Announced, Fetching, Fetched, At
  <2>5. (Reported3 => Reported3') /\ (Reported4 => Reported4') /\ (Correcting => Correcting')
    BY <2>1, <2>2, <2>3, SelKeeps DEF Reported3, Reported4, Correcting, At
  <2>6. (Inserting => Inserting') /\ (Inserted => Inserted') /\ (Charging => Charging')
    BY <2>1, <2>2, <2>3, SelKeeps DEF Inserting, Inserted, Charging, At
  <2>7. (Stopped6 => Stopped6') /\ (Stopped6L => Stopped6L') /\ (Returning => Returning')
    BY <2>1, <2>2, <2>3, SelKeeps DEF Stopped6, Stopped6L, Returning, At
  <2>8. Returned => Returned'
    BY <2>1, <2>2, SelKeeps DEF Returned, At
  <2> QED BY <2>1, <2>4, <2>5, <2>6, <2>7, <2>8 DEF Still
<1>2. ASSUME Searching PROVE (Searching' \/ Reported3' \/ Reported4') /\ Still
  <2>1. Rests' /\ UNCHANGED <<spot, plug>>
    BY <1>2, SearchesStep, AnglesKeep DEF Searching
  <2>2. CASE Searches' /\ UNCHANGED selVars
    BY <1>2, <2>1, <2>2, SameVars, SelKeeps DEF Searching, At, Still
  <2>3. CASE /\ Blind' /\ UNCHANGED <<selBatch, mode, selPc>>
             /\ \E t \in {"3", "4"} : selQ' = Append(selQ, <<"Camera", t>>)
    <3>1. selQ' = <<<<"Camera", "3">>>> \/ selQ' = <<<<"Camera", "4">>>>
      BY <1>2, <2>3, OneMessage DEF Searching, Silent
    <3>2. Carries(<<"Camera", "3">>, 3)' \/ Carries(<<"Camera", "4">>, 4)'
      BY <1>2, <2>3, <3>1 DEF Searching, Silent, Carries
    <3>3. Reported3' \/ Reported4'
      BY <1>2, <2>1, <2>3, <3>2 DEF Searching, Reported3, Reported4, At
    <3> QED BY <2>1, <3>3 DEF Still
  <2> QED BY <1>2, <2>2, <2>3, SearchesStep DEF Searching
<1>3. \/ Empty \/ Announced \/ Fetching \/ Fetched \/ Reported3 \/ Reported4 \/ Correcting \/ Inserting
      \/ Inserted \/ Charging \/ Stopped6 \/ Stopped6L \/ Returning \/ Returned
      => Blind
  BY DEF Empty, Announced, Fetching, Fetched, Reported3, Reported4, Correcting, Inserting,
         Inserted, Charging, Stopped6, Stopped6L, Returning, Returned
<1> QED BY <1>1, <1>2, <1>3 DEF Moves

\* The message a manipulator that has obeyed n gives the silent selector.
LEMMA Answered ==
  ASSUME NEW n \in Orders, Silent, selQ' = selQ \o Answer(n), UNCHANGED <<mode, selPc, selBatch>>
  PROVE  /\ n \in {1, 3} => Carries(<<"Dynamixel", "2">>, 2)'
         /\ n = 4 => Carries(<<"Dynamixel", "5">>, 5)'
         /\ n = 6 => Carries(<<"Dynamixel", "7">>, 7)'
<1>1. \A q : <<>> \o <<q>> = <<q>>
  OBVIOUS
<1>2. selQ = <<>> /\ selBatch = <<>> /\ mode = -1
  BY DEF Silent
<1>3. ASSUME NEW m, Answer(n) = <<m>> PROVE selQ' = <<m>>
  BY <1>1, <1>2, <1>3
<1>4. n \in {1, 3} => selQ' = <<<<"Dynamixel", "2">>>>
  BY <1>3 DEF Answer
<1>5. n = 4 => selQ' = <<<<"Dynamixel", "5">>>>
  BY <1>3 DEF Answer
<1>6. n = 6 => selQ' = <<<<"Dynamixel", "7">>>>
  BY <1>3 DEF Answer
<1> QED BY <1>2, <1>4, <1>5, <1>6 DEF Carries

\* A manipulator with the token moves the connector and hands the token on.
LEMMA ManipulatorInCycle ==
  ASSUME TypeOK, Manipulator
  PROVE  Moves
<1>1. ASSUME Idle
      PROVE  /\ (Empty => Empty') /\ (Announced => Announced') /\ (Fetched => Fetched')
             /\ (Searching => Searching') /\ (Reported3 => Reported3') /\ (Reported4 => Reported4')
             /\ (Inserted => Inserted') /\ (Charging => Charging') /\ (Stopped6 => Stopped6')
             /\ (Stopped6L => Stopped6L') /\ (Returned => Returned') /\ Still
  <2>1. Idle' /\ (Rests => Rests' /\ UNCHANGED home) /\ SelSame /\ CamSame /\ UNCHANGED <<plug, spot>>
    BY <1>1, IdleStep, SameVars DEF Idle, Rests
  <2>2. (Empty => Empty') /\ (Announced => Announced') /\ (Fetched => Fetched') /\ (Searching => Searching')
    BY <2>1, SelKeeps, CamKeeps DEF Empty, Announced, Fetched, Searching, At
  <2>3. (Reported3 => Reported3') /\ (Reported4 => Reported4') /\ (Inserted => Inserted')
    BY <2>1, SelKeeps, CamKeeps DEF Reported3, Reported4, Inserted, At
  <2>4. (Charging => Charging') /\ (Stopped6 => Stopped6') /\ (Stopped6L => Stopped6L')
    BY <2>1, SelKeeps, CamKeeps DEF Charging, Stopped6, Stopped6L, At
  <2>5. Returned => Returned'
    BY <2>1, SelKeeps, CamKeeps DEF Returned, At
  <2> QED BY <2>1, <2>2, <2>3, <2>4, <2>5 DEF Still
<1>2. ASSUME NEW n \in Orders, Obeys(n), Silent, Blind
      PROVE  \/ Obeys(n)' /\ Silent' /\ Blind' /\ UNCHANGED <<plug, spot>>
             \/ /\ Rests' /\ Blind' /\ plug' = PlugAfter(n) /\ home' = (n = 6) /\ UNCHANGED spot
                /\ n \in {1, 3} => Carries(<<"Dynamixel", "2">>, 2)'
                /\ n = 4 => Carries(<<"Dynamixel", "5">>, 5)'
                /\ n = 6 => Carries(<<"Dynamixel", "7">>, 7)'
  <2>1. \/ Obeys(n)' /\ UNCHANGED <<selVars, camVars, plug, spot>>
        \/ /\ Rests' /\ selQ' = selQ \o Answer(n) /\ plug' = PlugAfter(n) /\ home' = (n = 6)
           /\ UNCHANGED <<mode, selPc, selBatch, camVars, spot>>
    BY <1>2, ObeysStep
  <2>2. CASE Obeys(n)' /\ UNCHANGED <<selVars, camVars, plug, spot>>
    BY <1>2, <2>2, SameVars, SelKeeps, CamKeeps
  <2>3. CASE /\ Rests' /\ selQ' = selQ \o Answer(n) /\ plug' = PlugAfter(n) /\ home' = (n = 6)
             /\ UNCHANGED <<mode, selPc, selBatch, camVars, spot>>
    BY <1>2, <2>3, SameVars, CamKeeps, Answered
  <2> QED BY <2>1, <2>2, <2>3
<1>3. 1 \in Orders /\ 3 \in Orders /\ 4 \in Orders /\ 6 \in Orders
  BY DEF Orders
<1>4. ASSUME Fetching PROVE (Fetching' /\ Still) \/ (Fetched' /\ Cycle!Fetch)
  <2>1. \/ Obeys(1)' /\ Silent' /\ Blind' /\ UNCHANGED <<plug, spot>>
        \/ Rests' /\ Blind' /\ plug' = "arm" /\ UNCHANGED spot /\ Carries(<<"Dynamixel", "2">>, 2)'
    BY <1>2, <1>3, <1>4 DEF Fetching, PlugAfter
  <2> QED BY <1>4, <2>1 DEF Fetching, Fetched, At, Cycle!Fetch, Still
<1>5. ASSUME Correcting PROVE (Correcting' \/ Fetched') /\ Still
  <2>1. \/ Obeys(3)' /\ Silent' /\ Blind' /\ UNCHANGED <<plug, spot>>
        \/ Rests' /\ Blind' /\ UNCHANGED <<plug, spot>> /\ Carries(<<"Dynamixel", "2">>, 2)'
    BY <1>2, <1>3, <1>5 DEF Correcting, PlugAfter
  <2> QED BY <1>5, <2>1 DEF Correcting, Fetched, At, Still
<1>6. ASSUME Inserting PROVE (Inserting' /\ Still) \/ (Inserted' /\ Cycle!Insert)
  <2>1. \/ Obeys(4)' /\ Silent' /\ Blind' /\ UNCHANGED <<plug, spot>>
        \/ Rests' /\ Blind' /\ plug' = "car" /\ UNCHANGED spot /\ Carries(<<"Dynamixel", "5">>, 5)'
    BY <1>2, <1>3, <1>6 DEF Inserting, PlugAfter, At
  <2> QED BY <1>6, <2>1 DEF Inserting, Inserted, At, Cycle!Insert, Still
<1>7. ASSUME Returning PROVE (Returning' /\ Still) \/ (Returned' /\ Cycle!Return)
  <2>0. PlugAfter(6) = "holder"
    BY DEF PlugAfter
  <2>1. \/ Obeys(6)' /\ Silent' /\ Blind' /\ UNCHANGED <<plug, spot>>
        \/ Rests' /\ Blind' /\ plug' = "holder" /\ home' /\ UNCHANGED spot /\ Carries(<<"Dynamixel", "7">>, 7)'
    <3>1. Obeys(6) /\ Silent /\ Blind
      BY <1>7 DEF Returning
    <3>2. home' = (6 = 6) => home'
      OBVIOUS
    <3> QED BY <1>2, <1>3, <2>0, <3>1, <3>2, Zenon
  <2> QED BY <1>7, <2>1 DEF Returning, Returned, At, Cycle!Return, Still
<1>8. \/ Empty \/ Announced \/ Fetched \/ Searching \/ Reported3 \/ Reported4 \/ Inserted
      \/ Charging \/ Stopped6 \/ Stopped6L \/ Returned
      => Idle
  BY RestsAreIdle DEF Empty, Announced, Fetched, Searching, Reported3, Reported4, Inserted,
                      Charging, Stopped6, Stopped6L, Returned
<1> QED BY <1>1, <1>4, <1>5, <1>6, <1>7, <1>8, Zenon DEF Moves

\* Time changes nothing of the cycle.
LEMMA NothingInCycle ==
  ASSUME SelSame, CamSame, ManSame, UNCHANGED <<spot, plug, home>>
  PROVE  Moves
<1>1. (Empty => Empty') /\ (Announced => Announced') /\ (Fetching => Fetching') /\ (Fetched => Fetched')
  BY SelKeeps, CamKeeps, ManKeeps DEF Empty, Announced, Fetching, Fetched, At
<1>2. (Searching => Searching') /\ (Reported3 => Reported3') /\ (Reported4 => Reported4')
  BY SelKeeps, CamKeeps, ManKeeps DEF Searching, Reported3, Reported4, At
<1>3. (Correcting => Correcting') /\ (Inserting => Inserting') /\ (Inserted => Inserted')
  BY SelKeeps, CamKeeps, ManKeeps DEF Correcting, Inserting, Inserted, At
<1>4. (Charging => Charging') /\ (Stopped6 => Stopped6') /\ (Stopped6L => Stopped6L')
  BY SelKeeps, CamKeeps, ManKeeps DEF Charging, Stopped6, Stopped6L, At
<1>5. (Returning => Returning') /\ (Returned => Returned') /\ Still
  BY SelKeeps, CamKeeps, ManKeeps DEF Returning, Returned, At, Still
<1> QED BY <1>1, <1>2, <1>3, <1>4, <1>5 DEF Moves

\* A car takes an empty spot, and its charging ends.
LEMMA WorldInCycle ==
  ASSUME CarArrives \/ ChargeDone
  PROVE  Moves
<1>1. ASSUME CarArrives
      PROVE  spot = "empty" /\ (Empty => Announced' /\ Cycle!Arrive)
  <2>1. /\ spot = "empty" /\ spot' = "parked" /\ selQ' = Append(selQ, <<"Jetson1", "1">>)
        /\ CamSame /\ ManSame /\ UNCHANGED <<selBatch, mode, plug>>
    BY <1>1 DEF CarArrives, camVars, manVars, CamSame, ManSame
  <2>2. Silent => Carries(<<"Jetson1", "1">>, 1)'
    BY <2>1, OneMessage DEF Silent, Carries
  <2> QED BY <2>1, <2>2, CamKeeps, ManKeeps DEF Empty, Announced, At, Cycle!Arrive
<1>2. ASSUME ChargeDone
      PROVE  spot = "charging" /\ (Charging => (Stopped6' \/ Stopped6L') /\ Cycle!Finish)
  <2>1. /\ spot = "charging" /\ spot' = "charged" /\ CamSame /\ ManSame /\ UNCHANGED <<selBatch, mode, plug>>
        /\ \E text \in {"6", "6L"} : selQ' = Append(selQ, <<"Jetson1", text>>)
    BY <1>2 DEF ChargeDone, camVars, manVars, CamSame, ManSame
  <2>2. Silent => selQ' = <<<<"Jetson1", "6">>>> \/ selQ' = <<<<"Jetson1", "6L">>>>
    BY <2>1, OneMessage DEF Silent
  <2>3. Silent => Carries(<<"Jetson1", "6">>, 6)' \/ Carries(<<"Jetson1", "6L">>, 6)'
    BY <2>1, <2>2 DEF Silent, Carries
  <2> QED BY <2>1, <2>3, CamKeeps, ManKeeps DEF Charging, Stopped6, Stopped6L, At, Cycle!Finish
<1>3. /\ Empty => spot = "empty"
      /\ Charging => spot = "charging"
      /\ \/ Announced \/ Fetching \/ Fetched \/ Searching \/ Reported3 \/ Reported4 \/ Correcting
         \/ Inserting \/ Inserted \/ Stopped6 \/ Stopped6L \/ Returning \/ Returned
         => spot \notin {"empty", "charging"}
  BY DEF At, Empty, Announced, Fetching, Fetched, Searching, Reported3, Reported4, Correcting,
         Inserting, Inserted, Charging, Stopped6, Stopped6L, Returning, Returned
<1> QED BY <1>1, <1>2, <1>3 DEF Moves

-----------------------------------------------------------------------------
LEMMA CycleInit == Init => InCycle /\ Cycle!Init
<1> SUFFICES ASSUME Init PROVE InCycle /\ Cycle!Init
  OBVIOUS
<1>1. Len(manQ) = 0 /\ Silent /\ Starting /\ NoSearch(camQ) /\ NoSearch(camBatch)
  BY DEF Init, Silent, Starting, NoSearch
<1>2. NoOrder
  BY <1>1 DEF NoOrder
<1>3. Empty
  BY <1>1, <1>2 DEF Init, Empty, At, Idle, Blind
<1> QED BY <1>3 DEF InCycle, Cycle!Init, Init

LEMMA CycleNext ==
  ASSUME TypeOK, Undisturbed, [Next]_vars
  PROVE  Moves
<1>1. CASE UNCHANGED vars
  BY <1>1, SameVars, NothingInCycle DEF vars
<1>2. CASE Tick
  BY <1>2, NothingInCycle DEF Tick, SelSame, CamSame, ManSame, worldVars
<1>3. CASE Stray
  BY <1>3, ConstantsAssumption DEF Stray, Undisturbed, TypeOK, WorldType
<1> QED BY <1>1, <1>2, <1>3, SelectorInCycle, CameraInCycle, ManipulatorInCycle, WorldInCycle DEF Next

LEMMA CycleMoves ==
  ASSUME InCycle, Moves
  PROVE  InCycle' /\ (Cycle!Next \/ Still)
<1>1. InCycle'
  BY Zenon DEF InCycle, Moves
<1>2. Cycle!Next \/ Still
  BY Zenon DEF InCycle, Moves, Cycle!Next
<1> QED BY <1>1, <1>2

\* The nodes pass one token round, whatever the length of connect() and of the
\* arm's moves.
LEMMA TokenInvariant == Undisturbed => (Spec => [](TypeOK /\ InCycle))
<1> SUFFICES ASSUME Undisturbed PROVE Spec => [](TypeOK /\ InCycle)
  OBVIOUS
<1>1. Init => InCycle
  BY CycleInit
<1>2. TypeOK /\ InCycle /\ [Next]_vars => InCycle'
  BY CycleNext, CycleMoves
<1> QED BY <1>1, <1>2, TypeCorrect, PTL DEF Spec

\* The safety half of the refinement.  Without stray messages and failed
\* connections the three programs do nothing to spot and connector that
\* ChargeCycle does not allow: the connector is fetched for a parked car only,
\* put in once, charged with once, put back once, and only then does the car
\* leave (Mode_Selector.cpp:74-183, Charger_Manipulator.ino:56-106).
THEOREM CycleRefined == Undisturbed => (Spec => Cycle!Init /\ [][Cycle!Next]_(Cycle!vars))
<1> SUFFICES ASSUME Undisturbed PROVE Spec => Cycle!Init /\ [][Cycle!Next]_(Cycle!vars)
  OBVIOUS
<1>1. Init => Cycle!Init
  BY CycleInit
<1>2. TypeOK /\ InCycle /\ [Next]_vars => [Cycle!Next]_(Cycle!vars)
  BY CycleNext, CycleMoves DEF Still, Cycle!vars
<1> QED BY <1>1, <1>2, TokenInvariant, PTL DEF Spec

\* The selector's one variable is enough for its three topics as long as the
\* nodes take turns: no callback finds a mode that waits to be published
\* (Mode_Selector.cpp:74-150).
THEOREM NothingOverwritten == Undisturbed => (Spec => []NoOverwrite)
<1> SUFFICES ASSUME Undisturbed PROVE Spec => []NoOverwrite
  OBVIOUS
<1>1. InCycle => NoOverwrite
  <2>1. Silent => NoOverwrite
    BY DEF Silent, NoOverwrite
  <2>2. ASSUME NEW m, NEW n, Carries(m, n) PROVE NoOverwrite
    BY <2>2 DEF Carries, NoOverwrite
  <2> QED BY <2>1, <2>2
       DEF InCycle, Empty, Announced, Fetching, Fetched, Searching, Reported3, Reported4, Correcting,
           Inserting, Inserted, Charging, Stopped6, Stopped6L, Returning, Returned
<1> QED BY <1>1, TokenInvariant, PTL

\* No late order and no late pair of angles of the approach moves the arm while
\* the car is charged (Charger_Manipulator.ino:56-106).
THEOREM StillWhileCharging == Undisturbed => (Spec => []ArmStillWhileCharging)
<1> SUFFICES ASSUME Undisturbed PROVE Spec => []ArmStillWhileCharging
  OBVIOUS
<1>1. InCycle => ArmStillWhileCharging
  <2> SUFFICES ASSUME InCycle, spot = "charging" PROVE manPc # "move"
    BY DEF ArmStillWhileCharging
  <2>1. Charging
    BY DEF InCycle, At, Empty, Announced, Fetching, Fetched, Searching, Reported3, Reported4, Correcting,
           Inserting, Inserted, Stopped6, Stopped6L, Returning, Returned
  <2> QED BY <2>1 DEF Charging, Rests, Resting
<1> QED BY <1>1, TokenInvariant, PTL

\* The car is sent away only when the arm is in its waiting pose and stays there
\* (Mode_Selector.cpp:167-182, Charger_Manipulator.ino:81-106).
THEOREM HomeBeforeLeaving == Undisturbed => (Spec => LeavesHome)
<1> SUFFICES ASSUME Undisturbed PROVE Spec => LeavesHome
  OBVIOUS
<1>1. TypeOK /\ InCycle /\ [Next]_vars
      => [spot' = "empty" /\ spot # "empty" => home /\ manPc # "move"]_vars
  <2> SUFFICES ASSUME TypeOK, InCycle, [Next]_vars, spot' = "empty", spot # "empty"
               PROVE  home /\ manPc # "move"
    OBVIOUS
  <2>1. Cycle!Leave
    BY CycleNext, CycleMoves DEF Still, Cycle!Next, Cycle!Arrive, Cycle!Fetch, Cycle!Insert, Cycle!Start,
                     Cycle!Finish, Cycle!Return
  <2>2. spot = "charged" /\ plug = "holder"
    BY <2>1 DEF Cycle!Leave
  <2>3. Returned
    BY <2>2 DEF InCycle, At, Empty, Announced, Fetching, Fetched, Searching, Reported3, Reported4,
                Correcting, Inserting, Inserted, Charging, Stopped6, Stopped6L, Returning
  <2> QED BY <2>3 DEF Returned, Rests, Resting
<1> QED BY <1>1, TokenInvariant, PTL DEF Spec, LeavesHome

\* connect() is only called to tell a 5 or a 7.
SendsMode == selPc = "send" => mode \in {5, 7}

LEMMA SendsModeStep == SendsMode /\ [Next]_vars => SendsMode'
<1> SUFFICES ASSUME SendsMode, [Next]_vars PROVE SendsMode'
  OBVIOUS
<1> USE DEF SendsMode
<1>1. CASE SelPublish
  BY <1>1 DEF SelPublish
<1>2. CASE SelSend \/ SelSpin \/ SelCallback \/ SelSleep
  BY <1>2 DEF SelSend, SelSpin, SelCallback, SelSleep
<1>3. CASE UNCHANGED <<selPc, mode>>
  BY <1>3
<1>4. Next => Selector \/ UNCHANGED <<selPc, mode>>
  BY DEF Next, Camera, CamSearch, CamReport, CamAngle, CamModeCallback, CamFindCircle, CamSleepRate,
         CamGetDepth, Manipulator, ManCallback, ManStart, ManAwait, ManSleep, ManCheck, ManFinish,
         ManDiscard, Tick, CarArrives, ChargeDone, Stray, selVars
<1>5. UNCHANGED vars => UNCHANGED <<selPc, mode>>
  BY DEF vars, selVars
<1> QED BY <1>1, <1>2, <1>3, <1>4, <1>5 DEF Selector

\* When it blocks, the token is the 5 or the 7, so there is no report.
LEMMA UnblockedInCycle == InCycle /\ SendsMode => Unblocked
<1> SUFFICES ASSUME InCycle, SendsMode, selPc = "send" PROVE Unblocked
  BY DEF Unblocked
<1>1. mode \in {5, 7}
  BY DEF SendsMode
<1>2. ~Silent
  BY <1>1 DEF Silent
<1>3. ASSUME NEW m, NEW n, Carries(m, n) PROVE selQ = <<>>
  BY <1>1, <1>3 DEF Carries
<1>4. selQ = <<>>
  BY <1>2, <1>3
     DEF InCycle, Empty, Announced, Fetching, Fetched, Searching, Reported3, Reported4, Correcting,
         Inserting, Inserted, Charging, Stopped6, Stopped6L, Returning, Returned
<1> QED BY <1>1, <1>4, EmptyQueue DEF Unblocked

\* However long connect() blocks, the manipulator's wait for angles is served in
\* every cycle: the selector tells 5 and 7 only when the camera has nothing to
\* report, so a report still reaches the board before sleep(3) is over
\* (Merge_Step4_Mode_Camera.cpp:290, Mode_Selector.cpp:153-183).
THEOREM WaitServedInCycle == Undisturbed => (Spec => []WaitIsServed)
<1> SUFFICES ASSUME Undisturbed PROVE Spec => []WaitIsServed
  OBVIOUS
<1> DEFINE InTime == Sensible /\ BatchTaken /\ ReportsInTime /\ AnglesFollow /\ SendsMode
<1>1. Init => InTime
  BY EmptyQueue, SensedEmpty
     DEF Init, Sensible, BatchTaken, ReportsInTime, AnglesFollow, SendsMode
<1>2. TypeOK /\ InCycle /\ InTime /\ [Next]_vars => InTime'
  <2>1. TypeOK => Unasked
    BY DEF TypeOK, WorldType, Undisturbed, Unasked, Heard
  <2> QED BY <2>1, SensibleStep, BatchStep, ReportsStep, AnglesStep, SendsModeStep,
             UnblockedInCycle
<1>3. AnglesFollow => WaitIsServed
  BY DEF AnglesFollow, WaitIsServed
<1> QED BY <1>1, <1>2, <1>3, TokenInvariant, PTL DEF Spec

-----------------------------------------------------------------------------
(***************************************************************************)
(* The angles of a round.  No pair of angles is about outside it; in it    *)
(* there is one pair at most, which is with the camera, in the serial      *)
(* input or received, and belongs to the joints and the pose of the round. *)
(***************************************************************************)

Pair(k) == <<IF k = 3 THEN "x" ELSE "y", pose>>
Unspent == manFlag = 0 /\ ~HasAngle(manQ)
OneAngle(a) ==
  \E i \in 1 .. Len(manQ) :
    manQ[i] = AngleMsg(a) /\ \A j \in 1 .. Len(manQ) : manQ[j].topic = "angle" => j = i

NoAngles == camPc # "angle" /\ target = NoPose /\ camFlag = -1 /\ Unspent
Sees == camPc # "angle" /\ target \in {NoPose, pose} /\ (camFlag > 0 => measure = pose) /\ Unspent
Held(k) == camPc = "angle" /\ imode = k /\ measure = pose /\ Unspent
Sent(k) ==
  /\ camPc # "angle" /\ target = NoPose
  /\ \/ manFlag = 0 /\ OneAngle(Pair(k))
     \/ ~HasAngle(manQ) /\ (manFlag = 1 => angle = Pair(k))
Answers(k) == job # -2 /\ (manPc = "move" => manFlag = 1) /\ (Held(k) \/ Sent(k))

Quiet == Empty \/ Announced \/ Fetching \/ Fetched \/ Inserted \/ Charging \/ Stopped6 \/ Stopped6L
         \/ Returning \/ Returned
Round3 == Reported3 \/ Correcting
Round4 == Reported4 \/ Inserting

AnglesInCycle ==
  \/ Quiet /\ NoAngles
  \/ Searching /\ Sees
  \/ Round3 /\ Answers(3)
  \/ Round4 /\ Answers(4)

LEMMA AngleParts ==
  /\ \A n : ModeMsg(n).topic # "angle"
  /\ \A a : AngleMsg(a).topic = "angle" /\ AngleMsg(a).angle = a
BY DEF ModeMsg, AngleMsg

\* What a new message makes of the angles in the serial input.
LEMMA AngleAppended ==
  ASSUME NEW m \in ManMsgs, manQ \in Seq(ManMsgs), manQ' = Append(manQ, m)
  PROVE  /\ m.topic # "angle" /\ ~HasAngle(manQ) => ~HasAngle(manQ')
         /\ \A a : m.topic # "angle" /\ OneAngle(a) => OneAngle(a)'
         /\ \A a : m = AngleMsg(a) /\ ~HasAngle(manQ) => OneAngle(a)'
<1>1. /\ Len(manQ') = Len(manQ) + 1 /\ Len(manQ) \in Nat /\ manQ'[Len(manQ) + 1] = m
      /\ \A i \in 1 .. Len(manQ) : manQ'[i] = manQ[i]
  OBVIOUS
<1>2. \A i \in 1 .. Len(manQ') : i \in 1 .. Len(manQ) \/ i = Len(manQ) + 1
  BY <1>1
<1>3. Len(manQ) + 1 \in 1 .. Len(manQ') /\ \A i \in 1 .. Len(manQ) : i \in 1 .. Len(manQ')
  BY <1>1
<1>4. m.topic # "angle" /\ ~HasAngle(manQ) => ~HasAngle(manQ')
  BY <1>1, <1>2, Zenon DEF HasAngle
<1>5. ASSUME NEW a, m.topic # "angle", OneAngle(a) PROVE OneAngle(a)'
  <2>1. PICK i \in 1 .. Len(manQ) :
          manQ[i] = AngleMsg(a) /\ \A j \in 1 .. Len(manQ) : manQ[j].topic = "angle" => j = i
    BY <1>5 DEF OneAngle
  <2>2. \A j \in 1 .. Len(manQ') : manQ'[j].topic = "angle" => j = i
    BY <1>1, <1>2, <1>5, <2>1, Zenon
  <2>3. i \in 1 .. Len(manQ') /\ manQ'[i] = AngleMsg(a)
    BY <1>1, <1>3, <2>1, Zenon
  <2> QED BY <2>2, <2>3, Zenon DEF OneAngle, AngleMsg
<1>6. ASSUME NEW a, m = AngleMsg(a), ~HasAngle(manQ) PROVE OneAngle(a)'
  <2>1. \A j \in 1 .. Len(manQ') : manQ'[j].topic = "angle" => j = Len(manQ) + 1
    BY <1>1, <1>2, <1>6, Zenon DEF HasAngle
  <2> QED BY <1>1, <1>3, <1>6, <2>1, Zenon DEF OneAngle, AngleMsg
<1> QED BY <1>4, <1>5, <1>6

\* What is left of them when the board takes a message.
LEMMA AngleTaken ==
  ASSUME manQ \in Seq(ManMsgs), manQ # <<>>, manQ' = Tail(manQ)
  PROVE  /\ ~HasAngle(manQ) => ~HasAngle(manQ') /\ Head(manQ).topic = "mode"
         /\ \A a : OneAngle(a) =>
              \/ Head(manQ) = AngleMsg(a) /\ ~HasAngle(manQ')
              \/ Head(manQ).topic = "mode" /\ OneAngle(a)'
<1>1. /\ Len(manQ) \in Nat \ {0} /\ Len(manQ') = Len(manQ) - 1 /\ Head(manQ) = manQ[1]
      /\ \A i \in 1 .. Len(manQ') : manQ'[i] = manQ[i + 1]
      /\ Head(manQ) \in ManMsgs
  OBVIOUS
<1>2. \A i \in 1 .. Len(manQ') : i + 1 \in 1 .. Len(manQ) /\ i + 1 # 1
  BY <1>1
<1>3. 1 \in 1 .. Len(manQ)
  BY <1>1
<1>4. Head(manQ).topic \in {"mode", "angle"}
  BY <1>1 DEF ManMsgs, ModeMsg, AngleMsg
<1>5. ~HasAngle(manQ) => ~HasAngle(manQ') /\ Head(manQ).topic = "mode"
  <2>1. ~HasAngle(manQ) => ~HasAngle(manQ') /\ Head(manQ).topic # "angle"
    BY <1>1, <1>2, <1>3, Zenon DEF HasAngle
  <2> QED BY <1>4, <2>1
<1>6. ASSUME NEW a, OneAngle(a)
      PROVE  \/ Head(manQ) = AngleMsg(a) /\ ~HasAngle(manQ')
             \/ Head(manQ).topic = "mode" /\ OneAngle(a)'
  <2>1. PICK i \in 1 .. Len(manQ) :
          manQ[i] = AngleMsg(a) /\ \A j \in 1 .. Len(manQ) : manQ[j].topic = "angle" => j = i
    BY <1>6 DEF OneAngle
  <2>2. CASE i = 1
    <3>1. \A j \in 1 .. Len(manQ') : manQ'[j].topic # "angle"
      BY <1>1, <1>2, <2>1, <2>2, Zenon
    <3> QED BY <1>1, <2>1, <2>2, <3>1, Zenon DEF HasAngle
  <2>3. CASE i # 1
    <3>1. Head(manQ).topic # "angle"
      BY <1>1, <1>3, <2>1, <2>3, Zenon
    <3>2. i - 1 \in 1 .. Len(manQ') /\ (i - 1) + 1 = i
      BY <1>1, <2>3
    <3>3. manQ'[i - 1] = AngleMsg(a)
      BY <1>1, <2>1, <3>2
    <3>4. \A j \in 1 .. Len(manQ') : manQ'[j].topic = "angle" => j = i - 1
      <4> SUFFICES ASSUME NEW j \in 1 .. Len(manQ'), manQ'[j].topic = "angle" PROVE j = i - 1
        OBVIOUS
      <4>1. j + 1 = i
        BY <1>1, <1>2, <2>1, Zenon
      <4> QED BY <3>2, <4>1
    <3>5. OneAngle(a)'
      BY <3>2, <3>3, <3>4, Zenon DEF OneAngle, AngleMsg
    <3> QED BY <1>4, <3>1, <3>5
  <2> QED BY <2>2, <2>3
<1> QED BY <1>5, <1>6

\* A step that does not touch the camera's measurement, the angles or the arm.
AnglesSame ==
  UNCHANGED <<camPc, camFlag, imode, target, measure, manPc, job, manFlag, angle, pose>>

LEMMA AnglesStay ==
  ASSUME TypeOK, AnglesSame,
         manQ' = manQ \/ \E n \in Modes : manQ' = Append(manQ, ModeMsg(n))
  PROVE  /\ (NoAngles => NoAngles') /\ (Sees => Sees')
         /\ \A k : Answers(k) => Answers(k)'
<1>0. manQ \in Seq(ManMsgs)
  BY DEF TypeOK, ManType
<1>1. (~HasAngle(manQ) => ~HasAngle(manQ')) /\ \A a : OneAngle(a) => OneAngle(a)'
  <2>1. CASE manQ' = manQ
    BY <2>1 DEF HasAngle, OneAngle
  <2>2. CASE \E n \in Modes : manQ' = Append(manQ, ModeMsg(n))
    <3>1. PICK n \in Modes : manQ' = Append(manQ, ModeMsg(n))
      BY <2>2
    <3>2. ModeMsg(n) \in ManMsgs /\ ModeMsg(n).topic # "angle"
      BY AngleParts DEF ManMsgs
    <3> QED BY <1>0, <3>1, <3>2, AngleAppended, Zenon
  <2> QED BY <2>1, <2>2
<1>2. UNCHANGED <<camPc, camFlag, imode, target, measure, manPc, job, manFlag, angle, pose>>
  BY DEF AnglesSame
<1>3. Unspent => Unspent'
  BY <1>1, <1>2 DEF Unspent
<1>4. (NoAngles => NoAngles') /\ (Sees => Sees')
  BY <1>2, <1>3 DEF NoAngles, Sees
<1>5. ASSUME NEW k, Answers(k) PROVE Answers(k)'
  <2>1. Pair(k)' = Pair(k)
    BY <1>2 DEF Pair
  <2>2. OneAngle(Pair(k)) => OneAngle(Pair(k))'
    <3> DEFINE a == Pair(k)
    <3>1. OneAngle(a) => \E i \in 1 .. Len(manQ') :
            manQ'[i] = AngleMsg(a) /\ \A j \in 1 .. Len(manQ') : manQ'[j].topic = "angle" => j = i
      <4> HIDE DEF a
      <4> QED BY <1>1, Zenon DEF OneAngle, AngleMsg
    <3> QED BY <2>1, <3>1 DEF OneAngle, AngleMsg
  <2>3. Held(k) => Held(k)'
    BY <1>2, <1>3 DEF Held
  <2>4. Sent(k) => Sent(k)'
    BY <1>1, <1>2, <2>1, <2>2 DEF Sent
  <2> QED BY <1>2, <1>5, <2>3, <2>4 DEF Answers
<1> QED BY <1>4, <1>5

\* A stage that carries a message is over as soon as the selector is silent.
LEMMA SilentStages ==
  Silent => ~Fetched /\ ~Reported3 /\ ~Reported4 /\ ~Inserted
<1>1. ASSUME NEW m, NEW n, n # -1, Silent PROVE ~Carries(m, n)
  BY <1>1, OneMessage DEF Silent, Carries
<1> QED BY <1>1 DEF Fetched, Reported3, Reported4, Inserted

LEMMA RoundStays ==
  ASSUME Moves, Silent => Silent'
  PROVE  /\ Quiet => Quiet' \/ Searching'
         /\ Searching => Searching'
         /\ Round3 => Round3'
         /\ Round4 => Round4'
<1>1. Silent' => ~Fetched' /\ ~Reported3' /\ ~Reported4' /\ ~Inserted'
  BY SilentStages, PTL
<1>2. Searching \/ Correcting \/ Inserting => Silent
  BY DEF Searching, Correcting, Inserting
<1>3. Quiet => Quiet' \/ Searching'
  BY DEF Moves, Quiet
<1>4. (Searching => Searching') /\ (Round3 => Round3') /\ (Round4 => Round4')
  BY <1>1, <1>2 DEF Moves, Round3, Round4
<1> QED BY <1>3, <1>4

\* Whoever has no part in the angles leaves them alone.
LEMMA AnglesOthers ==
  ASSUME TypeOK, Undisturbed, AnglesInCycle, Moves,
         Selector \/ Tick \/ CarArrives \/ ChargeDone \/ UNCHANGED vars
  PROVE  AnglesInCycle'
<1>1. AnglesSame /\ (manQ' = manQ \/ \E n \in Modes : manQ' = Append(manQ, ModeMsg(n)))
  <2>1. CASE SelPublish
    <3>1. mode > 0 => mode \in Modes
      BY DEF TypeOK, SelType, Modes
    <3> QED BY <2>1, <3>1 DEF SelPublish, AnglesSame, worldVars
  <2>2. CASE SelSend \/ SelSpin \/ SelCallback \/ SelSleep
    BY <2>2 DEF SelSend, SelSpin, SelCallback, SelSleep, AnglesSame, camVars, manVars, worldVars
  <2>3. CASE Tick
    BY <2>3 DEF Tick, AnglesSame, worldVars
  <2>4. CASE CarArrives \/ ChargeDone
    BY <2>4 DEF CarArrives, ChargeDone, AnglesSame, camVars, manVars
  <2>5. CASE UNCHANGED vars
    BY <2>5 DEF vars, AnglesSame, camVars, manVars, worldVars
  <2> QED BY <2>1, <2>2, <2>3, <2>4, <2>5 DEF Selector
<1>2. (NoAngles => NoAngles' /\ Sees') /\ (Sees => Sees') /\ \A k : Answers(k) => Answers(k)'
  <2>1. NoAngles => Sees
    BY DEF NoAngles, Sees
  <2> QED BY <1>1, <2>1, AnglesStay
<1>3. CASE Silent => Silent'
  BY <1>2, <1>3, RoundStays DEF AnglesInCycle
<1>4. CASE CarArrives \/ ChargeDone
  <2>1. spot \in {"empty", "charging"}
    BY <1>4 DEF CarArrives, ChargeDone
  <2>2. ~Searching /\ ~Round3 /\ ~Round4
    BY <2>1 DEF Searching, Round3, Round4, Reported3, Reported4, Correcting, Inserting, At
  <2>3. Quiet => Quiet' \/ Searching'
    BY DEF Moves, Quiet
  <2> QED BY <1>2, <2>2, <2>3 DEF AnglesInCycle
<1>5. Selector => (Silent => Silent')
  BY SilentStep
<1>6. Tick => (Silent => Silent')
  BY DEF Tick, Silent
<1>7. UNCHANGED vars => (Silent => Silent')
  BY DEF vars, selVars, Silent
<1> QED BY <1>3, <1>4, <1>5, <1>6, <1>7

LEMMA StageFacts ==
  /\ Quiet \/ Round3 \/ Round4 => Blind
  /\ Searching => Rests /\ Silent /\ Searches
  /\ Round3 => Rests \/ Obeys(3)
  /\ Round4 => Rests \/ Obeys(4)
BY DEF Quiet, Round3, Round4, Empty, Announced, Fetching, Fetched, Searching, Reported3, Reported4,
       Correcting, Inserting, Inserted, Charging, Stopped6, Stopped6L, Returning, Returned

\* The camera measures from where the arm is, and sends what it has measured.
LEMMA AnglesCamera ==
  ASSUME TypeOK, AnglesInCycle, Moves, Camera
  PROVE  AnglesInCycle'
<1>0. manQ \in Seq(ManMsgs) /\ imode \in {-1, 3, 4} /\ camFlag \in {-1, 1, 2} /\ pose \in Nat
  BY ConstantsAssumption DEF TypeOK, CamType, ManType, WorldType, Poses
<1>1. ASSUME Blind, camPc # "angle"
      PROVE  /\ UNCHANGED <<camFlag, imode, target, measure, manVars, pose>> /\ camPc' # "angle"
             /\ UNCHANGED selVars
  <2>1. camFlag = -1 /\ recvMode # 2
    BY <1>1 DEF Blind
  <2> QED BY <1>1, <2>1 DEF Camera, CamSearch, CamReport, CamAngle, CamModeCallback, CamFindCircle,
             CamSleepRate, CamGetDepth, CamSpinOnce, Looking, manVars, worldVars
<1>2. UNCHANGED manVars => (~HasAngle(manQ) => ~HasAngle(manQ')) /\ \A a : OneAngle(a) => OneAngle(a)'
  BY DEF manVars, HasAngle, OneAngle
<1>3. UNCHANGED selVars => (Silent => Silent')
  BY DEF selVars, Silent
<1>4. CASE Quiet /\ NoAngles
  <2>1. UNCHANGED <<camFlag, target, manVars, pose, selVars>> /\ camPc' # "angle"
    BY <1>1, <1>4, StageFacts DEF NoAngles
  <2>2. NoAngles' /\ Sees'
    BY <1>2, <1>4, <2>1 DEF NoAngles, Sees, Unspent, manVars
  <2> QED BY <1>3, <1>4, <2>1, <2>2, RoundStays DEF AnglesInCycle
<1>5. CASE Searching /\ Sees
  <2>1. CASE CamReport
    <3>1. /\ camFlag > 0 /\ camPc' = "angle" /\ imode' = (IF camFlag = 1 THEN 3 ELSE 4)
          /\ selQ' = Append(selQ, <<"Camera", IF camFlag = 1 THEN "3" ELSE "4">>)
          /\ UNCHANGED <<measure, manVars, pose>>
      BY <2>1 DEF CamReport, worldVars
    <3>2. measure' = pose' /\ Unspent'
      BY <1>2, <1>5, <3>1 DEF Sees, Unspent, manVars
    <3>3. job' # -2 /\ manPc' # "move"
      BY <1>5, <3>1, StageFacts DEF Rests, Resting, manVars
    <3>4. selQ = <<>>
      BY <1>5, StageFacts DEF Silent
    <3>5. CASE camFlag = 1
      <4>1. Answers(3)'
        BY <3>1, <3>2, <3>3, <3>5 DEF Answers, Held
      <4>2. selQ' = <<<<"Camera", "3">>>>
        BY <3>1, <3>4, <3>5, OneMessage
      <4>3. ~Carries(<<"Camera", "4">>, 4)'
        BY <4>2 DEF Carries
      <4>4. ~Searching'
        BY <4>2 DEF Searching, Silent
      <4> QED BY <1>5, <4>1, <4>3, <4>4 DEF Moves, AnglesInCycle, Round3, Reported4
    <3>6. CASE camFlag # 1
      <4>1. Answers(4)'
        BY <3>1, <3>2, <3>3, <3>6 DEF Answers, Held
      <4>2. selQ' = <<<<"Camera", "4">>>>
        BY <3>1, <3>4, <3>6, OneMessage
      <4>3. ~Carries(<<"Camera", "3">>, 3)'
        BY <4>2 DEF Carries
      <4>4. ~Searching'
        BY <4>2 DEF Searching, Silent
      <4> QED BY <1>5, <4>1, <4>3, <4>4 DEF Moves, AnglesInCycle, Round4, Reported3
    <3> QED BY <3>5, <3>6
  <2>2. CASE CamSearch \/ CamModeCallback \/ CamSleepRate
    <3>1. UNCHANGED <<camFlag, target, measure, manVars, pose, selVars>> /\ camPc' # "angle"
      BY <2>2 DEF CamSearch, CamModeCallback, CamSleepRate, CamSpinOnce, worldVars
    <3>2. Sees'
      BY <1>2, <1>5, <3>1 DEF Sees, Unspent, manVars
    <3> QED BY <1>3, <1>5, <3>1, <3>2, RoundStays DEF AnglesInCycle
  <2>3. CASE CamFindCircle
    <3>1. UNCHANGED <<camPc, camFlag, measure, manVars, pose, selVars>> /\ target' \in {target, pose}
      BY <2>3 DEF CamFindCircle, worldVars
    <3>2. Sees'
      BY <1>2, <1>5, <3>1 DEF Sees, Unspent, manVars
    <3> QED BY <1>3, <1>5, <3>1, <3>2, RoundStays DEF AnglesInCycle
  <2>4. CASE \E f \in {camFlag, 1, 2} : CamGetDepth(f)
    <3>1. /\ UNCHANGED <<camPc, target, manVars, pose, selVars>>
          /\ \/ UNCHANGED <<camFlag, measure>>
             \/ target # NoPose /\ measure' = (IF target = pose THEN pose ELSE NoPose)
      BY <2>4 DEF CamGetDepth, worldVars
    <3>2. Sees'
      BY <1>2, <1>5, <3>1 DEF Sees, Unspent, manVars
    <3> QED BY <1>3, <1>5, <3>1, <3>2, RoundStays DEF AnglesInCycle
  <2>5. ~CamAngle
    BY <1>5 DEF Sees, CamAngle
  <2> QED BY <2>1, <2>2, <2>3, <2>4, <2>5 DEF Camera
<1>6. ASSUME NEW k \in {3, 4}, Blind, Answers(k)
      PROVE  Answers(k)' /\ (Silent => Silent')
  <2>1. CASE Sent(k)
    <3>1. UNCHANGED <<target, manVars, pose, selVars>> /\ camPc' # "angle"
      BY <1>1, <1>6, <2>1 DEF Sent
    <3>2. UNCHANGED <<manPc, job, manFlag, angle, manQ, pose>>
      BY <3>1 DEF manVars
    <3>3. Pair(k)' = Pair(k)
      BY <3>2 DEF Pair
    <3>4. OneAngle(Pair(k)) => OneAngle(Pair(k))'
      BY <3>2, <3>3 DEF OneAngle
    <3>5. Sent(k)'
      BY <1>2, <2>1, <3>1, <3>2, <3>3, <3>4 DEF Sent
    <3> QED BY <1>3, <1>6, <3>1, <3>2, <3>5 DEF Answers
  <2>2. CASE Held(k)
    <3>1. CamAngle
      <4>1. camPc = "angle"
        BY <2>2 DEF Held
      <4> QED BY <4>1 DEF Camera, CamSearch, CamReport, CamModeCallback, CamFindCircle, CamSleepRate,
                          CamGetDepth
    <3>2. /\ manQ' = Append(manQ, AngleMsg(<<IF imode = 3 THEN "x" ELSE "y", measure>>))
          /\ target' = NoPose /\ camPc' = "calls"
          /\ UNCHANGED <<selVars, manPc, job, manFlag, angle, pose>>
      BY <3>1 DEF CamAngle, CamSpinOnce, worldVars
    <3>3. <<IF imode = 3 THEN "x" ELSE "y", measure>> = Pair(k) /\ Pair(k)' = Pair(k)
      BY <1>6, <2>2, <3>2 DEF Held, Pair
    <3>4. AngleMsg(Pair(k)) \in ManMsgs
      <4>1. <<IF imode = 3 THEN "x" ELSE "y", measure>> \in Angles
        BY DEF TypeOK, CamType, Angles
      <4> QED BY <3>3, <4>1 DEF ManMsgs
    <3>5. manQ' = Append(manQ, AngleMsg(Pair(k))) /\ ~HasAngle(manQ) /\ manFlag = 0
      BY <2>2, <3>2, <3>3 DEF Held, Unspent
    <3>6. OneAngle(Pair(k))'
      <4>1. ASSUME NEW a, AngleMsg(a) \in ManMsgs, manQ' = Append(manQ, AngleMsg(a)) PROVE OneAngle(a)'
        BY <1>0, <3>5, <4>1, AngleAppended
      <4>2. ASSUME NEW a, OneAngle(a)', a = Pair(k) PROVE OneAngle(Pair(k))'
        BY <3>3, <4>2 DEF OneAngle
      <4> QED BY <3>4, <3>5, <4>1, <4>2
    <3>7. Sent(k)'
      BY <3>2, <3>5, <3>6 DEF Sent
    <3> QED BY <1>3, <1>6, <3>2, <3>7 DEF Answers
  <2> QED BY <1>6, <2>1, <2>2 DEF Answers
<1>7. CASE Round3 /\ Answers(3)
  BY <1>6, <1>7, StageFacts, RoundStays DEF AnglesInCycle
<1>8. CASE Round4 /\ Answers(4)
  BY <1>6, <1>8, StageFacts, RoundStays DEF AnglesInCycle
<1> QED BY <1>4, <1>5, <1>7, <1>8 DEF AnglesInCycle

\* The arm uses up the angles it moves by, and forgets any it did not wait for.
LEMMA AnglesManipulator ==
  ASSUME TypeOK, AnglesInCycle, Moves, Manipulator
  PROVE  AnglesInCycle'
<1>0. manQ \in Seq(ManMsgs) /\ manFlag \in {0, 1}
  BY DEF TypeOK, ManType
<1>1. ASSUME ~ManFinish PROVE UNCHANGED <<selVars, camVars, pose>> /\ (Silent => Silent')
  <2>1. UNCHANGED <<selVars, camVars, worldVars>>
    BY <1>1 DEF Manipulator, ManCallback, ManStart, ManAwait, ManSleep, ManCheck, ManDiscard
  <2> QED BY <2>1 DEF selVars, worldVars, Silent
\* Without angles
<1>2. ASSUME Unspent PROVE Unspent' /\ (ManCallback => UNCHANGED angle)
  <2>1. CASE ManCallback
    <3>1. manQ # <<>> /\ manQ' = Tail(manQ)
      BY <2>1 DEF ManCallback
    <3>2. ~HasAngle(manQ') /\ Head(manQ).topic = "mode"
      BY <1>0, <1>2, <3>1, AngleTaken DEF Unspent
    <3> QED BY <1>2, <2>1, <3>2 DEF ManCallback, Unspent
  <2>2. CASE ~ManCallback
    <3>1. manQ' = manQ /\ (manFlag' = manFlag \/ manFlag' = 0)
      BY <2>2 DEF Manipulator, ManStart, ManAwait, ManSleep, ManCheck, ManFinish, ManDiscard, ManReset
    <3> QED BY <1>2, <2>2, <3>1 DEF Unspent, HasAngle
  <2> QED BY <2>1, <2>2
<1>3. CASE Quiet /\ NoAngles
  <2>1. UNCHANGED camVars
    BY DEF Manipulator, ManCallback, ManStart, ManAwait, ManSleep, ManCheck, ManFinish, ManDiscard
  <2>2. NoAngles' /\ Sees'
    BY <1>2, <1>3, <2>1 DEF NoAngles, Sees, camVars
  <2>3. Quiet' \/ Searching'
    BY <1>3 DEF Moves, Quiet
  <2> QED BY <2>2, <2>3 DEF AnglesInCycle
<1>4. CASE Searching /\ Sees
  <2>1. ~ManFinish
    BY <1>4, StageFacts DEF ManFinish, Rests, Resting
  <2>2. Sees'
    BY <1>1, <1>2, <1>4, <2>1 DEF Sees, camVars
  <2> QED BY <1>1, <1>4, <2>1, <2>2, RoundStays DEF AnglesInCycle
<1>5. ASSUME NEW k \in {3, 4}, Answers(k), Rests \/ Obeys(k), ~ManFinish
      PROVE  Answers(k)'
  <2>1. UNCHANGED <<camPc, imode, target, measure, pose>>
    BY <1>1, <1>5 DEF camVars
  <2>2. Pair(k)' = Pair(k)
    BY <2>1 DEF Pair
  <2>3. manMode \notin {1, 6} /\ (manMode = -2 => manPc = "move")
    BY <1>5 DEF Rests, Obeys, Resting, Starting
  <2>4. job' # -2 /\ (manPc' = "move" => manFlag' = 1)
    <3>1. job # -2 /\ (manPc = "move" => manFlag = 1)
      BY <1>5 DEF Answers
    <3>2. CASE ManCallback
      <4>1. manPc # "move" /\ UNCHANGED <<manPc, job>>
        BY <3>2 DEF ManCallback
      <4> QED BY <3>1, <4>1
    <3> QED BY <1>5, <2>3, <3>1, <3>2
            DEF Manipulator, ManStart, ManAwait, ManSleep, ManCheck, ManDiscard, ManReset
  <2>5. CASE Held(k)
    BY <1>2, <2>1, <2>4, <2>5 DEF Held, Answers
  <2>6. CASE Sent(k)
    <3>1. CASE ManCallback
      <4>1. manQ # <<>> /\ manQ' = Tail(manQ)
        BY <3>1 DEF ManCallback
      <4>2. CASE ~HasAngle(manQ)
        <5>1. ~HasAngle(manQ') /\ Head(manQ).topic = "mode"
          BY <1>0, <4>1, <4>2, AngleTaken
        <5>2. UNCHANGED <<manFlag, angle>>
          BY <3>1, <5>1 DEF ManCallback
        <5>3. manFlag = 1 => angle = Pair(k)
          <6>1. ~OneAngle(Pair(k))
            BY <4>2, AngleParts DEF OneAngle, HasAngle
          <6> QED BY <2>6, <6>1 DEF Sent
        <5> QED BY <2>1, <2>2, <2>4, <2>6, <5>1, <5>2, <5>3 DEF Sent, Answers
      <4>3. CASE manFlag = 0 /\ OneAngle(Pair(k))
        <5>1. ASSUME NEW a, OneAngle(a)
              PROVE  \/ Head(manQ) = AngleMsg(a) /\ ~HasAngle(manQ')
                     \/ Head(manQ).topic = "mode" /\ OneAngle(a)'
          BY <1>0, <4>1, <5>1, AngleTaken
        <5>2. ASSUME NEW a, OneAngle(a)', a = Pair(k) PROVE OneAngle(Pair(k))'
          BY <2>2, <5>2 DEF OneAngle
        <5>3. \/ Head(manQ) = AngleMsg(Pair(k)) /\ ~HasAngle(manQ')
              \/ Head(manQ).topic = "mode" /\ OneAngle(Pair(k))'
          BY <4>3, <5>1, <5>2
        <5>4. CASE Head(manQ) = AngleMsg(Pair(k)) /\ ~HasAngle(manQ')
          <6>1. Head(manQ).topic # "mode" /\ Head(manQ).angle = Pair(k)
            BY <5>4 DEF AngleMsg
          <6>2. manFlag' = 1 /\ angle' = Pair(k)
            BY <3>1, <6>1 DEF ManCallback
          <6> QED BY <2>1, <2>2, <2>4, <2>6, <5>4, <6>2 DEF Sent, Answers
        <5>5. CASE Head(manQ).topic = "mode" /\ OneAngle(Pair(k))'
          <6>1. manFlag' = 0
            BY <3>1, <4>3, <5>5 DEF ManCallback
          <6> QED BY <2>1, <2>4, <2>6, <5>5, <6>1 DEF Sent, Answers
        <5> QED BY <5>3, <5>4, <5>5
      <4> QED BY <2>6, <4>2, <4>3 DEF Sent
    <3>2. CASE ManStart \/ ManAwait \/ ManSleep \/ ManCheck
      <4>1. UNCHANGED <<manFlag, angle, manQ>>
        BY <3>2 DEF ManStart, ManAwait, ManSleep, ManCheck
      <4>2. OneAngle(Pair(k)) => OneAngle(Pair(k))'
        BY <2>2, <4>1 DEF OneAngle
      <4> QED BY <2>1, <2>2, <2>4, <2>6, <4>1, <4>2 DEF Sent, Answers, HasAngle
    <3>3. CASE ManDiscard
      <4>1. manFlag = 1 /\ manFlag' = 0 /\ manQ' = manQ
        BY <3>3 DEF ManDiscard, ManReset
      <4> QED BY <2>1, <2>4, <2>6, <4>1 DEF Sent, Answers, HasAngle
    <3> QED BY <1>5, <3>1, <3>2, <3>3 DEF Manipulator
  <2> QED BY <1>5, <2>5, <2>6 DEF Answers
<1>6. ASSUME NEW k \in {3, 4}, Answers(k), Blind, ManFinish
      PROVE  NoAngles' /\ Answers(k)'
  <2>1. manPc = "move" /\ manPc' = "spin" /\ manFlag' = 0 /\ job' = -1 /\ UNCHANGED <<manQ, camVars>>
    BY <1>6 DEF ManFinish, ManReset
  <2>2. manFlag = 1
    BY <1>6, <2>1 DEF Answers
  <2>3. camPc # "angle" /\ target = NoPose /\ ~HasAngle(manQ)
    BY <1>6, <2>2 DEF Answers, Held, Sent, Unspent
  <2>4. camPc' # "angle" /\ target' = NoPose /\ ~HasAngle(manQ') /\ camFlag' = -1
    BY <1>6, <2>1, <2>3 DEF camVars, HasAngle, Blind
  <2>5. NoAngles'
    BY <2>1, <2>4 DEF NoAngles, Unspent
  <2>6. Sent(k)'
    BY <2>1, <2>4 DEF Sent
  <2> QED BY <2>1, <2>5, <2>6 DEF Answers
<1>7. CASE Round3 /\ Answers(3)
  <2>1. CASE ManFinish
    <3>1. Round3' \/ Quiet'
      BY <1>7 DEF Moves, Round3, Quiet
    <3> QED BY <1>6, <1>7, <2>1, <3>1, StageFacts DEF AnglesInCycle
  <2>2. CASE ~ManFinish
    BY <1>1, <1>5, <1>7, <2>2, StageFacts, RoundStays DEF AnglesInCycle
  <2> QED BY <2>1, <2>2
<1>8. CASE Round4 /\ Answers(4)
  <2>1. CASE ManFinish
    <3>1. Round4' \/ Quiet'
      BY <1>8 DEF Moves, Round4, Quiet
    <3> QED BY <1>6, <1>8, <2>1, <3>1, StageFacts DEF AnglesInCycle
  <2>2. CASE ~ManFinish
    BY <1>1, <1>5, <1>8, <2>2, StageFacts, RoundStays DEF AnglesInCycle
  <2> QED BY <2>1, <2>2
<1> QED BY <1>3, <1>4, <1>7, <1>8 DEF AnglesInCycle

LEMMA AnglesNext ==
  ASSUME TypeOK, Undisturbed, AnglesInCycle, [Next]_vars
  PROVE  AnglesInCycle'
<1>1. ~Stray
  BY ConstantsAssumption DEF Stray, Undisturbed, TypeOK, WorldType
<1> QED BY <1>1, CycleNext, AnglesOthers, AnglesCamera, AnglesManipulator DEF Next

\* A correction moves the joints the angles are for, by angles measured from
\* where the arm still is: tar_x, tar_y, flag and angle are reset in time, and
\* no pair of angles is left from one round to the next
\* (Merge_Step4_Mode_Camera.cpp:104-320, Charger_Manipulator.ino:65-105).
THEOREM AnglesFresh == Undisturbed => (Spec => []FreshAngles)
<1> SUFFICES ASSUME Undisturbed PROVE Spec => []FreshAngles
  OBVIOUS
<1>1. Init => AnglesInCycle
  <2> SUFFICES ASSUME Init PROVE AnglesInCycle
    OBVIOUS
  <2>1. Empty
    BY CycleInit DEF Init, InCycle, At, Announced, Fetching, Fetched, Searching, Reported3, Reported4,
                     Correcting, Inserting, Inserted, Charging, Stopped6, Stopped6L, Returning, Returned
  <2>2. ~HasAngle(manQ)
    <3>1. Len(manQ) = 0
      BY DEF Init
    <3> QED BY <3>1 DEF HasAngle
  <2> QED BY <2>1, <2>2 DEF Init, AnglesInCycle, Quiet, NoAngles, Unspent
<1>2. TypeOK /\ AnglesInCycle /\ [Next]_vars => AnglesInCycle'
  BY AnglesNext
<1>3. AnglesInCycle => FreshAngles
  <2> SUFFICES ASSUME AnglesInCycle, manPc = "move", job \in {3, 4}
               PROVE  angle = Pair(job)
    BY DEF FreshAngles, Pair
  <2>1. ~Rests /\ ~Idle /\ \A n \in Orders : Obeys(n) => job = n
    BY DEF Rests, Idle, Obeys, Resting, Starting
  <2>2. ~Quiet /\ ~Searching
    BY <2>1, RestsAreIdle
       DEF Orders, Quiet, Empty, Announced, Fetching, Fetched, Searching, Inserted, Charging, Stopped6,
           Stopped6L, Returning, Returned
  <2>3. ASSUME NEW k, Answers(k) PROVE angle = Pair(k)
    <3>1. manFlag = 1
      BY <2>3 DEF Answers
    <3> QED BY <2>3, <3>1 DEF Answers, Held, Sent, Unspent
  <2>4. (Round3 => job = 3) /\ (Round4 => job = 4)
    BY <2>1, StageFacts DEF Orders
  <2> QED BY <2>2, <2>3, <2>4 DEF AnglesInCycle
<1> QED BY <1>1, <1>2, <1>3, TypeCorrect, PTL DEF Spec
=============================================================================
