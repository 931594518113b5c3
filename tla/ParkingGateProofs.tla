-------------------------- MODULE ParkingGateProofs --------------------------
(***************************************************************************)
(* Theorems about ParkingGate, for any cars, any number of spots and, where *)
(* they do not say otherwise, any faults.                                  *)
(***************************************************************************)
EXTENDS ParkingGate, FiniteSetTheorems, WellFoundedInduction, TLAPS

\* The row a query returns first is one of its rows.
LEMMA FirstIsARow ==
  ASSUME NEW rows \in SUBSET Spots, rows # {}
  PROVE  First(rows) \in rows
<1> DEFINE Below == {ss \in Nat \X Nat : ss[1] < ss[2]}
<1>1. IsWellFoundedOn(Below, Nat)
  BY NatLessThanWellFounded DEF OpToRel
<1>2. rows \subseteq Nat
  BY GateAssumption DEF Spots
<1>3. \E s \in rows : \A t \in rows : ~(<<t, s>> \in Below)
  <2> HIDE DEF Below
  <2> QED BY <1>1, <1>2, WFMin, Zenon
<1>4. PICK s \in rows : \A t \in rows : ~(<<t, s>> \in Below)
  BY <1>3
<1>5. \A t \in rows : s <= t
  <2> SUFFICES ASSUME NEW t \in rows PROVE s <= t
    OBVIOUS
  <2>1. t \in Nat /\ s \in Nat
    BY <1>2
  <2>2. <<t, s>> \notin Below
    BY <1>4
  <2>3. ~(t < s)
    BY <2>1, <2>2
  <2> QED BY <2>1, <2>3
<1> QED BY <1>5 DEF First

LEMMA Appended == \A S : \A q \in Seq(S), e \in S : Append(q, e) \in Seq(S)
OBVIOUS

LEMMA Popped == \A S : \A q \in Seq(S) : q # <<>> => Tail(q) \in Seq(S) /\ Head(q) \in S
OBVIOUS

\* A step that leaves the variables of a part alone keeps its types.
LEMMA Frame ==
  /\ EnvOK /\ UNCHANGED env => EnvOK'
  /\ ArdOK /\ UNCHANGED ard => ArdOK'
  /\ LinesOK /\ UNCHANGED <<toPi, toArd>> => LinesOK'
  /\ PiOK /\ UNCHANGED pi => PiOK'
  /\ DbOK /\ UNCHANGED <<db, told>> => DbOK'
<1>1. EnvOK /\ UNCHANGED env => EnvOK'
  BY DEF EnvOK, env
<1>2. ArdOK /\ UNCHANGED ard => ArdOK'
  BY DEF ArdOK, ard
<1>3. LinesOK /\ UNCHANGED <<toPi, toArd>> => LinesOK'
  BY DEF LinesOK
<1>4. PiOK /\ UNCHANGED pi => PiOK'
  BY DEF PiOK, pi
<1>5. DbOK /\ UNCHANGED <<db, told>> => DbOK'
  BY DEF DbOK, db
<1> QED BY <1>1, <1>2, <1>3, <1>4, <1>5

\* Every step leaves faults alone or adds one of Faults.
LEMMA FaultsGrow == faults \subseteq Faults /\ [Next]_vars => faults' \subseteq Faults /\ faults \subseteq faults'
<1> SUFFICES ASSUME faults \subseteq Faults, [Next]_vars
             PROVE  faults' \subseteq Faults /\ faults \subseteq faults'
  OBVIOUS
<1>1. \A k : Fault(k) => faults' \subseteq Faults /\ faults \subseteq faults'
  BY DEF Fault
<1>2. NoFault => faults' = faults
  BY DEF NoFault
<1>3. CASE \E c \in Cars : CarComes(c)
  BY <1>1, <1>2, <1>3 DEF CarComes
<1>4. CASE Driver
  BY <1>4 DEF Driver, CarPasses, CarTurns
<1>5. CASE Arduino
  <2>1. CASE ArdLoop
    BY <1>1, <1>2, <2>1 DEF ArdLoop, ArdDetect, ArdClear
  <2>2. CASE ArdLower \/ ArdAnswer
    BY <2>2 DEF ArdLower, ArdAnswer
  <2> QED BY <1>5, <2>1, <2>2 DEF Arduino
<1>6. CASE RaspberryPi
  <2>1. CASE PiGetChar \/ PiType
    BY <1>1, <1>2, <2>1 DEF PiGetChar, PiType
  <2>2. CASE PiInOut \/ PiSearch
    BY <1>1, <1>2, <2>2 DEF PiInOut, PiSearch
  <2>3. CASE PiUpdate \/ PiLog
    BY <1>1, <1>2, <2>3 DEF PiUpdate, PiLog
  <2>4. CASE PiReply \/ PiTell
    BY <1>1, <1>2, <2>4 DEF PiReply, PiTell
  <2> QED BY <1>6, <2>1, <2>2, <2>3, <2>4 DEF RaspberryPi
<1>7. CASE Restart
  BY <1>1, <1>7 DEF Restart
<1>8. CASE UNCHANGED vars
  BY <1>8 DEF vars
<1> QED BY <1>3, <1>4, <1>5, <1>6, <1>7, <1>8 DEF Next

\* Every variable keeps to its range, whatever goes wrong.
THEOREM GateTypes == Spec => []TypeOK
<1>1. Init => TypeOK
  <2> SUFFICES ASSUME Init PROVE TypeOK
    OBVIOUS
  <2>1. EnvOK
    BY DEF Init, EnvOK
  <2>2. ArdOK /\ LinesOK /\ PiOK
    BY DEF Init, ArdOK, LinesOK, PiOK, Numbers
  <2>3. DbOK
    BY DEF Init, DbOK, Numbers
  <2> QED BY <2>1, <2>2, <2>3 DEF TypeOK, Init
<1>2. TypeOK /\ [Next]_vars => TypeOK'
  <2> SUFFICES ASSUME EnvOK, ArdOK, LinesOK, PiOK, DbOK, faults \subseteq Faults, [Next]_vars
               PROVE  EnvOK' /\ ArdOK' /\ LinesOK' /\ PiOK' /\ DbOK'
    BY FaultsGrow DEF TypeOK
  <2>1. CASE \E c \in Cars : CarComes(c)
    <3>1. EnvOK'
      BY <2>1 DEF CarComes, EnvOK
    <3> QED BY <2>1, <3>1, Frame DEF CarComes
  <2>2. CASE CarPasses
    <3>1. \A c : Booked(c) \subseteq Spots
      BY DEF Booked
    <3>2. front \in Cars
      BY <2>2 DEF CarPasses, EnvOK
    <3>3. CASE front \in inside
      <4>1. EnvOK'
        BY <2>2, <3>3 DEF CarPasses, EnvOK
      <4> QED BY <2>2, <4>1, Frame DEF CarPasses
    <3>4. CASE front \notin inside
      <4>1. (IF Booked(front) # {} THEN First(Booked(front)) ELSE NoSpot) \in Spots \cup {NoSpot}
        BY <3>1, FirstIsARow
      <4>2. EnvOK'
        BY <2>2, <3>2, <3>4, <4>1 DEF CarPasses, EnvOK
      <4> QED BY <2>2, <4>2, Frame DEF CarPasses
    <3> QED BY <3>3, <3>4
  <2>3. CASE CarTurns
    <3>1. EnvOK'
      BY <2>3 DEF CarTurns, EnvOK
    <3> QED BY <2>3, <3>1, Frame DEF CarTurns
  <2>4. CASE ArdLoop
    <3>1. ArdOK'
      BY <2>4 DEF ArdLoop, ArdDetect, ArdClear, ArdOK
    <3>2. toPi' = toPi \/ toPi' = Append(toPi, "S")
      BY <2>4 DEF ArdLoop, ArdDetect, ArdClear
    <3>3. LinesOK'
      <4>1. toPi' \in Seq({"S"})
        BY <3>2, Appended DEF LinesOK
      <4> QED BY <2>4, <4>1 DEF ArdLoop, LinesOK
    <3> QED BY <2>4, <3>1, <3>3, Frame DEF ArdLoop
  <2>5. CASE ArdLower
    <3>1. ArdOK'
      BY <2>5 DEF ArdLower, ArdOK
    <3> QED BY <2>5, <3>1, Frame DEF ArdLower
  <2>6. CASE ArdAnswer
    <3>1. ArdOK'
      BY <2>6 DEF ArdAnswer, ArdOK
    <3>2. toArd' \in Seq(Answers)
      BY <2>6, Popped DEF ArdAnswer, LinesOK
    <3>3. LinesOK'
      BY <2>6, <3>2 DEF ArdAnswer, LinesOK
    <3> QED BY <2>6, <3>1, <3>3, Frame DEF ArdAnswer
  <2>7. CASE PiGetChar
    <3>1. PiOK'
      BY <2>7 DEF PiGetChar, PiOK, Numbers, EnvOK
    <3>2. toPi' \in Seq({"S"})
      BY <2>7, Popped DEF PiGetChar, LinesOK
    <3>3. LinesOK'
      BY <2>7, <3>2 DEF PiGetChar, LinesOK
    <3> QED BY <2>7, <3>1, <3>3, Frame DEF PiGetChar
  <2>8. CASE PiType
    <3>1. PiOK'
      BY <2>8, GateAssumption DEF PiType, PiOK
    <3> QED BY <2>8, <3>1, Frame DEF PiType
  <2>9. CASE PiInOut
    <3>1. PICK found \in {Booked(number), {}} :
            IF found # {}
              THEN spot' = First(found) /\ inout' = 0 /\ piPc' = "update"
              ELSE spot' = NoSpot /\ inout' = 1 /\ piPc' = "search"
      BY <2>9 DEF PiInOut
    <3>2. found \subseteq Spots
      BY DEF Booked
    <3>3. PiOK'
      BY <2>9, <3>1, <3>2, FirstIsARow DEF PiInOut, PiOK
    <3> QED BY <2>9, <3>3, Frame DEF PiInOut
  <2>10. CASE PiSearch
    <3>1. Free \subseteq Spots
      BY DEF Free
    <3>2. PiOK'
      BY <2>10, <3>1, FirstIsARow DEF PiSearch, PiOK
    <3> QED BY <2>10, <3>2, Frame DEF PiSearch
  <2>11. CASE PiUpdate
    <3>1. NewCarnum \in Numbers
      BY DEF NewCarnum, Numbers, PiOK
    <3>2. stat' \in [Spots -> {0, 1}] /\ carnum' \in [Spots -> Numbers]
      BY <2>11, <3>1 DEF PiUpdate, PiOK, DbOK
    <3>3. DbOK'
      BY <2>11, <3>2 DEF PiUpdate, DbOK
    <3>4. PiOK'
      BY <2>11 DEF PiUpdate, PiOK
    <3> QED BY <2>11, <3>3, <3>4, Frame DEF PiUpdate
  <2>12. CASE PiLog
    <3>1. logged' \in [Numbers -> {0, 1} \X (Spots \cup {NoSpot})]
      BY <2>12 DEF PiLog, PiOK, DbOK
    <3>2. DbOK'
      BY <2>12, <3>1 DEF PiLog, DbOK
    <3>3. PiOK'
      BY <2>12 DEF PiLog, PiOK
    <3> QED BY <2>12, <3>2, <3>3, Frame DEF PiLog
  <2>13. CASE PiReply
    <3>1. <<inout, number, type, spot>> \in Answers
      BY DEF PiOK, Answers
    <3>2. toArd' \in Seq(Answers)
      BY <2>13, <3>1, Appended DEF PiReply, LinesOK
    <3>3. LinesOK'
      BY <2>13, <3>2 DEF PiReply, LinesOK
    <3>4. PiOK'
      BY <2>13 DEF PiReply, PiOK
    <3> QED BY <2>13, <3>3, <3>4, Frame DEF PiReply
  <2>14. CASE PiTell
    <3>1. told' \in [Spots -> {0, 1} \X Numbers]
      BY <2>14 DEF PiTell, PiOK, DbOK, Message
    <3>2. DbOK'
      BY <2>14, <3>1 DEF PiTell, DbOK, db
    <3>3. PiOK'
      BY <2>14 DEF PiTell, PiOK
    <3> QED BY <2>14, <3>2, <3>3, Frame DEF PiTell
  <2>15. CASE Restart
    <3>1. ArdOK' /\ PiOK' /\ LinesOK'
      BY <2>15 DEF Restart, ArdOK, PiOK, LinesOK, Numbers
    <3> QED BY <2>15, <3>1, Frame DEF Restart
  <2>16. CASE UNCHANGED vars
    BY <2>16, Frame DEF vars
  <2> QED BY <2>1, <2>2, <2>3, <2>4, <2>5, <2>6, <2>7, <2>8, <2>9, <2>10, <2>11, <2>12,
             <2>13, <2>14, <2>15, <2>16 DEF Next, Driver, Arduino, RaspberryPi
<1> QED BY <1>1, <1>2, PTL DEF Spec
-----------------------------------------------------------------------------
(***************************************************************************)
(* The rows of now_stat, as long as no query fails.  A plate about to be   *)
(* written to a row has none yet, and the row is free.                     *)
(***************************************************************************)
Rows == /\ \A s, t \in Spots : carnum[s] = carnum[t] /\ carnum[s] # Zero => s = t
        /\ \A s \in Spots : stat[s] = 0 <=> carnum[s] = Zero
Looking == piPc = "search" => inout = 1 /\ spot = NoSpot /\ Booked(number) = {}
Entering == piPc = "update" /\ inout = 1 =>
              /\ Booked(number) = {}
              /\ spot # NoSpot => number # Zero /\ stat[spot] = 0
Leaving == piPc = "update" /\ inout = 0 => spot \in Booked(number)
RowsInv == Without({"query"}) => Rows /\ Looking /\ Entering /\ Leaving

\* A failed query is a fault that stays on record.
LEMMA OnRecord ==
  ASSUME faults \subseteq Faults, [Next]_vars
  PROVE  /\ \A K : Without(K)' => Without(K)
         /\ \A k : Fault(k) => ~Without({k})'
<1>1. faults \subseteq faults'
  BY FaultsGrow
<1>2. \A K : Without(K)' => Without(K)
  BY <1>1 DEF Without
<1>3. \A k : Fault(k) => ~Without({k})'
  BY DEF Fault, Without
<1> QED BY <1>2, <1>3

LEMMA RowsInvStep == TypeOK /\ RowsInv /\ [Next]_vars => RowsInv'
<1> SUFFICES ASSUME TypeOK, [Next]_vars, Without({"query"})',
                    Rows, Looking, Entering, Leaving
             PROVE  Rows' /\ Looking' /\ Entering' /\ Leaving'
  BY OnRecord DEF RowsInv, TypeOK
<1> USE DEF TypeOK
<1>1. ~Fault("query")
  BY OnRecord
<1>2. CASE UNCHANGED <<stat, carnum, piPc, number, inout, spot>>
  <2>1. \A c : Booked(c)' = Booked(c)
    BY <1>2 DEF Booked
  <2> QED BY <1>2, <2>1 DEF Rows, Looking, Entering, Leaving
<1>3. CASE UNCHANGED <<stat, carnum>> /\ piPc' \notin {"search", "update"}
  BY <1>3 DEF Rows, Looking, Entering, Leaving
<1>4. CASE PiInOut
  <2>1. \A c : Booked(c)' = Booked(c)
    BY <1>4 DEF PiInOut, db, Booked
  <2>2. /\ UNCHANGED <<stat, carnum, number>>
        /\ IF Booked(number) # {}
             THEN spot' = First(Booked(number)) /\ inout' = 0 /\ piPc' = "update"
             ELSE spot' = NoSpot /\ inout' = 1 /\ piPc' = "search"
    BY <1>4, <1>1 DEF PiInOut, db
  <2>3. Rows'
    BY <2>2 DEF Rows
  <2>4. CASE Booked(number) # {}
    <3>1. First(Booked(number)) \in Booked(number)
      <4>1. Booked(number) \subseteq Spots
        BY DEF Booked
      <4> QED BY <2>4, <4>1, FirstIsARow
    <3> QED BY <2>1, <2>2, <2>3, <2>4, <3>1 DEF Looking, Entering, Leaving
  <2>5. CASE Booked(number) = {}
    BY <2>1, <2>2, <2>3, <2>5 DEF Looking, Entering, Leaving
  <2> QED BY <2>4, <2>5
<1>5. CASE PiSearch
  <2>1. \A c : Booked(c)' = Booked(c)
    BY <1>5 DEF PiSearch, db, Booked
  <2>2. /\ UNCHANGED <<stat, carnum, number, inout>> /\ piPc' = "update"
        /\ spot' = IF Free # {} THEN First(Free) ELSE spot
    BY <1>5, <1>1 DEF PiSearch, db
  <2>3. inout = 1 /\ spot = NoSpot /\ Booked(number) = {}
    BY <1>5 DEF PiSearch, Looking
  <2>4. spot' # NoSpot => number # Zero /\ stat[spot'] = 0
    <3> SUFFICES ASSUME spot' # NoSpot PROVE number # Zero /\ stat[spot'] = 0
      OBVIOUS
    <3>1. Free # {} /\ Free \subseteq Spots
      BY <2>2, <2>3 DEF Free
    <3>2. spot' \in Free
      BY <2>2, <3>1, FirstIsARow
    <3>3. spot' \in Booked(Zero) /\ stat[spot'] = 0
      BY <3>2 DEF Free, Booked, Rows
    <3> QED BY <2>3, <3>3
  <2>5. Rows'
    BY <2>2 DEF Rows
  <2> QED BY <2>1, <2>2, <2>3, <2>4, <2>5 DEF Looking, Entering, Leaving
<1>6. CASE PiUpdate
  <2>1. /\ piPc = "update" /\ piPc' = "log"
        /\ stat' = [s \in Spots |-> IF s = spot THEN inout ELSE stat[s]]
        /\ carnum' = [s \in Spots |-> IF s = spot THEN NewCarnum ELSE carnum[s]]
    BY <1>6, <1>1 DEF PiUpdate
  <2>2. Looking' /\ Entering' /\ Leaving'
    BY <2>1 DEF Looking, Entering, Leaving
  <2>3. inout \in {0, 1}
    BY DEF PiOK
  <2>4. CASE inout = 1
    <3>1. NewCarnum = number /\ \A s \in Spots : carnum[s] # number
      BY <2>1, <2>4 DEF NewCarnum, Entering, Booked
    <3>2. \A s \in Spots : s = spot => number # Zero
      BY <2>1, <2>4, GateAssumption DEF Entering, Spots
    <3> QED BY <2>1, <2>2, <2>4, <3>1, <3>2 DEF Rows
  <2>5. CASE inout = 0
    <3>1. NewCarnum = Zero
      BY <2>5 DEF NewCarnum
    <3> QED BY <2>1, <2>2, <2>5, <3>1 DEF Rows
  <2> QED BY <2>3, <2>4, <2>5
<1>7. CASE (\E c \in Cars : CarComes(c)) \/ Driver \/ Arduino
  <2>1. UNCHANGED <<stat, carnum, piPc, number, inout, spot>>
    BY <1>7 DEF CarComes, Driver, CarPasses, CarTurns, Arduino, ArdLoop, ArdLower, ArdAnswer, db, pi
  <2> QED BY <2>1, <1>2
<1>8. CASE PiGetChar
  <2>1. UNCHANGED <<stat, carnum>> /\ piPc' \notin {"search", "update"}
    BY <1>8 DEF PiGetChar, db
  <2> QED BY <2>1, <1>3
<1>9. CASE PiType
  <2>1. UNCHANGED <<stat, carnum>> /\ piPc' \notin {"search", "update"}
    BY <1>9 DEF PiType, db
  <2> QED BY <2>1, <1>3
<1>10. CASE PiLog
  <2>1. UNCHANGED <<stat, carnum>> /\ piPc' \notin {"search", "update"}
    BY <1>10 DEF PiLog
  <2> QED BY <2>1, <1>3
<1>11. CASE PiReply
  <2>1. UNCHANGED <<stat, carnum>> /\ piPc' \notin {"search", "update"}
    BY <1>11 DEF PiReply, db
  <2> QED BY <2>1, <1>3
<1>12. CASE PiTell
  <2>1. UNCHANGED <<stat, carnum>> /\ piPc' \notin {"search", "update"}
    BY <1>12 DEF PiTell, db
  <2> QED BY <2>1, <1>3
<1>13. CASE Restart
  <2>1. UNCHANGED <<stat, carnum>> /\ piPc' \notin {"search", "update"}
    BY <1>13 DEF Restart, db
  <2> QED BY <2>1, <1>3
<1>14. CASE UNCHANGED vars
  BY <1>2, <1>14 DEF vars, db, pi
<1> QED BY <1>4, <1>5, <1>6, <1>7, <1>8, <1>9, <1>10, <1>11, <1>12, <1>13, <1>14
        DEF Next, RaspberryPi

\* Unless a query fails, a plate has one row at most and STATUS and CARNUM say
\* the same, whatever is misread, lost or restarted.
THEOREM RowsSound == Spec => []OneRowPerCar
<1>1. Init => RowsInv
  BY DEF Init, RowsInv, Rows, Looking, Entering, Leaving
<1>2. RowsInv => OneRowPerCar
  BY DEF RowsInv, Rows, OneRowPerCar
<1> QED BY <1>1, <1>2, RowsInvStep, GateTypes, PTL DEF Spec
-----------------------------------------------------------------------------
(***************************************************************************)
(* What a spot was told agrees with its row, but for the spot whose row has *)
(* just been written; that one is told before the Pi is idle again, or the  *)
(* Pi has ended.                                                            *)
(***************************************************************************)
Telling == {"log", "reply", "tell"}
Agrees(s) == told[s][1] = stat[s] /\ (stat[s] = 1 => told[s][2] = carnum[s])
Written(s) == stat[s] = inout /\ (inout = 1 => carnum[s] = number)
ToldRows ==
  \A s \in Spots : \/ Agrees(s)
                   \/ s = spot /\ piPc \in Telling \cup {"dead"}
RowWritten == piPc \in Telling => \A s \in Spots : s = spot => Written(s)
ToldInv == Without({"query", "restart"}) => ToldRows /\ RowWritten

\* A fault of a set stays on record.
LEMMA OnRecordOf ==
  ASSUME faults \subseteq Faults, [Next]_vars
  PROVE  /\ \A K : Without(K)' => Without(K)
         /\ \A K : \A k \in K : Fault(k) => ~Without(K)'
<1>1. faults \subseteq faults'
  BY FaultsGrow
<1>2. \A K : Without(K)' => Without(K)
  BY <1>1 DEF Without
<1>3. \A K : \A k \in K : Fault(k) => ~Without(K)'
  BY DEF Fault, Without
<1> QED BY <1>2, <1>3

LEMMA ToldStep == TypeOK /\ ToldInv /\ [Next]_vars => ToldInv'
<1> SUFFICES ASSUME TypeOK, [Next]_vars, Without({"query", "restart"})', ToldRows, RowWritten
             PROVE  ToldRows' /\ RowWritten'
  BY OnRecordOf DEF ToldInv, TypeOK
<1>1. ~Fault("query") /\ ~Fault("restart")
  BY OnRecordOf DEF TypeOK
<1>2. ASSUME UNCHANGED <<stat, carnum, told, piPc, number, inout, spot>> PROVE ToldRows' /\ RowWritten'
  BY <1>2 DEF ToldRows, RowWritten, Agrees, Written
<1>3. ASSUME UNCHANGED <<stat, carnum, told>>, piPc \notin Telling \cup {"dead"},
             piPc' \notin Telling
      PROVE  ToldRows' /\ RowWritten'
  BY <1>3 DEF ToldRows, RowWritten, Agrees
<1>4. CASE (\E c \in Cars : CarComes(c)) \/ Driver \/ Arduino
  <2>1. UNCHANGED <<stat, carnum, told, piPc, number, inout, spot>>
    BY <1>4 DEF CarComes, Driver, CarPasses, CarTurns, Arduino, ArdLoop, ArdLower, ArdAnswer, db, pi
  <2> QED BY <2>1, <1>2
<1>5. CASE PiGetChar \/ PiType
  <2>1. UNCHANGED <<stat, carnum, told>> /\ piPc \in {"idle", "type"} /\ piPc' \in {"idle", "type", "inout", "dead"}
    BY <1>5 DEF PiGetChar, PiType, db
  <2> QED BY <2>1, <1>3 DEF Telling
<1>6. CASE PiInOut \/ PiSearch
  <2>1. UNCHANGED <<stat, carnum, told>> /\ piPc \in {"inout", "search"} /\ piPc' \in {"search", "update"}
    BY <1>6 DEF PiInOut, PiSearch, db
  <2> QED BY <2>1, <1>3 DEF Telling
<1>7. CASE PiUpdate
  <2>1. /\ piPc = "update" /\ piPc' = "log" /\ UNCHANGED <<told, number, inout, spot>>
        /\ stat' = [s \in Spots |-> IF s = spot THEN inout ELSE stat[s]]
        /\ carnum' = [s \in Spots |-> IF s = spot THEN NewCarnum ELSE carnum[s]]
    BY <1>1, <1>7 DEF PiUpdate
  <2>2. \A s \in Spots : Agrees(s)
    BY <2>1 DEF ToldRows, Telling
  <2>3. ToldRows'
    BY <2>1, <2>2 DEF ToldRows, Agrees, Telling
  <2>4. RowWritten'
    BY <2>1 DEF RowWritten, Written, NewCarnum
  <2> QED BY <2>3, <2>4
<1>8. CASE PiLog \/ PiReply
  <2>1. /\ UNCHANGED <<stat, carnum, told, number, inout, spot>>
        /\ piPc \in {"log", "reply"} /\ piPc' \in {"reply", "tell"}
    BY <1>8 DEF PiLog, PiReply, db
  <2> QED BY <2>1 DEF ToldRows, RowWritten, Agrees, Written, Telling
<1>9. CASE PiTell
  <2>1. UNCHANGED <<stat, carnum, number, inout, spot>> /\ piPc = "tell" /\ piPc' \in {"idle", "dead"}
    BY <1>9 DEF PiTell, db
  <2>2. RowWritten'
    BY <2>1 DEF RowWritten, Telling
  <2>3. CASE piPc' = "dead" /\ UNCHANGED told
    <3>1. ToldRows'
      BY <2>1, <2>3 DEF ToldRows, Agrees
    <3> QED BY <2>2, <3>1
  <2>4. CASE told' = [s \in Spots |-> IF s = spot THEN Message ELSE told[s]]
    <3>1. \A s \in Spots : s = spot => told'[s] = <<inout, number>> /\ Written(s)
      BY <2>1, <2>4 DEF RowWritten, Telling, Message
    <3>2. \A s \in Spots : s # spot => told'[s] = told[s] /\ Agrees(s)
      BY <2>1, <2>4 DEF ToldRows
    <3>3. \A s \in Spots : Agrees(s)'
      BY <2>1, <3>1, <3>2 DEF Agrees, Written
    <3> QED BY <2>2, <3>3 DEF ToldRows
  <2> QED BY <1>9, <2>3, <2>4 DEF PiTell
<1>10. CASE Restart
  BY <1>1, <1>10 DEF Restart
<1>11. CASE UNCHANGED vars
  BY <1>2, <1>11 DEF vars, db, pi
<1> QED BY <1>4, <1>5, <1>6, <1>7, <1>8, <1>9, <1>10, <1>11 DEF Next, RaspberryPi

\* Whenever the Pi waits for a car, each spot was last told what its row says
\* (Blocking_Raspberry.cpp:561-569), for any cars and spots and whatever is misread.
THEOREM SpotsAreTold == Spec => []SpotsTold
<1>1. Init => ToldInv
  BY DEF Init, ToldInv, ToldRows, RowWritten, Agrees, Telling
<1>2. ToldInv => SpotsTold
  BY DEF ToldInv, ToldRows, SpotsTold, Agrees, Telling
<1> QED BY <1>1, <1>2, ToldStep, GateTypes, PTL DEF Spec
-----------------------------------------------------------------------------
(***************************************************************************)
(* The last log row of a plate says where it is, but for the plate whose    *)
(* row has just been written.                                               *)
(***************************************************************************)
Logged(c) == \A s \in Spots : carnum[s] = c <=> logged[c] = <<1, s>>
LogRows == \A c \in Cars : Logged(c) \/ (c = number /\ piPc = "log")
ToLog == piPc = "log" /\ number \in Cars =>
           \A s \in Spots : carnum[s] = number <=> (inout = 1 /\ s = spot)
LogInv == Without({"query", "restart"}) => LogRows /\ ToLog

LEMMA LogStep == TypeOK /\ RowsInv /\ LogInv /\ [Next]_vars => LogInv'
<1> SUFFICES ASSUME TypeOK, RowsInv, [Next]_vars, Without({"query", "restart"})', LogRows, ToLog
             PROVE  LogRows' /\ ToLog'
  BY OnRecordOf DEF LogInv, TypeOK
<1>1. ~Fault("query") /\ ~Fault("restart")
  BY OnRecordOf DEF TypeOK
<1>2. ASSUME UNCHANGED <<carnum, logged, piPc, number, inout, spot>> PROVE LogRows' /\ ToLog'
  BY <1>2 DEF LogRows, ToLog, Logged
<1>3. ASSUME UNCHANGED <<carnum, logged>>, piPc # "log", piPc' # "log" PROVE LogRows' /\ ToLog'
  BY <1>3 DEF LogRows, ToLog, Logged
<1>4. CASE (\E c \in Cars : CarComes(c)) \/ Driver \/ Arduino
  <2>1. UNCHANGED <<carnum, logged, piPc, number, inout, spot>>
    BY <1>4 DEF CarComes, Driver, CarPasses, CarTurns, Arduino, ArdLoop, ArdLower, ArdAnswer, db, pi
  <2> QED BY <2>1, <1>2
<1>5. CASE PiGetChar \/ PiType \/ PiInOut \/ PiSearch
  <2>1. UNCHANGED <<carnum, logged>> /\ piPc # "log" /\ piPc' # "log"
    BY <1>5 DEF PiGetChar, PiType, PiInOut, PiSearch, db
  <2> QED BY <2>1, <1>3
<1>6. CASE PiUpdate
  <2>1. /\ piPc = "update" /\ piPc' = "log" /\ UNCHANGED <<logged, number, inout, spot>>
        /\ carnum' = [s \in Spots |-> IF s = spot THEN NewCarnum ELSE carnum[s]]
    BY <1>1, <1>6 DEF PiUpdate
  <2>2. Rows /\ Entering /\ Leaving
    <3>1. Without({"query"})
      BY OnRecordOf DEF Without, TypeOK
    <3> QED BY <3>1 DEF RowsInv
  <2>3. \A c \in Cars : Logged(c)
    BY <2>1 DEF LogRows
  <2>4. inout \in {0, 1} /\ carnum \in [Spots -> Numbers]
    BY DEF TypeOK, PiOK, DbOK
  <2>5. CASE inout = 1
    <3>1. \A s \in Spots : carnum[s] # number
      BY <2>1, <2>2, <2>5 DEF Entering, Booked
    <3>2. \A s \in Spots : s = spot => carnum[s] = Zero /\ carnum'[s] = number
      BY <2>1, <2>2, <2>5, GateAssumption DEF Entering, Rows, NewCarnum, Spots
    <3>3. \A s \in Spots : s # spot => carnum'[s] = carnum[s]
      BY <2>1
    <3>4. \A c \in Cars : c # Zero
      BY GateAssumption
    <3>5. ToLog'
      BY <2>1, <2>5, <3>1, <3>2, <3>3 DEF ToLog
    <3>6. \A c \in Cars : c # number => \A s \in Spots : carnum'[s] = c <=> carnum[s] = c
      BY <3>2, <3>3, <3>4
    <3>7. LogRows'
      BY <2>1, <2>3, <3>6 DEF LogRows, Logged
    <3> QED BY <3>5, <3>7
  <2>6. CASE inout = 0
    <3>1. spot \in Spots /\ carnum[spot] = number
      BY <2>1, <2>2, <2>6 DEF Leaving, Booked
    <3>2. carnum'[spot] = Zero /\ \A s \in Spots : s # spot => carnum'[s] = carnum[s]
      BY <2>1, <2>6, <3>1 DEF NewCarnum
    <3>3. \A c \in Cars : c # Zero
      BY GateAssumption
    <3>4. number \in Cars => \A s \in Spots : carnum'[s] # number
      <4> SUFFICES ASSUME number \in Cars, NEW s \in Spots PROVE carnum'[s] # number
        OBVIOUS
      <4>1. CASE s = spot
        BY <3>2, <3>3, <4>1
      <4>2. CASE s # spot
        BY <2>2, <3>1, <3>2, <3>3, <4>2 DEF Rows
      <4> QED BY <4>1, <4>2
    <3>5. ToLog'
      BY <2>1, <2>6, <3>4 DEF ToLog
    <3>6. \A c \in Cars : c # number => \A s \in Spots : carnum'[s] = c <=> carnum[s] = c
      BY <3>1, <3>2, <3>3
    <3>7. LogRows'
      BY <2>1, <2>3, <3>6 DEF LogRows, Logged
    <3> QED BY <3>5, <3>7
  <2> QED BY <2>4, <2>5, <2>6
<1>7. CASE PiLog
  <2>1. /\ piPc = "log" /\ piPc' = "reply" /\ UNCHANGED carnum
        /\ logged' = [logged EXCEPT ![number] = <<inout, spot>>]
    BY <1>1, <1>7 DEF PiLog
  <2>2. logged \in [Numbers -> {0, 1} \X (Spots \cup {NoSpot})] /\ number \in Numbers
    BY DEF TypeOK, DbOK, PiOK
  <2>3. \A c \in Cars : c # number => logged'[c] = logged[c]
    BY <2>1, <2>2 DEF Numbers
  <2>4. \A c \in Cars : c # number => Logged(c)'
    BY <2>1, <2>3 DEF LogRows, Logged
  <2>5. number \in Cars => Logged(number)'
    <3>1. logged'[number] = <<inout, spot>>
      BY <2>1, <2>2
    <3>2. number' = number
      BY <1>7 DEF PiLog
    <3> QED BY <2>1, <3>1, <3>2 DEF ToLog, Logged
  <2>6. \A c \in Cars : Logged(c)'
    <3>1. number' = number
      BY <1>7 DEF PiLog
    <3> QED BY <2>4, <2>5, <3>1 DEF Logged
  <2> QED BY <2>1, <2>6 DEF LogRows, ToLog
<1>8. CASE PiReply \/ PiTell
  <2>1. UNCHANGED <<carnum, logged>> /\ piPc # "log" /\ piPc' # "log"
    BY <1>8 DEF PiReply, PiTell, db
  <2> QED BY <2>1, <1>3
<1>9. CASE Restart
  BY <1>1, <1>9 DEF Restart
<1>10. CASE UNCHANGED vars
  BY <1>2, <1>10 DEF vars, db, pi
<1> QED BY <1>4, <1>5, <1>6, <1>7, <1>8, <1>9, <1>10 DEF Next, RaspberryPi

\* And the log agrees with now_stat (Blocking_Raspberry.cpp:510-521).
THEOREM LogIsSound == Spec => []LogAgrees
<1>1. Init => LogInv /\ RowsInv
  BY GateAssumption DEF Init, LogInv, LogRows, ToLog, Logged, Numbers, Spots, RowsInv, Rows, Looking,
     Entering, Leaving
<1>2. LogInv => LogAgrees
  BY DEF LogInv, LogRows, LogAgrees, Logged
<1> QED BY <1>1, <1>2, LogStep, RowsInvStep, GateTypes, PTL DEF Spec
-----------------------------------------------------------------------------
(***************************************************************************)
(* Arduino and Pi take turns: while the Arduino waits there is at most one *)
(* of an "S", a job of the Pi and an answer, and otherwise there is none.  *)
(***************************************************************************)
Busy == piPc \in {"type", "inout", "search", "update", "log", "reply"}
Order ==
  /\ status = "HIGH" => barrier = 0 /\ lcd = "ready"
  /\ ardPc = "wait" => status = "HIGH"
  /\ ardPc # "wait" => toPi = <<>> /\ toArd = <<>> /\ ~Busy
  /\ toPi # <<>> => Tail(toPi) = <<>> /\ toArd = <<>> /\ ~Busy
  /\ Busy => toArd = <<>>
  /\ toArd # <<>> => Tail(toArd) = <<>>
  /\ ardPc = "lower" => lcd = "ready"

\* Appending to an empty line leaves one entry in it.
LEMMA OneEntry == \A e : /\ Append(<<>>, e) # <<>> /\ Tail(Append(<<>>, e)) = <<>>
                         /\ Head(Append(<<>>, e)) = e
OBVIOUS

LEMMA OrderStep == TypeOK /\ Order /\ [Next]_vars => Order'
<1> SUFFICES ASSUME TypeOK, Order, [Next]_vars PROVE Order'
  OBVIOUS
<1> USE DEF Order, Busy
<1>1. CASE \E c \in Cars : CarComes(c)
  BY <1>1 DEF CarComes, ard, pi
<1>2. CASE Driver
  BY <1>2 DEF Driver, CarPasses, CarTurns, ard, pi
<1>3. CASE ArdLoop
  <2>1. PICK d \in Distance : ArdDetect(d) \/ ArdClear(d)
    BY <1>3 DEF ArdLoop
  <2>2. CASE ArdDetect(d)
    BY <1>3, <2>2, OneEntry DEF ArdLoop, ArdDetect, pi
  <2>3. CASE ArdClear(d)
    BY <1>3, <2>3 DEF ArdLoop, ArdClear, pi
  <2> QED BY <2>1, <2>2, <2>3
<1>4. CASE ArdLower
  BY <1>4 DEF ArdLower, pi, TypeOK, ArdOK
<1>5. CASE ArdAnswer
  BY <1>5 DEF ArdAnswer, pi
<1>6. CASE PiGetChar
  BY <1>6 DEF PiGetChar, ard
<1>7. CASE PiType \/ PiSearch
  BY <1>7 DEF PiType, PiSearch, ard
<1>8. CASE PiInOut
  BY <1>8 DEF PiInOut, ard
<1>9. CASE PiUpdate \/ PiLog
  BY <1>9 DEF PiUpdate, PiLog, ard
<1>10. CASE PiReply
  BY <1>10, OneEntry DEF PiReply, ard
<1>11. CASE PiTell
  BY <1>11 DEF PiTell, ard
<1>12. CASE Restart
  BY <1>12 DEF Restart
<1>13. CASE UNCHANGED vars
  BY <1>13 DEF vars, ard, pi
<1> QED BY <1>1, <1>2, <1>3, <1>4, <1>5, <1>6, <1>7, <1>8, <1>9, <1>10, <1>11, <1>12, <1>13
        DEF Next, Arduino, RaspberryPi

(***************************************************************************)
(* And what they are about is the car in front.                            *)
(***************************************************************************)
Fresh ==
  Without({"plate", "picture", "echo"}) =>
    /\ ardPc = "wait" => front # NoCar
    /\ front # NoCar => picture = front
    /\ Busy => number = front
    /\ toArd # <<>> => Head(toArd)[2] = front

LEMMA FreshStep == TypeOK /\ Order /\ Fresh /\ [Next]_vars => Fresh'
<1> SUFFICES ASSUME TypeOK, Order, [Next]_vars, Without({"plate", "picture", "echo"})',
                    Without({"plate", "picture", "echo"}), Fresh
             PROVE  Fresh'
  BY OnRecord DEF Fresh, TypeOK
<1>1. ~Fault("plate") /\ ~Fault("picture") /\ ~Fault("echo")
  <2>1. \A k \in {"plate", "picture", "echo"} : Without({"plate", "picture", "echo"})' => Without({k})'
    BY DEF Without
  <2> QED BY <2>1, OnRecord DEF TypeOK
<1>2. toArd # <<>> \/ Busy => ardPc = "wait"
  BY DEF Order
<1> USE DEF Fresh, Busy
<1>3. CASE \E c \in Cars : CarComes(c)
  BY <1>1, <1>2, <1>3, GateAssumption DEF CarComes, ard, pi
<1>4. CASE Driver
  <2>1. ardPc # "wait"
    BY <1>4 DEF Driver, CarPasses, CarTurns, Order
  <2> QED BY <1>2, <1>4, <2>1 DEF Driver, CarPasses, CarTurns, ard, pi
<1>5. CASE ArdLoop
  <2>1. PICK d \in Distance : ArdDetect(d) \/ ArdClear(d)
    BY <1>5 DEF ArdLoop
  <2>2. CASE ArdDetect(d)
    <3>1. d # 0
      BY <1>1, <2>2 DEF ArdDetect
    <3>2. front # NoCar
      BY <2>2, <3>1 DEF ArdDetect, Distance
    <3> QED BY <1>5, <2>2, <3>2 DEF ArdLoop, ArdDetect, pi, env
  <2>3. CASE ArdClear(d)
    BY <1>5, <2>3 DEF ArdLoop, ArdClear, pi, env
  <2> QED BY <2>1, <2>2, <2>3
<1>6. CASE ArdLower
  BY <1>6 DEF ArdLower, pi, env
<1>7. CASE ArdAnswer
  BY <1>7 DEF ArdAnswer, Order, pi, env
<1>8. CASE PiGetChar
  <2>1. ardPc = "wait"
    BY <1>8 DEF PiGetChar, Order
  <2> QED BY <1>1, <1>8, <2>1 DEF PiGetChar, ard, env
<1>9. CASE PiType \/ PiSearch
  BY <1>9 DEF PiType, PiSearch, ard, env
<1>10. CASE PiInOut
  BY <1>10 DEF PiInOut, ard, env
<1>11. CASE PiUpdate \/ PiLog
  BY <1>11 DEF PiUpdate, PiLog, ard, env
<1>12. CASE PiReply
  <2>1. toArd' = <<<<inout, number, type, spot>>>> /\ number = front
    BY <1>12 DEF PiReply, Order
  <2> QED BY <1>12, <2>1 DEF PiReply, ard, env
<1>13. CASE PiTell
  BY <1>13 DEF PiTell, ard, env
<1>14. CASE Restart
  BY <1>14 DEF Restart, env
<1>15. CASE UNCHANGED vars
  BY <1>15 DEF vars, ard, pi, env
<1> QED BY <1>3, <1>4, <1>5, <1>6, <1>7, <1>8, <1>9, <1>10, <1>11, <1>12, <1>13, <1>14, <1>15
        DEF Next, Arduino, RaspberryPi

LEMMA OrderInit == Init => Order /\ Fresh
BY DEF Init, Order, Fresh, Busy

\* An answer that reaches the Arduino is about the car in front of it, also
\* after images that could not be read, cars in a hurry and restarts.
THEOREM AnswerMeetsItsCar == Spec => []AnswerForFront
<1>1. Fresh => AnswerForFront
  BY DEF Fresh, AnswerForFront
<1> QED BY <1>1, OrderInit, OrderStep, FreshStep, GateTypes, PTL DEF Spec
-----------------------------------------------------------------------------
(***************************************************************************)
(* A day without faults, with a spot for every car.                        *)
(***************************************************************************)
Roomy == Faults = {} /\ Cardinality(Cars) <= NSpot

\* A car that has no row finds a free one: if all were taken, the other cars
\* would fill more rows than there are of them.
LEMMA FreeRow ==
  ASSUME Roomy, DbOK, Rows, NEW c \in Cars, Booked(c) = {}
  PROVE  Free # {}
<1> SUFFICES ASSUME Free = {} PROVE FALSE
  OBVIOUS
<1> DEFINE Others == Cars \ {c}
<1>1. IsFiniteSet(Cars) /\ Cardinality(Cars) \in Nat
  BY GateAssumption, FS_CardinalityType
<1>2. IsFiniteSet(Others) /\ Cardinality(Others) = Cardinality(Cars) - 1
  BY <1>1, FS_RemoveElement
<1>3. IsFiniteSet(Spots) /\ Cardinality(Spots) = NSpot
  BY GateAssumption, FS_Interval DEF Spots
<1>4. Cardinality(Others) < Cardinality(Spots)
  BY <1>1, <1>2, <1>3, GateAssumption DEF Roomy
<1>5. carnum \in [Spots -> Others]
  <2>1. \A s \in Spots : carnum[s] # Zero /\ carnum[s] # c
    BY DEF Free, Booked, Rows, DbOK
  <2> QED BY <2>1 DEF DbOK, Numbers
<1>6. \E s, t \in Spots : s # t /\ carnum[s] = carnum[t]
  BY <1>2, <1>3, <1>4, <1>5, FS_PigeonHole
<1>7. \A s \in Spots : carnum[s] # Zero
  BY <1>5, GateAssumption
<1> QED BY <1>6, <1>7 DEF Rows

\* What the answer for a car makes of the barrier: no car is refused.
LEMMA Longer ==
  ASSUME NEW V, NEW p \in Seq(V), NEW q \in Seq(V)
  PROVE  /\ p \o q \in Seq(V) /\ Len(p \o q) = Len(p) + Len(q)
         /\ \A k \in 1..Len(p) : (p \o q)[k] = p[k]
         /\ \A k \in 1..Len(q) : (p \o q)[Len(p) + k] = q[k]
OBVIOUS

LEMMA NotRefused ==
  ASSUME NEW a \in Answers, a[2] \in Cars
  PROVE  ~Refused(Fields(a))
<1>1. PICK n \in Numbers, i \in {0, 1}, t \in {-1} \cup 1..3, s \in Spots \cup {NoSpot} : a = <<i, n, t, s>>
  BY DEF Answers
<1>2. n # Zero /\ n # -1
  BY <1>1, GateAssumption
<1> DEFINE V == {i, n, t, s}
           p == <<i>> \o <<n>>
           q == p \o <<t>>
           r == q \o Unless(NoSpot, s)
<1>3. <<i>> \in Seq(V) /\ <<n>> \in Seq(V) /\ <<t>> \in Seq(V) /\ Unless(NoSpot, s) \in Seq(V)
  <2>1. \A x \in V : <<x>> \in Seq(V)
    OBVIOUS
  <2>2. i \in V /\ n \in V /\ t \in V /\ s \in V /\ <<>> \in Seq(V)
    OBVIOUS
  <2> HIDE DEF V
  <2> QED BY <2>1, <2>2 DEF Unless
<1>4. p \in Seq(V) /\ Len(p) = 2 /\ p[2] = n
  <2>1. Len(<<i>>) = 1 /\ Len(<<n>>) = 1 /\ <<n>>[1] = n
    OBVIOUS
  <2>2. /\ p \in Seq(V) /\ Len(p) = Len(<<i>>) + Len(<<n>>)
        /\ \A k \in 1..Len(<<n>>) : p[Len(<<i>>) + k] = <<n>>[k]
    BY <1>3, Longer
  <2> HIDE DEF p
  <2> QED BY <2>1, <2>2
<1> HIDE DEF p
<1>5. q \in Seq(V) /\ Len(q) = 3 /\ q[2] = n
  <2>1. Len(<<t>>) = 1
    OBVIOUS
  <2>2. /\ q \in Seq(V) /\ Len(q) = Len(p) + Len(<<t>>)
        /\ \A k \in 1..Len(p) : q[k] = p[k]
    BY <1>3, <1>4, Longer
  <2> HIDE DEF q
  <2> QED BY <1>4, <2>1, <2>2
<1> HIDE DEF q
<1>6. Len(r) >= 3 /\ r[2] = n
  <2>1. Len(Unless(NoSpot, s)) \in Nat
    BY <1>3
  <2> QED BY <1>3, <1>5, <2>1, Longer
<1>7. Fields(a) = r
  BY <1>1, <1>2 DEF Fields, Unless, p, q
<1> HIDE DEF r
<1> QED BY <1>2, <1>6, <1>7 DEF Refused

IsIn(c) == (c \in inside) # (c = front /\ Ahead)
Match == /\ \A c \in Cars : IsIn(c) <=> Booked(c) # {}
         /\ ardPc = "lower" => front = NoCar
         /\ lcd # "refused"
         /\ piPc = "update" => spot # NoSpot

\* The row of the car in front is the one that the update changes.
LEMMA UpdateMatches ==
  ASSUME Roomy, TypeOK, Order, Fresh, RowsInv, Match, faults = {}, PiUpdate
  PROVE  \A c \in Cars : IsIn(c)' <=> Booked(c)' # {}
<1>1. Rows /\ Entering /\ Leaving /\ Without({"plate", "picture", "echo"})
  BY DEF RowsInv, Without
<1>2. ardPc = "wait" /\ toArd = <<>> /\ barrier = 0 /\ number = front /\ front # NoCar
  BY <1>1 DEF PiUpdate, Order, Busy, Fresh
<1>3. ~Ahead /\ Ahead'
  BY <1>2 DEF Ahead, PiUpdate
<1>4. front \in Cars /\ front # Zero
  BY <1>2, GateAssumption DEF TypeOK, EnvOK
<1>5. \A c \in Cars : IsIn(c) <=> c \in inside
  BY <1>3 DEF IsIn
<1>6. \A c \in Cars : IsIn(c)' <=> (IF c = front THEN c \notin inside ELSE c \in inside)
  BY <1>3 DEF IsIn, PiUpdate, env
<1>7. UNCHANGED faults
  BY FaultsGrow DEF Roomy, TypeOK, Next, RaspberryPi
<1>8. carnum' = [s \in Spots |-> IF s = spot THEN NewCarnum ELSE carnum[s]]
  BY <1>7 DEF PiUpdate, Fault, Roomy
<1>9. \A c : Booked(c)' = {s \in Spots : carnum'[s] = c}
  BY DEF Booked
<1>10. inout \in {0, 1} /\ spot \in Spots \cup {NoSpot}
  BY DEF TypeOK, PiOK
<1>11. CASE inout = 1
  <2>1. Booked(front) = {} /\ NewCarnum = front
    BY <1>1, <1>2, <1>11 DEF Entering, NewCarnum, PiUpdate
  <2>2. spot \in Spots /\ carnum[spot] = Zero
    BY <1>1, <1>2, <1>10, <1>11 DEF Match, PiUpdate, Entering, Rows
  <2>3. \A c \in Cars : Booked(c)' # {} <=> c = front \/ Booked(c) # {}
    <3> SUFFICES ASSUME NEW c \in Cars PROVE Booked(c)' # {} <=> c = front \/ Booked(c) # {}
      OBVIOUS
    <3>1. CASE c = front
      <4>1. carnum'[spot] = c
        BY <1>8, <2>1, <2>2, <3>1
      <4> QED BY <1>9, <2>2, <3>1, <4>1
    <3>2. CASE c # front
      <4>1. \A s \in Spots : carnum'[s] = c <=> carnum[s] = c
        BY <1>8, <2>1, <2>2, <3>2, GateAssumption
      <4> QED BY <1>9, <3>2, <4>1 DEF Booked
    <3> QED BY <3>1, <3>2
  <2>4. front \notin inside
    BY <1>4, <1>5, <2>1 DEF Match
  <2> QED BY <1>5, <1>6, <2>3, <2>4 DEF Match
<1>12. CASE inout = 0
  <2>1. spot \in Booked(front) /\ NewCarnum = Zero
    BY <1>1, <1>2, <1>12 DEF Leaving, NewCarnum, PiUpdate
  <2>2. \A s \in Spots : carnum[s] = front => s = spot
    BY <1>1, <1>4, <2>1 DEF Rows, Booked
  <2>3. \A c \in Cars : Booked(c)' # {} <=> c # front /\ Booked(c) # {}
    <3> SUFFICES ASSUME NEW c \in Cars PROVE Booked(c)' # {} <=> c # front /\ Booked(c) # {}
      OBVIOUS
    <3>1. \A s \in Spots : carnum'[s] = c <=> carnum[s] = c /\ c # front
      BY <1>8, <2>1, <2>2, GateAssumption DEF Booked
    <3> QED BY <1>9, <3>1 DEF Booked
  <2>4. front \in inside
    BY <1>4, <1>5, <2>1 DEF Match
  <2> QED BY <1>5, <1>6, <2>3, <2>4 DEF Match
<1> QED BY <1>10, <1>11, <1>12

\* Every other step leaves the rows alone, or moves the car in front as its row
\* has it.
LEMMA MatchStep ==
  ASSUME Roomy, TypeOK, Order, Fresh, RowsInv, Match, faults = {}, [Next]_vars
  PROVE  Match'
<1>1. (\A k : ~Fault(k)) /\ UNCHANGED faults
  BY FaultsGrow DEF Roomy, TypeOK, Fault
<1>2. /\ ardPc = "lower" => front = NoCar
      /\ lcd # "refused"
      /\ piPc = "update" => spot # NoSpot
      /\ \A c \in Cars : IsIn(c) <=> Booked(c) # {}
  BY DEF Match
<1>3. Rows /\ Looking /\ Entering /\ Leaving
  BY DEF RowsInv, Without
<1>4. /\ Busy => number = front
      /\ ardPc = "wait" => front # NoCar
      /\ toArd # <<>> => Head(toArd)[2] = front
  BY DEF Fresh, Without
<1>5. ASSUME UNCHANGED <<carnum, inside, front>>, front # NoCar => Ahead' = Ahead
      PROVE  \A c \in Cars : IsIn(c)' <=> Booked(c)' # {}
  <2>1. \A c : Booked(c)' = Booked(c)
    BY <1>5 DEF Booked
  <2>2. \A c \in Cars : IsIn(c)' = IsIn(c)
    BY <1>5, GateAssumption DEF IsIn
  <2> QED BY <1>2, <2>1, <2>2
<1>6. CASE \E c \in Cars : CarComes(c)
  <2>1. PICK d \in Cars : CarComes(d)
    BY <1>6
  <2>2. GateClosed /\ front = NoCar /\ UNCHANGED <<inside, ard, toPi, toArd, pi, db>>
    BY <1>1, <2>1 DEF CarComes
  <2>3. ~Ahead'
    BY <2>2 DEF Ahead, GateClosed, Order, Busy, ard, pi
  <2>4. \A c \in Cars : IsIn(c)' <=> IsIn(c)
    BY <2>2, <2>3, GateAssumption DEF IsIn
  <2>5. \A c : Booked(c)' = Booked(c)
    BY <2>2 DEF Booked, db
  <2>6. ardPc' # "lower" /\ lcd' # "refused" /\ (piPc' = "update" => spot' # NoSpot)
    BY <1>2, <2>2 DEF ard, pi, GateClosed
  <2> QED BY <1>2, <2>4, <2>5, <2>6 DEF Match
<1>7. CASE CarPasses
  <2>1. Ahead /\ front' = NoCar /\ front # NoCar /\ UNCHANGED <<ard, pi, db>>
    BY <1>7 DEF CarPasses, Ahead
  <2>2. \A c \in Cars : c \in inside' <=> IsIn(c)
    BY <1>7, <2>1 DEF CarPasses, IsIn
  <2>3. \A c \in Cars : IsIn(c)' <=> c \in inside'
    BY <2>1, GateAssumption DEF IsIn
  <2>4. \A c : Booked(c)' = Booked(c)
    BY <2>1 DEF Booked, db
  <2> QED BY <1>2, <2>1, <2>2, <2>3, <2>4 DEF Match, ard, pi
<1>8. CASE CarTurns
  BY <1>2, <1>8 DEF CarTurns
<1>9. CASE ArdLoop
  <2>1. PICK d \in Distance : ArdDetect(d) \/ ArdClear(d)
    BY <1>9 DEF ArdLoop
  <2>2. ardPc' = "lower" => front = NoCar
    BY <2>1 DEF ArdDetect, ArdClear, Distance
  <2>3. Ahead' = Ahead /\ lcd' # "refused"
    BY <1>2, <1>9, <2>1 DEF ArdLoop, ArdDetect, ArdClear, Ahead, pi
  <2>4. UNCHANGED <<env, pi, db>>
    BY <1>9 DEF ArdLoop
  <2> QED BY <1>2, <1>5, <2>2, <2>3, <2>4 DEF Match, env, pi, db
<1>10. CASE ArdLower
  <2>1. front = NoCar /\ UNCHANGED <<env, pi, db>> /\ ardPc' = "loop" /\ lcd' = lcd
    BY <1>2, <1>10 DEF ArdLower
  <2> QED BY <1>2, <1>5, <2>1 DEF Match, env, pi, db
<1>11. CASE ArdAnswer
  <2>1. Head(toArd) \in Answers /\ Head(toArd)[2] \in Cars
    <3>1. toArd # <<>> /\ front \in Cars
      BY <1>4, <1>11 DEF ArdAnswer, TypeOK, EnvOK
    <3> QED BY <1>4, <3>1, Popped DEF TypeOK, LinesOK
  <2>2. lcd' = "go" /\ barrier' = 90 /\ ardPc' = "loop" /\ toArd # <<>>
    BY <1>11, <2>1, NotRefused DEF ArdAnswer
  <2>3. Ahead' /\ Ahead
    BY <2>2 DEF Ahead
  <2>4. UNCHANGED <<env, pi, db>>
    BY <1>11 DEF ArdAnswer
  <2> QED BY <1>2, <1>5, <2>2, <2>3, <2>4 DEF Match, env, pi, db
<1>12. CASE PiGetChar \/ PiType
  <2>1. UNCHANGED <<env, ard, toArd, spot, db>> /\ piPc' \in {"type", "inout"} /\ piPc \in {"idle", "type"}
    BY <1>1, <1>12 DEF PiGetChar, PiType
  <2>2. Ahead' = Ahead
    BY <2>1 DEF Ahead, ard
  <2> QED BY <1>2, <1>5, <2>1, <2>2 DEF Match, env, ard, db
<1>13. CASE PiInOut
  <2>1. /\ UNCHANGED <<env, ard, toArd, db>> /\ piPc' \in {"update", "search"} /\ piPc = "inout"
        /\ piPc' = "update" => Booked(number) # {} /\ spot' = First(Booked(number))
    BY <1>1, <1>13 DEF PiInOut
  <2>2. Ahead' = Ahead
    BY <2>1 DEF Ahead, ard
  <2>3. piPc' = "update" => spot' # NoSpot
    <3>1. Booked(number) \subseteq Spots
      BY DEF Booked
    <3> QED BY <2>1, <3>1, FirstIsARow, GateAssumption DEF Spots
  <2> QED BY <1>2, <1>5, <2>1, <2>2, <2>3 DEF Match, env, ard, db
<1>14. CASE PiSearch
  <2>1. /\ UNCHANGED <<env, ard, toArd, db>> /\ piPc' = "update" /\ piPc = "search"
        /\ spot' = IF Free # {} THEN First(Free) ELSE spot
    BY <1>1, <1>14 DEF PiSearch
  <2>2. Ahead' = Ahead
    BY <2>1 DEF Ahead, ard
  <2>3. number \in Cars /\ Booked(number) = {}
    <3>1. ardPc = "wait"
      BY <2>1 DEF Order, Busy
    <3> QED BY <1>3, <1>4, <2>1, <3>1 DEF Busy, Looking, TypeOK, EnvOK
  <2>4. Free # {} /\ Free \subseteq Spots
    BY <1>3, <2>3, FreeRow DEF Free, TypeOK
  <2>5. spot' # NoSpot
    BY <2>1, <2>4, FirstIsARow, GateAssumption DEF Spots
  <2> QED BY <1>2, <1>5, <2>1, <2>2, <2>5 DEF Match, env, ard, db
<1>15. CASE PiUpdate
  <2>1. UNCHANGED <<env, ard>> /\ piPc' = "log"
    BY <1>15 DEF PiUpdate
  <2> QED BY <1>2, <1>15, <2>1, UpdateMatches DEF Match, env, ard
<1>16. CASE PiLog \/ PiReply
  <2>1. UNCHANGED <<env, ard, stat, carnum>> /\ piPc' \in {"reply", "tell"}
    BY <1>16 DEF PiLog, PiReply, db
  <2>2. Ahead' /\ Ahead
    BY <1>16, OneEntry DEF PiLog, PiReply, Ahead, Order, Busy
  <2> QED BY <1>2, <1>5, <2>1, <2>2 DEF Match, env, ard
<1>17. CASE PiTell
  <2>1. UNCHANGED <<env, ard, toArd, db>> /\ piPc' \in {"idle", "dead"} /\ piPc = "tell"
    BY <1>17 DEF PiTell
  <2>2. Ahead' = Ahead
    BY <2>1 DEF Ahead, ard
  <2> QED BY <1>2, <1>5, <2>1, <2>2 DEF Match, env, ard, db
<1>18. CASE Restart
  BY <1>1, <1>18 DEF Restart
<1>19. CASE UNCHANGED vars
  <2>1. UNCHANGED <<env, ard, toArd, pi, db>>
    BY <1>19 DEF vars
  <2>2. Ahead' = Ahead
    BY <2>1 DEF Ahead, ard, pi
  <2> QED BY <1>2, <1>5, <2>1, <2>2 DEF Match, env, ard, pi, db
<1> QED BY <1>6, <1>7, <1>8, <1>9, <1>10, <1>11, <1>12, <1>13, <1>14, <1>15, <1>16, <1>17,
           <1>18, <1>19 DEF Next, Driver, Arduino, RaspberryPi

\* Without faults, and with a spot for every car, now_stat has a row for a car
\* exactly while it is inside, counted from its recognition at the gate.
THEOREM TableFollowsCars == Roomy => (Spec => []CarsMatchRows)
<1> SUFFICES ASSUME Roomy PROVE Spec => []CarsMatchRows
  OBVIOUS
<1>1. TypeOK => faults = {}
  BY DEF TypeOK, Roomy
<1>2. Init => RowsInv /\ Match
  BY GateAssumption DEF Init, RowsInv, Rows, Looking, Entering, Leaving, Match, IsIn, Booked
<1>3. Match => CarsMatchRows
  BY DEF Match, CarsMatchRows, IsIn, Booked
<1>4. TypeOK /\ Order /\ Fresh /\ RowsInv /\ Match /\ [Next]_vars => Match'
  BY <1>1, MatchStep
<1> QED BY <1>2, <1>3, <1>4, OrderInit, OrderStep, FreshStep, RowsInvStep, GateTypes, PTL DEF Spec
-----------------------------------------------------------------------------
(***************************************************************************)
(* Where the cars are: the spot of a car that is inside, and not on its    *)
(* way out, has the row of that car.  No recognised car is refused, so one *)
(* whose row has been freed does leave.                                    *)
(***************************************************************************)
Quiet == Without({"echo", "query", "picture", "plate"})
RowOf(c) == held[c] \in Spots => carnum[held[c]] = c
Parked == Quiet => lcd # "refused" /\ \A c \in inside \ {front} : RowOf(c)

LEMMA QuietMeans == Quiet => Without({"query"}) /\ Without({"plate", "picture", "echo"})
BY DEF Quiet, Without

\* Only the row of the car in front changes, or a free one.
LEMMA UpdateSparesOthers ==
  ASSUME TypeOK, RowsInv, Fresh, Quiet, PiUpdate, NEW c \in inside \ {front}, RowOf(c)
  PROVE  RowOf(c)'
<1> SUFFICES ASSUME held[c] \in Spots PROVE carnum'[held[c]] = c
  BY DEF RowOf, PiUpdate, env
<1>1. c \in Cars /\ carnum[held[c]] = c /\ number = front
  BY QuietMeans DEF RowOf, Fresh, Busy, PiUpdate, TypeOK, EnvOK
<1>2. Rows /\ Entering /\ Leaving
  BY QuietMeans DEF RowsInv
<1>3. spot # held[c]
  <2>1. CASE inout = 1
    <3>1. stat[held[c]] # 0
      BY <1>1, <1>2, GateAssumption DEF Rows
    <3>2. held[c] # NoSpot
      BY GateAssumption DEF Spots
    <3> QED BY <1>2, <2>1, <3>1, <3>2 DEF Entering, PiUpdate
  <2>2. CASE inout = 0
    BY <1>1, <1>2, <2>2 DEF Leaving, PiUpdate, Booked
  <2> QED BY <2>1, <2>2 DEF TypeOK, PiOK
<1> QED BY <1>1, <1>3 DEF PiUpdate

LEMMA ParkedStep == TypeOK /\ RowsInv /\ Order /\ Fresh /\ Parked /\ [Next]_vars => Parked'
<1> SUFFICES ASSUME TypeOK, RowsInv, Order, Fresh, [Next]_vars, Quiet', Quiet,
                    lcd # "refused", \A c \in inside \ {front} : RowOf(c)
             PROVE  lcd' # "refused" /\ \A c \in inside' \ {front'} : RowOf(c)'
  BY OnRecord DEF Parked, Quiet, TypeOK
<1>1. CASE \E c \in Cars : CarComes(c)
  <2>1. PICK c \in Cars : CarComes(c)
    BY <1>1
  <2>2. front = NoCar /\ NoCar \notin inside /\ UNCHANGED <<inside, held, lcd, carnum>>
    BY <2>1, GateAssumption DEF CarComes, ard, db, TypeOK, EnvOK
  <2> QED BY <2>2 DEF RowOf
<1>2. CASE CarPasses
  <2>1. front \in Cars /\ UNCHANGED <<lcd, carnum>> /\ front' = NoCar
    BY <1>2 DEF CarPasses, ard, db, TypeOK, EnvOK
  <2>2. CASE front \in inside
    <3>1. inside' = inside \ {front} /\ \A c \in Cars \ {front} : held'[c] = held[c]
      BY <1>2, <2>2 DEF CarPasses, TypeOK, EnvOK
    <3> QED BY <2>1, <3>1 DEF RowOf, TypeOK, EnvOK
  <2>3. CASE front \notin inside
    <3>1. inside' = inside \cup {front} /\ \A c \in Cars \ {front} : held'[c] = held[c]
      BY <1>2, <2>3 DEF CarPasses, TypeOK, EnvOK
    <3>2. held'[front] = IF Booked(front) # {} THEN First(Booked(front)) ELSE NoSpot
      BY <1>2, <2>1, <2>3 DEF CarPasses, TypeOK, EnvOK
    <3>3. held'[front] \in Spots => held'[front] \in Booked(front)
      <4>1. NoSpot \notin Spots /\ Booked(front) \subseteq Spots
        BY GateAssumption DEF Spots, Booked
      <4> QED BY <3>2, <4>1, FirstIsARow
    <3>4. \A c \in inside' : RowOf(c)'
      BY <2>1, <3>1, <3>3 DEF RowOf, Booked, TypeOK, EnvOK
    <3> QED BY <2>1, <3>4
  <2> QED BY <2>2, <2>3
<1>3. CASE CarTurns
  BY <1>3 DEF CarTurns
<1>4. CASE ArdLoop \/ ArdLower
  <2>1. UNCHANGED <<front, inside, held, carnum>> /\ lcd' \in {lcd, "ready"}
    BY <1>4 DEF ArdLoop, ArdDetect, ArdClear, ArdLower, env, db
  <2> QED BY <2>1 DEF RowOf
<1>5. CASE ArdAnswer
  <2>1. Head(toArd) \in Answers /\ Head(toArd)[2] = front /\ front # NoCar
    BY <1>5, QuietMeans, Popped DEF ArdAnswer, Fresh, TypeOK, LinesOK
  <2>2. Head(toArd)[2] \in Cars
    BY <2>1 DEF TypeOK, EnvOK
  <2>3. lcd' = "go"
    BY <1>5, <2>1, <2>2, NotRefused DEF ArdAnswer
  <2> QED BY <1>5, <2>3 DEF ArdAnswer, RowOf, env, db
<1>6. CASE PiUpdate
  BY <1>6, UpdateSparesOthers DEF PiUpdate, env, ard
<1>7. CASE PiGetChar \/ PiType \/ PiInOut \/ PiSearch \/ PiLog \/ PiReply \/ PiTell
  <2>1. UNCHANGED <<front, inside, held, carnum, lcd>>
    BY <1>7 DEF PiGetChar, PiType, PiInOut, PiSearch, PiLog, PiReply, PiTell, env, ard, db
  <2> QED BY <2>1 DEF RowOf
<1>8. CASE Restart
  BY <1>8 DEF Restart, RowOf, env, db
<1>9. CASE UNCHANGED vars
  BY <1>9 DEF vars, RowOf, env, ard, db
<1> QED BY <1>1, <1>2, <1>3, <1>4, <1>5, <1>6, <1>7, <1>8, <1>9
        DEF Next, Driver, Arduino, RaspberryPi

\* A spot that is booked is empty: no other car was told to park in it and is
\* still there, over any restarts, failed images, lost servers and cars that
\* follow one another (Blocking_Raspberry.cpp:363, :494).
THEOREM BooksEmptySpots == Spec => EmptySpot
<1> DEFINE Sound == TypeOK /\ RowsInv /\ Order /\ Fresh /\ Parked
<1>1. Init => RowsInv /\ Order /\ Fresh /\ Parked
  BY OrderInit DEF Init, RowsInv, Rows, Looking, Entering, Leaving, Parked
<1>2. Sound /\ [Next]_vars =>
        [\A s \in Spots : Without({"echo", "query", "picture", "plate"}) /\ Books(s)
                            => \A c \in inside \ {front} : held[c] # s]_vars
  <2> SUFFICES ASSUME Sound, [Next]_vars, Quiet, NEW s \in Spots, Books(s),
                      NEW c \in inside \ {front}, held[c] = s
               PROVE  FALSE
    BY DEF Quiet
  <2>1. stat[s] = 0 /\ c \in Cars /\ carnum[s] = c
    BY DEF Books, Parked, RowOf, TypeOK, EnvOK
  <2>2. carnum[s] = Zero
    BY <2>1, QuietMeans DEF RowsInv, Rows
  <2> QED BY <2>1, <2>2, GateAssumption
<1>3. Spec => []Sound
  BY <1>1, GateTypes, RowsInvStep, OrderStep, FreshStep, ParkedStep, PTL DEF Spec
<1> HIDE DEF Sound
<1> QED BY <1>2, <1>3, PTL DEF Spec, EmptySpot
=============================================================================
