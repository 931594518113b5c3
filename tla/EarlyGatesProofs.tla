--------------------------- MODULE EarlyGatesProofs ---------------------------
(***************************************************************************)
(* Theorems about EarlyGates, for any cars, any number of spots, any faults *)
(* and any bounds.                                                          *)
(***************************************************************************)
EXTENDS EarlyGates, WellFoundedInduction, TLAPS

(* What is needed of sequences *)

LEMMA TailOf ==
  ASSUME NEW S, NEW q \in Seq(S), q # <<>>
  PROVE  /\ Tail(q) \in Seq(S) /\ Len(q) \in Nat \ {0} /\ Len(Tail(q)) = Len(q) - 1
         /\ Head(q) = q[1] /\ Head(q) \in S
         /\ \A k \in 1..Len(Tail(q)) : Tail(q)[k] = q[k + 1]
OBVIOUS

LEMMA OneMore ==
  ASSUME NEW S, NEW q \in Seq(S), NEW a \in S
  PROVE  /\ q \o <<a>> \in Seq(S) /\ Len(q \o <<a>>) = Len(q) + 1
         /\ \A k \in 1..Len(q) : (q \o <<a>>)[k] = q[k]
         /\ (q \o <<a>>)[Len(q) + 1] = a
OBVIOUS

LEMMA TailOfOne == \A a : Tail(<<a>>) = <<>> /\ <<a>> # <<>> /\ Len(<<a>>) = 1
OBVIOUS

\* A set of spots that is not empty has a first one.
LEMMA FirstIsOne ==
  ASSUME NEW rows \in SUBSET Nat, rows # {}
  PROVE  First(rows) \in rows
<1> DEFINE Below == {ss \in Nat \X Nat : ss[1] < ss[2]}
<1>1. IsWellFoundedOn(Below, Nat)
  BY NatLessThanWellFounded DEF OpToRel
<1>2. \E s \in rows : \A t \in rows : ~(<<t, s>> \in Below)
  <2> HIDE DEF Below
  <2> QED BY <1>1, WFMin, Zenon
<1>3. PICK s \in rows : \A t \in rows : ~(<<t, s>> \in Below)
  BY <1>2
<1>4. \A t \in rows : s <= t
  <2> SUFFICES ASSUME NEW t \in rows PROVE s <= t
    OBVIOUS
  <2>1. t \in Nat /\ s \in Nat
    OBVIOUS
  <2>2. <<t, s>> \notin Below
    BY <1>3
  <2>3. ~(t < s)
    BY <2>1, <2>2
  <2> QED BY <2>1, <2>3
<1> QED BY <1>4, Zenon DEF First

-----------------------------------------------------------------------------
(***************************************************************************)
(* The order of the steps of a round, which is kept when its first steps    *)
(* are taken: what is updated was just searched for, nothing but telling    *)
(* the server comes after the answer.                                       *)
(***************************************************************************)
Ends == {"reply", "tell", "dead"}
RoundOrder(q) ==
  /\ \A k, l \in 1..Len(q) : q[k] = "search" /\ q[l] = "search" => k = l
  /\ \A k \in 2..Len(q) : q[k] = "update" => q[k - 1] = "search"
  /\ q # <<>> => q[Len(q)] \in Ends
  /\ \A k \in 1..Len(q) :
       q[k] = "reply" => k = Len(q) \/ (k + 1 = Len(q) /\ q[k + 1] = "tell")

LEMMA RoundsOrdered == \A p \in Programs : p.round \in Seq(Steps) /\ RoundOrder(p.round)
<1>1. July20Round \in Seq(Steps) /\ RoundOrder(July20Round)
  BY DEF July20Round, RoundOrder, Steps, Ends
<1>2. July20SocketRound \in Seq(Steps) /\ RoundOrder(July20SocketRound)
  BY DEF July20SocketRound, RoundOrder, Steps, Ends
<1>3. July22InOutRound \in Seq(Steps) /\ RoundOrder(July22InOutRound)
  BY DEF July22InOutRound, RoundOrder, Steps, Ends
<1>4. /\ July21Round = July20Round /\ July22Round = July20Round /\ July24Round = July20Round
      /\ July21SocketRound = July20SocketRound /\ July22SocketRound = July20SocketRound
      /\ July24SocketRound = July20SocketRound /\ July24InOutRound = July22InOutRound
  BY DEF July20Round, July21Round, July22Round, July24Round, July20SocketRound, July21SocketRound,
         July22SocketRound, July24SocketRound, July22InOutRound, July24InOutRound
<1>5. \A p \in Programs : p.round \in {July20Round, July20SocketRound, July22InOutRound}
  BY <1>4 DEF Programs, July20, July20Socket, July21, July21Socket, July22, July22Socket,
       July22InOut, July24, July24Socket, July24InOut
<1> QED BY <1>1, <1>2, <1>3, <1>5, Zenon

LEMMA OrderedTail ==
  ASSUME NEW q \in Seq(Steps), q # <<>>, RoundOrder(q)
  PROVE  RoundOrder(Tail(q))
<1> DEFINE t == Tail(q)
<1>1. /\ Len(q) \in Nat \ {0} /\ Len(t) = Len(q) - 1
      /\ \A k \in 1..Len(t) : t[k] = q[k + 1]
  BY TailOf, Zenon
<1> HIDE DEF t
<1>2. \A k \in 1..Len(t) : k + 1 \in 2..Len(q) /\ k + 1 \in 1..Len(q)
  BY <1>1
<1>3. \A k, l \in 1..Len(t) : t[k] = "search" /\ t[l] = "search" => k = l
  <2> SUFFICES ASSUME NEW k \in 1..Len(t), NEW l \in 1..Len(t), t[k] = "search", t[l] = "search"
               PROVE  k = l
    OBVIOUS
  <2>1. q[k + 1] = "search" /\ q[l + 1] = "search"
    BY <1>1
  <2>2. k + 1 = l + 1
    BY <1>2, <2>1 DEF RoundOrder
  <2> QED BY <2>2
<1>4. \A k \in 2..Len(t) : t[k] = "update" => t[k - 1] = "search"
  <2> SUFFICES ASSUME NEW k \in 2..Len(t), t[k] = "update" PROVE t[k - 1] = "search"
    OBVIOUS
  <2>1. k \in 1..Len(t) /\ k - 1 \in 1..Len(t) /\ (k - 1) + 1 = k /\ (k + 1) - 1 = k /\ k + 1 \in 2..Len(q)
    BY <1>1
  <2>2. q[k + 1] = "update" /\ t[k - 1] = q[k]
    BY <1>1, <2>1
  <2>3. q[(k + 1) - 1] = "search"
    BY <2>1, <2>2, Zenon DEF RoundOrder
  <2> QED BY <2>1, <2>2, <2>3
<1>5. t # <<>> => t[Len(t)] \in Ends
  <2> SUFFICES ASSUME t # <<>> PROVE t[Len(t)] \in Ends
    OBVIOUS
  <2>1. t \in Seq(Steps)
    BY TailOf DEF t
  <2>2. Len(t) \in 1..Len(t) /\ Len(t) + 1 = Len(q)
    BY <1>1, <2>1
  <2> QED BY <1>1, <2>2, Zenon DEF RoundOrder
<1>6. \A k \in 1..Len(t) :
        t[k] = "reply" => k = Len(t) \/ (k + 1 = Len(t) /\ t[k + 1] = "tell")
  <2> SUFFICES ASSUME NEW k \in 1..Len(t), t[k] = "reply"
               PROVE  k = Len(t) \/ (k + 1 = Len(t) /\ t[k + 1] = "tell")
    OBVIOUS
  <2>1. q[k + 1] = "reply" /\ k + 1 \in 1..Len(q)
    BY <1>1, <1>2
  <2>2. k + 1 = Len(q) \/ ((k + 1) + 1 = Len(q) /\ q[(k + 1) + 1] = "tell")
    BY <2>1, Zenon DEF RoundOrder
  <2>3. CASE k + 1 = Len(q)
    BY <1>1, <2>3
  <2>4. CASE (k + 1) + 1 = Len(q) /\ q[(k + 1) + 1] = "tell"
    <3>1. k + 1 = Len(t) /\ k + 1 \in 1..Len(t)
      BY <1>1, <2>4
    <3>2. t[k + 1] = "tell"
      BY <1>1, <2>4, <3>1
    <3> QED BY <3>1, <3>2
  <2> QED BY <2>2, <2>3, <2>4
<1>7. RoundOrder(t)
  BY <1>3, <1>4, <1>5, <1>6, Zenon DEF RoundOrder
<1> QED BY <1>7 DEF t

-----------------------------------------------------------------------------
(* The types, in four parts *)

Fields == Numbers \cup Types \cup Places \cup {0}

TypeWorld ==
  /\ program \in Programs /\ front \in Cars \cup {NoCar} /\ picture \in Cars
  /\ ardPc \in {"loop", "wait", "lower"} /\ status \in {"HIGH", "LOW"} /\ barrier \in {0, 90}
  /\ lcd \in {"ready", "go", "refused"} /\ faults \subseteq Faults
TypeLines == toPi \in Seq(OnAny) /\ toArd \in Seq(Seq(Fields))
TypeRound ==
  todo \in Seq(Steps) /\ number \in Numbers /\ type \in Types /\ inout \in {0, 1} /\ spot \in Places
TypeRows ==
  /\ stat \in [Spots -> {0, 1}] /\ carnum \in [Spots -> Numbers]
  /\ told \in [Spots -> {0, 1} \X Numbers]

LEMMA TypeParts == TypeOK <=> TypeWorld /\ TypeLines /\ TypeRound /\ TypeRows
BY DEF TypeOK, TypeWorld, TypeLines, TypeRound, TypeRows, Fields

LEMMA FaultTyped ==
  ASSUME faults \subseteq Faults, NEW kind, Fault(kind) \/ NoFault
  PROVE  faults' \subseteq Faults
BY DEF Fault, NoFault

LEMMA FieldOf ==
  ASSUME NEW empty, NEW f \in Fields
  PROVE  Unless(empty, f) \in Seq(Fields)
<1>1. <<>> \in Seq(Fields) /\ <<f>> \in Seq(Fields)
  OBVIOUS
<1> QED BY <1>1, Zenon DEF Unless

LEMMA Joined ==
  ASSUME NEW S, NEW p \in Seq(S), NEW q \in Seq(S)
  PROVE  p \o q \in Seq(S)
OBVIOUS

LEMMA AnswerTyped == TypeRound => Answer \in Seq(Fields)
<1> SUFFICES ASSUME TypeRound PROVE Answer \in Seq(Fields)
  OBVIOUS
<1>1. inout \in Fields /\ number \in Fields /\ type \in Fields /\ spot \in Fields
  BY DEF TypeRound, Fields, Types
<1>2. <<inout>> \in Seq(Fields) /\ <<type>> \in Seq(Fields)
  BY <1>1
<1>3. Unless(Zero, number) \in Seq(Fields) /\ Unless(NoSpot, spot) \in Seq(Fields)
  BY <1>1, FieldOf, Zenon
<1>4. <<inout>> \o Unless(Zero, number) \in Seq(Fields)
  BY <1>2, <1>3, Joined, Zenon
<1>5. /\ Unless(Zero, number) \o <<type>> \in Seq(Fields)
      /\ <<inout>> \o Unless(Zero, number) \o <<type>> \in Seq(Fields)
  BY <1>2, <1>3, <1>4, Joined, Zenon
<1>6. /\ Unless(Zero, number) \o <<type>> \o Unless(NoSpot, spot) \in Seq(Fields)
      /\ <<inout>> \o Unless(Zero, number) \o <<type>> \o Unless(NoSpot, spot) \in Seq(Fields)
  BY <1>3, <1>5, Joined, Zenon
<1> QED BY <1>6, Zenon DEF Answer

\* What the Arduino prints.
LEMMA PrintedTyped ==
  ASSUME TypeLines
  PROVE  Line(Printed) \in Seq(OnAny) /\ Line(Printed \o <<"S", "n">>) \in Seq(OnAny)
<1>1. Printed \in Seq(OnAny) /\ <<"S", "n">> \in Seq(OnAny) /\ toPi \in Seq(OnAny)
  <2>1. <<"n">> \in Seq(OnAny) /\ <<>> \in Seq(OnAny) /\ <<"S", "n">> \in Seq(OnAny)
    BY DEF OnAny
  <2> QED BY <2>1, Zenon DEF Printed, TypeLines
<1>2. Printed \o <<"S", "n">> \in Seq(OnAny)
  BY <1>1, Joined, Zenon
<1>3. toPi \o Printed \in Seq(OnAny) /\ toPi \o (Printed \o <<"S", "n">>) \in Seq(OnAny)
  BY <1>1, <1>2, Joined, Zenon
<1> QED BY <1>1, <1>3, Zenon DEF Line

LEMMA TypeInit == Init => TypeOK
<1> SUFFICES ASSUME Init PROVE TypeOK
  OBVIOUS
<1>1. TypeWorld
  BY DEF Init, TypeWorld
<1>2. TypeLines
  BY DEF Init, TypeLines
<1>3. TypeRound
  BY DEF Init, TypeRound, Numbers, Types, Places
<1>4. TypeRows
  BY DEF Init, TypeRows, Numbers
<1> QED BY <1>1, <1>2, <1>3, <1>4, TypeParts

LEMMA TypeNext == TypeOK /\ [Next]_vars => TypeOK'
<1> SUFFICES ASSUME TypeOK, [Next]_vars PROVE TypeOK'
  OBVIOUS
<1>0. TypeWorld /\ TypeLines /\ TypeRound /\ TypeRows
  BY TypeParts
<1>T. TypeWorld' /\ TypeLines' /\ TypeRound' /\ TypeRows' => TypeOK'
  BY DEF TypeOK, TypeWorld, TypeLines, TypeRound, TypeRows, Fields
<1> USE <1>0
<1> USE DEF env, ard, db
<1>1. ASSUME NEW c \in Cars, CarComes(c) PROVE TypeOK'
  <2>1. TypeWorld'
    BY <1>1 DEF CarComes, TypeWorld
  <2> QED BY <1>1, <1>T, <2>1 DEF CarComes, TypeLines, TypeRound, TypeRows
<1>2. CASE CarGoes
  <2>1. TypeWorld'
    BY <1>2 DEF CarGoes, TypeWorld
  <2> QED BY <1>2, <1>T, <2>1 DEF CarGoes, TypeLines, TypeRound, TypeRows
<1>3. CASE ArdLoop
  <2>1. PICK d \in Distance : ArdDetect(d) \/ ArdClear(d) \/ ArdPrint(d)
    BY <1>3 DEF ArdLoop
  <2>2. faults' \subseteq Faults
    <3>1. Fault("echo") \/ NoFault
      BY <2>1 DEF ArdDetect, ArdClear, ArdPrint, NoFault
    <3> QED BY <3>1, FaultTyped DEF TypeWorld
  <2>3. TypeWorld'
    BY <1>3, <2>1, <2>2 DEF ArdLoop, ArdDetect, ArdClear, ArdPrint, TypeWorld
  <2>4. TypeLines'
    <3>1. toPi' \in {Line(Printed), Line(Printed \o <<"S", "n">>)}
      BY <2>1, Zenon DEF ArdDetect, ArdClear, ArdPrint
    <3>2. toPi' \in Seq(OnAny)
      BY <3>1, PrintedTyped, Zenon
    <3> QED BY <1>3, <3>2 DEF ArdLoop, TypeLines
  <2> QED BY <1>3, <1>T, <2>3, <2>4 DEF ArdLoop, TypeRound, TypeRows
<1>4. CASE ArdLower
  <2>1. TypeWorld'
    BY <1>4 DEF ArdLower, TypeWorld
  <2> QED BY <1>4, <1>T, <2>1 DEF ArdLower, TypeLines, TypeRound, TypeRows
<1>5. CASE ArdAnswer
  <2>1. TypeWorld'
    BY <1>5 DEF ArdAnswer, TypeWorld
  <2>2. TypeLines'
    <3>1. toArd' \in Seq(Seq(Fields))
      BY <1>5, TailOf DEF ArdAnswer, TypeLines
    <3> QED BY <1>5, <3>1 DEF ArdAnswer, TypeLines
  <2> QED BY <1>5, <1>T, <2>1, <2>2 DEF ArdAnswer, TypeRound, TypeRows
<1>6. CASE RaspberryPi
  <2>1. CASE Look
    <3>1. faults' \subseteq Faults
      <4>1. NoFault \/ Fault("load") \/ Fault("crash") \/ Fault("plate")
        BY <2>1 DEF Look
      <4> QED BY <4>1, FaultTyped DEF TypeWorld
    <3>2. TypeWorld'
      BY <2>1, <3>1 DEF Look, TypeWorld
    <3>3. TypeLines'
      <4>1. toPi' \in Seq(OnAny)
        BY <2>1, TailOf DEF Look, Hears, TypeLines
      <4> QED BY <2>1, <4>1 DEF Look, TypeLines
    <3>4. TypeRound'
      <4>1. program.round \in Seq(Steps)
        BY RoundsOrdered DEF TypeWorld
      <4>2. <<>> \in Seq(Steps) /\ <<"dead">> \in Seq(Steps)
        BY DEF Steps
      <4>3. todo' \in {<<>>, <<"dead">>, program.round}
        BY <2>1, Zenon DEF Look
      <4>4. todo' \in Seq(Steps)
        BY <4>1, <4>2, <4>3, Zenon
      <4> QED BY <2>1, <4>4 DEF Look, TypeRound, TypeWorld, Numbers
    <3> QED BY <2>1, <1>T, <3>2, <3>3, <3>4 DEF Look, TypeRows
  <2>2. CASE Skip
    <3>1. TypeLines'
      <4>1. toPi' \in Seq(OnAny)
        BY <2>2, TailOf DEF Skip, TypeLines
      <4> QED BY <2>2, <4>1 DEF Skip, TypeLines
    <3> QED BY <2>2, <1>T, <3>1 DEF Skip, TypeWorld, TypeRound, TypeRows
  <2>3. CASE SearchType
    <3>1. faults' \subseteq Faults
      BY <2>3, FaultTyped DEF SearchType, TypeWorld
    <3>2. todo' \in Seq(Steps)
      BY <2>3, TailOf DEF SearchType, At, TypeRound
    <3>3. type' \in Types
      BY <2>3, EarlyAssumption DEF SearchType, Types
    <3> QED BY <2>3, <1>T, <3>1, <3>2, <3>3 DEF SearchType, TypeWorld, TypeLines, TypeRound, TypeRows
  <2>4. CASE CheckInOut
    <3>1. PICK found \in {Booked(number), {}} :
            /\ IF found = Booked(number) THEN NoFault ELSE Fault("query")
            /\ IF found # {}
                 THEN spot' = First(found) /\ inout' = 0 /\ todo' = Tail(Tail(todo))
                 ELSE spot' = NoSpot /\ inout' = 1 /\ todo' = Tail(todo)
      BY <2>4, Zenon DEF CheckInOut
    <3>2. faults' \subseteq Faults
      BY <3>1, FaultTyped DEF TypeWorld
    <3>3. found \in SUBSET Nat /\ found \subseteq Spots
      BY <3>1, EarlyAssumption DEF Booked, Spots
    <3>4. spot' \in Places
      BY <3>1, <3>3, FirstIsOne DEF Places
    <3>5. Tail(todo) \in Seq(Steps) /\ Tail(Tail(todo)) \in Seq(Steps)
      <4>1. Tail(<<>>) \in Seq(Steps)
        OBVIOUS
      <4> QED BY <2>4, <4>1, TailOf DEF CheckInOut, TypeRound
    <3>6. TypeRound'
      BY <2>4, <3>1, <3>4, <3>5 DEF CheckInOut, TypeRound
    <3> QED BY <2>4, <1>T, <3>2, <3>6 DEF CheckInOut, TypeWorld, TypeLines, TypeRows
  <2>5. CASE SearchSpot
    <3>1. faults' \subseteq Faults
      BY <2>5, FaultTyped DEF SearchSpot, TypeWorld
    <3>2. todo' \in Seq(Steps)
      BY <2>5, TailOf DEF SearchSpot, At, TypeRound
    <3>3. spot' \in Places
      <4>1. FreeSpots \in SUBSET Nat /\ FreeSpots \subseteq Spots
        BY EarlyAssumption DEF FreeSpots, Spots
      <4> QED BY <2>5, <4>1, FirstIsOne DEF SearchSpot, Places, TypeRound
    <3> QED BY <2>5, <1>T, <3>1, <3>2, <3>3 DEF SearchSpot, TypeWorld, TypeLines, TypeRound, TypeRows
  <2>6. CASE UpdateSpot
    <3>1. faults' \subseteq Faults
      BY <2>6, FaultTyped DEF UpdateSpot, TypeWorld
    <3>2. todo' \in Seq(Steps)
      BY <2>6, TailOf DEF UpdateSpot, At, TypeRound
    <3>3. TypeRows'
      BY <2>6 DEF UpdateSpot, TypeRows, TypeRound, Numbers
    <3> QED BY <2>6, <1>T, <3>1, <3>2, <3>3 DEF UpdateSpot, TypeWorld, TypeLines, TypeRound
  <2>7. CASE InsertLog
    <3>1. faults' \subseteq Faults
      BY <2>7, FaultTyped DEF InsertLog, TypeWorld
    <3>2. todo' \in Seq(Steps)
      BY <2>7, TailOf DEF InsertLog, At, TypeRound
    <3> QED BY <2>7, <1>T, <3>1, <3>2 DEF InsertLog, TypeWorld, TypeLines, TypeRound, TypeRows
  <2>8. CASE SendMsg
    <3>1. todo' \in Seq(Steps)
      BY <2>8, TailOf DEF SendMsg, At, TypeRound
    <3>2. TypeRound'
      BY <2>8, <3>1 DEF SendMsg, Locals, TypeRound, Types, Places
    <3>3. TypeLines'
      <4>1. toArd' \in Seq(Seq(Fields))
        BY <2>8, AnswerTyped DEF SendMsg, TypeLines
      <4> QED BY <2>8, <4>1 DEF SendMsg, TypeLines
    <3> QED BY <2>8, <1>T, <3>2, <3>3 DEF SendMsg, TypeWorld, TypeRows
  <2>9. CASE Tell
    <3>1. faults' \subseteq Faults
      BY <2>9, FaultTyped DEF Tell, TypeWorld
    <3>2. todo' \in Seq(Steps)
      <4>1. <<>> \in Seq(Steps) /\ <<"dead">> \in Seq(Steps)
        BY DEF Steps
      <4> QED BY <2>9, <4>1, Zenon DEF Tell
    <3>3. TypeRound'
      BY <2>9, <3>2 DEF Tell, Locals, TypeRound, Types, Places
    <3>4. TypeRows'
      <4>1. Message \in {0, 1} \X Numbers
        BY DEF Message, TypeRound
      <4>2. told' \in [Spots -> {0, 1} \X Numbers]
        <5>1. CASE told' = [s \in Spots |-> IF Leaves /\ s = spot THEN Message ELSE told[s]]
          <6> HIDE <1>0
          <6>1. told \in [Spots -> {0, 1} \X Numbers]
            BY <1>0 DEF TypeRows
          <6> QED BY <4>1, <5>1, <6>1, Zenon
        <5>2. CASE told' = told
          BY <5>2 DEF TypeRows
        <5> QED BY <2>9, <5>1, <5>2 DEF Tell
      <4> QED BY <2>9, <4>2 DEF Tell, TypeRows
    <3> QED BY <2>9, <1>T, <3>1, <3>3, <3>4 DEF Tell, TypeWorld, TypeLines
  <2> QED BY <1>6, <2>1, <2>2, <2>3, <2>4, <2>5, <2>6, <2>7, <2>8, <2>9 DEF RaspberryPi
<1>7. CASE Restart
  <2>1. faults' \subseteq Faults
    BY <1>7, FaultTyped DEF Restart, TypeWorld
  <2>2. TypeWorld'
    BY <1>7, <2>1 DEF Restart, TypeWorld
  <2>3. TypeRound'
    BY <1>7 DEF Restart, TypeRound, Numbers, Types, Places
  <2> QED BY <1>7, <1>T, <2>2, <2>3 DEF Restart, TypeLines, TypeRows
<1>8. CASE UNCHANGED vars
  BY <1>8, <1>T DEF vars, TypeWorld, TypeLines, TypeRound, TypeRows
<1> QED BY <1>1, <1>2, <1>3, <1>4, <1>5, <1>6, <1>7, <1>8 DEF Next, Arduino

\* The types of EarlyGates.tla hold in every behaviour.
THEOREM TypeCorrect == Spec => []TypeOK
BY TypeInit, TypeNext, PTL DEF Spec

-----------------------------------------------------------------------------
(***************************************************************************)
(* A program for entries books a spot that it has just found free: its      *)
(* rounds have no step "inout", and "spot" is empty until the search.       *)
(***************************************************************************)
NoInOut(q) == \A k \in 1..Len(q) : q[k] # "inout"
Entry ==
  /\ inout = 1 /\ NoInOut(todo)
  /\ (todo = <<>> \/ \E k \in 1..Len(todo) : todo[k] = "search") => spot = NoSpot
  /\ todo # <<>> /\ Head(todo) = "update" /\ spot \in Spots => stat[spot] = 0
Ordered == TypeOK /\ RoundOrder(todo)
Filling == Ordered /\ (~Leaves => Entry)

LEMMA SpotIsNone == NoSpot \notin Spots
BY EarlyAssumption DEF Spots

LEMMA ShortOrders == RoundOrder(<<>>) /\ RoundOrder(<<"dead">>) /\ NoInOut(<<>>) /\ NoInOut(<<"dead">>)
BY DEF RoundOrder, NoInOut, Ends

LEMMA NoInOutTail ==
  ASSUME NEW q \in Seq(Steps), q # <<>>, NoInOut(q)
  PROVE  NoInOut(Tail(q))
<1>1. /\ Len(q) \in Nat \ {0} /\ Len(Tail(q)) = Len(q) - 1
      /\ \A k \in 1..Len(Tail(q)) : Tail(q)[k] = q[k + 1]
  BY TailOf, Zenon
<1>2. \A k \in 1..Len(Tail(q)) : k + 1 \in 1..Len(q)
  BY <1>1
<1> QED BY <1>1, <1>2, Zenon DEF NoInOut

\* What the rest of a round says of the round.
LEMMA AfterTheHead ==
  ASSUME NEW q \in Seq(Steps), q # <<>>, RoundOrder(q)
  PROVE  /\ Tail(q) # <<>> /\ Head(Tail(q)) = "update" => Head(q) = "search"
         /\ (\E k \in 1..Len(Tail(q)) : Tail(q)[k] = "search")
              => Head(q) # "search" /\ \E k \in 1..Len(q) : q[k] = "search"
         /\ Head(q) = "search" => \E k \in 1..Len(q) : q[k] = "search"
         /\ Head(q) = "reply" => Tail(q) = <<>> \/ Head(Tail(q)) = "tell"
         /\ Head(q) \notin Ends => Tail(q) # <<>>
<1> DEFINE t == Tail(q)
<1>1. /\ t \in Seq(Steps) /\ Len(q) \in Nat \ {0} /\ Len(t) = Len(q) - 1 /\ Head(q) = q[1]
      /\ \A k \in 1..Len(t) : t[k] = q[k + 1]
  BY TailOf, Zenon
<1>2. t # <<>> => Len(t) \in Nat \ {0} /\ Head(t) = t[1]
  BY <1>1, TailOf, Zenon
<1>3. t = <<>> <=> Len(t) = 0
  BY <1>1
<1> HIDE DEF t
<1>4. t # <<>> /\ Head(t) = "update" => Head(q) = "search"
  <2> SUFFICES ASSUME t # <<>>, Head(t) = "update" PROVE Head(q) = "search"
    OBVIOUS
  <2>1. 1 \in 1..Len(t) /\ t[1] = "update"
    BY <1>2
  <2>2. q[1 + 1] = "update" /\ 1 + 1 \in 2..Len(q) /\ (1 + 1) - 1 = 1
    BY <1>1, <2>1
  <2>3. q[(1 + 1) - 1] = "search"
    BY <2>2, Zenon DEF RoundOrder
  <2> QED BY <1>1, <2>2, <2>3
<1>5. ASSUME NEW k \in 1..Len(t), t[k] = "search"
      PROVE  Head(q) # "search" /\ \E l \in 1..Len(q) : q[l] = "search"
  <2>1. k + 1 \in 1..Len(q) /\ 1 \in 1..Len(q) /\ k + 1 # 1 /\ q[k + 1] = "search"
    BY <1>1, <1>5
  <2>2. q[1] # "search"
    BY <2>1, Zenon DEF RoundOrder
  <2> QED BY <1>1, <2>1, <2>2, Zenon
<1>6. Head(q) = "search" => \E k \in 1..Len(q) : q[k] = "search"
  <2>1. 1 \in 1..Len(q)
    BY <1>1
  <2> QED BY <1>1, <2>1, Zenon
<1>7. Head(q) = "reply" => t = <<>> \/ Head(t) = "tell"
  <2> SUFFICES ASSUME Head(q) = "reply" PROVE t = <<>> \/ Head(t) = "tell"
    OBVIOUS
  <2>1. 1 \in 1..Len(q) /\ q[1] = "reply"
    BY <1>1
  <2>2. 1 = Len(q) \/ (1 + 1 = Len(q) /\ q[1 + 1] = "tell")
    BY <2>1, Zenon DEF RoundOrder
  <2>3. CASE 1 = Len(q)
    BY <1>1, <1>3, <2>3
  <2>4. CASE 1 + 1 = Len(q) /\ q[1 + 1] = "tell"
    <3>0. Len(t) = 1
      <4>1. 1 + 1 = Len(q) /\ Len(t) = Len(q) - 1
        BY <1>1, <2>4, Zenon
      <4> QED BY <4>1
    <3>1. 1 \in 1..Len(t) /\ t # <<>>
      <4>1. Len(t) # 0
        BY <3>0
      <4> QED BY <1>3, <3>0, <4>1
    <3> QED BY <1>1, <1>2, <2>4, <3>1
  <2> QED BY <2>2, <2>3, <2>4
<1>8. Head(q) \notin Ends => t # <<>>
  <2> SUFFICES ASSUME t = <<>> PROVE Head(q) \in Ends
    OBVIOUS
  <2>1. Len(q) = 1
    BY <1>1, <1>3
  <2> QED BY <1>1, <2>1, Zenon DEF RoundOrder
<1> QED BY <1>4, <1>5, <1>6, <1>7, <1>8, Zenon DEF t

LEMMA OrderedInit == Init => Ordered
BY TypeInit, ShortOrders DEF Init, Ordered

\* No step begins a round in the middle.
LEMMA OrderedNext == Ordered /\ [Next]_vars => Ordered'
<1> SUFFICES ASSUME Ordered, [Next]_vars PROVE RoundOrder(todo')
  BY TypeNext DEF Ordered
<1>1. todo \in Seq(Steps) /\ RoundOrder(todo) /\ RoundOrder(program.round)
  BY RoundsOrdered DEF Ordered, TypeOK
<1>2. todo # <<>> => RoundOrder(Tail(todo)) /\ Tail(todo) \in Seq(Steps)
  BY <1>1, OrderedTail, TailOf, Zenon
<1>3. todo # <<>> /\ Head(todo) = "inout" => RoundOrder(Tail(Tail(todo)))
  <2> SUFFICES ASSUME todo # <<>>, Head(todo) = "inout" PROVE RoundOrder(Tail(Tail(todo)))
    OBVIOUS
  <2>1. Tail(todo) # <<>>
    BY <1>1, AfterTheHead DEF Ends
  <2> QED BY <1>2, <2>1, OrderedTail, Zenon
<1>4. \/ todo' \in {todo, program.round, <<>>, <<"dead">>}
      \/ todo # <<>> /\ todo' = Tail(todo)
      \/ todo # <<>> /\ Head(todo) = "inout" /\ todo' = Tail(Tail(todo))
  BY DEF Next, Arduino, RaspberryPi, CarComes, CarGoes, ArdLoop, ArdLower, ArdAnswer, Look, Skip,
         SearchType, CheckInOut, SearchSpot, UpdateSpot, InsertLog, SendMsg, Tell, Restart, At, vars
<1> QED BY <1>1, <1>2, <1>3, <1>4, ShortOrders

LEMMA SameProgram == [Next]_vars => program' = program
<1>1. ASSUME NEW c \in Cars, CarComes(c) PROVE program' = program
  BY <1>1 DEF CarComes
<1>2. CarGoes => program' = program
  BY DEF CarGoes
<1>3. Arduino => program' = program
  BY DEF Arduino, ArdLoop, ArdLower, ArdAnswer
<1>4. Look \/ Skip \/ SearchType \/ SearchSpot => program' = program
  BY DEF Look, Skip, SearchType, SearchSpot
<1>5. CheckInOut => program' = program
  BY DEF CheckInOut
<1>6. UpdateSpot \/ InsertLog \/ SendMsg \/ Tell => program' = program
  BY DEF UpdateSpot, InsertLog, SendMsg, Tell
<1>7. Restart \/ UNCHANGED vars => program' = program
  BY DEF Restart, vars
<1> QED BY <1>1, <1>2, <1>3, <1>4, <1>5, <1>6, <1>7 DEF Next, RaspberryPi

LEMMA EntryInit == Init => Filling
BY OrderedInit, ShortOrders DEF Init, Filling, Entry

LEMMA EntryNext == Filling /\ [Next]_vars => Filling'
<1> SUFFICES ASSUME Filling, [Next]_vars PROVE Filling'
  OBVIOUS
<1> SUFFICES ASSUME ~Leaves PROVE Entry'
  <2>1. program' = program
    BY SameProgram
  <2>2. Leaves' <=> Leaves
    BY <2>1, Zenon DEF Leaves
  <2> QED BY <2>2, OrderedNext DEF Filling
<1>0. Entry /\ todo \in Seq(Steps) /\ RoundOrder(todo) /\ TypeOK
  BY DEF Filling, Ordered, TypeOK
<1>T. ASSUME todo # <<>>, Head(todo) # "search", todo' = Tail(todo),
             inout' = 1, todo' # <<>> => spot' = spot, todo' = <<>> => spot' = NoSpot
      PROVE  Entry'
  <2>1. NoInOut(todo')
    BY <1>0, <1>T, NoInOutTail DEF Entry
  <2>2. ~(todo' # <<>> /\ Head(todo') = "update")
    BY <1>0, <1>T, AfterTheHead
  <2>3. (todo' = <<>> \/ \E k \in 1..Len(todo') : todo'[k] = "search") => spot' = NoSpot
    <3>1. (\E k \in 1..Len(todo') : todo'[k] = "search") => \E k \in 1..Len(todo) : todo[k] = "search"
      BY <1>0, <1>T, AfterTheHead, Zenon
    <3>2. (\E k \in 1..Len(todo) : todo[k] = "search") => spot = NoSpot
      BY <1>0, Zenon DEF Entry
    <3> QED BY <1>T, <3>1, <3>2
  <2> QED BY <1>T, <2>1, <2>2, <2>3 DEF Entry
<1>F. ASSUME UNCHANGED <<todo, inout, spot, stat>> PROVE Entry'
  BY <1>0, <1>F DEF Entry
<1>1. ASSUME NEW c \in Cars, CarComes(c) PROVE Entry'
  BY <1>1, <1>F DEF CarComes, db
<1>2. CASE CarGoes
  BY <1>2, <1>F DEF CarGoes, db
<1>3. CASE Arduino
  BY <1>3, <1>F DEF Arduino, ArdLoop, ArdLower, ArdAnswer, db
<1>4. CASE Look
  <2>1. UNCHANGED <<inout, spot, stat>> /\ inout = 1 /\ todo = <<>> /\ spot = NoSpot
    BY <1>0, <1>4 DEF Look, Entry, db
  <2>2. CASE todo' = <<>>
    BY <1>F, <2>1, <2>2
  <2>4. CASE todo' = <<"dead">>
    <3>1. Len(<<"dead">>) = 1 /\ Head(<<"dead">>) = "dead" /\ <<"dead">>[1] = "dead"
      OBVIOUS
    <3> QED BY <2>1, <2>4, <3>1, ShortOrders DEF Entry
  <2>3. CASE todo' = program.round
    <3>1. NoInOut(todo')
      <4>1. program.round \in Seq(Steps)
        BY <1>0, RoundsOrdered DEF TypeOK
      <4>2. \A k \in 1..Len(program.round) : k \in DOMAIN program.round
        BY <4>1
      <4> QED BY <2>3, <4>2, Zenon DEF NoInOut, Leaves
    <3>2. spot' \notin Spots
      BY <2>1, SpotIsNone
    <3> QED BY <2>1, <3>1, <3>2 DEF Entry
  <2> QED BY <1>4, <2>2, <2>3, <2>4, Zenon DEF Look
<1>5. CASE Skip
  BY <1>5, <1>F DEF Skip, db
<1>6. CASE SearchType
  <2>1. todo' # <<>>
    BY <1>0, <1>6, AfterTheHead DEF SearchType, At, Ends
  <2>2. Head(todo) = "type" /\ todo # <<>>
    BY <1>6 DEF SearchType, At
  <2>3. UNCHANGED <<inout, spot, stat>> /\ todo' = Tail(todo) /\ inout = 1
    BY <1>0, <1>6 DEF SearchType, At, Entry, db
  <2> QED BY <2>1, <2>2, <2>3, <1>T
<1>7. CASE CheckInOut
  <2>1. todo # <<>> /\ Head(todo) = "inout"
    BY <1>7 DEF CheckInOut
  <2>2. Len(todo) \in Nat \ {0} /\ Head(todo) = todo[1]
    BY <1>0, <2>1, TailOf, Zenon
  <2>3. 1 \in 1..Len(todo)
    BY <2>2
  <2> QED BY <1>0, <2>1, <2>2, <2>3, Zenon DEF Entry, NoInOut
<1>8. CASE SearchSpot
  <2>1. todo # <<>> /\ Head(todo) = "search" /\ todo' = Tail(todo) /\ UNCHANGED <<inout, stat>>
    BY <1>8 DEF SearchSpot, At, db
  <2>2. spot = NoSpot
    BY <1>0, <2>1, AfterTheHead, Zenon DEF Entry
  <2>3. NoInOut(todo')
    BY <1>0, <2>1, NoInOutTail DEF Entry
  <2>4. ~\E k \in 1..Len(todo') : todo'[k] = "search"
    BY <1>0, <2>1, AfterTheHead, Zenon
  <2>5. todo' # <<>>
    BY <1>0, <2>1, AfterTheHead DEF Ends
  <2>6. spot' \in Spots => stat'[spot'] = 0
    <3>1. FreeSpots \in SUBSET Nat
      BY EarlyAssumption DEF FreeSpots, Spots
    <3>2. FreeSpots # {} => First(FreeSpots) \in FreeSpots
      BY <3>1, FirstIsOne, Zenon
    <3>3. spot' = NoSpot \/ spot' \in FreeSpots
      BY <1>8, <2>2, <3>2 DEF SearchSpot
    <3> QED BY <2>1, <3>3, SpotIsNone DEF FreeSpots
  <2> QED BY <1>0, <2>1, <2>3, <2>4, <2>5, <2>6 DEF Entry
<1>9. CASE UpdateSpot
  <2>1. todo' # <<>>
    BY <1>0, <1>9, AfterTheHead DEF UpdateSpot, At, Ends
  <2>2. Head(todo) = "update" /\ todo # <<>>
    BY <1>9 DEF UpdateSpot, At
  <2>3. UNCHANGED <<inout, spot>> /\ todo' = Tail(todo) /\ inout = 1
    BY <1>0, <1>9 DEF UpdateSpot, At, Entry
  <2> QED BY <2>1, <2>2, <2>3, <1>T
<1>10. CASE InsertLog
  <2>1. todo' # <<>>
    BY <1>0, <1>10, AfterTheHead DEF InsertLog, At, Ends
  <2>2. Head(todo) = "log" /\ todo # <<>>
    BY <1>10 DEF InsertLog, At
  <2>3. UNCHANGED <<inout, spot>> /\ todo' = Tail(todo) /\ inout = 1
    BY <1>0, <1>10 DEF InsertLog, At, Entry
  <2> QED BY <2>1, <2>2, <2>3, <1>T
<1>11. CASE SendMsg
  <2>1. Head(todo) = "reply" /\ todo # <<>> /\ todo' = Tail(todo) /\ inout' = 1
    BY <1>0, <1>11 DEF SendMsg, At, Locals, Entry
  <2>2. todo' # <<>> => spot' = spot
    BY <1>11 DEF SendMsg, Locals
  <2>3. todo' = <<>> => spot' = NoSpot
    BY <1>11 DEF SendMsg, Locals
  <2> QED BY <2>1, <2>2, <2>3, <1>T
<1>12. CASE Tell
  <2>1. CASE todo' = <<>>
    <3>1. inout' = 1 /\ spot' = NoSpot
      BY <1>12, <2>1 DEF Tell, Locals
    <3> QED BY <2>1, <3>1, ShortOrders DEF Entry
  <2>2. CASE todo' = <<"dead">>
    <3>1. inout' = inout /\ spot' = spot
      BY <1>12, <2>2 DEF Tell, Locals
    <3>2. Head(todo') = "dead" /\ todo' # <<>> /\ ~\E k \in 1..Len(todo') : todo'[k] = "search"
      BY <2>2
    <3> QED BY <1>0, <2>2, <3>1, <3>2, ShortOrders DEF Entry
  <2> QED BY <1>12, <2>1, <2>2 DEF Tell
<1>13. CASE Restart
  BY <1>13, ShortOrders DEF Restart, Entry
<1>14. CASE UNCHANGED vars
  BY <1>14, <1>F DEF vars, db
<1> QED BY <1>1, <1>2, <1>3, <1>4, <1>5, <1>6, <1>7, <1>8, <1>9, <1>10, <1>11, <1>12, <1>13, <1>14
        DEF Next, RaspberryPi

(***************************************************************************)
(* The programs for entries (Capture.cpp:395) give no spot twice and take   *)
(* none away, whatever characters they take for cars.                       *)
(***************************************************************************)
THEOREM EntriesOnlyFill == Spec => RowsOnlyFill
<1> DEFINE Fills == ~Leaves => \A s \in Spots : stat[s] = 1 => stat'[s] = 1 /\ carnum'[s] = carnum[s]
<1>1. Filling /\ [Next]_vars => [Fills]_vars
  <2> SUFFICES ASSUME Filling, [Next]_vars, ~Leaves,
                      NEW s \in Spots, stat[s] = 1
               PROVE  stat'[s] = 1 /\ carnum'[s] = carnum[s]
    OBVIOUS
  <2>1. CASE UpdateSpot
    <3>1. Head(todo) = "update" /\ todo # <<>>
      BY <2>1 DEF UpdateSpot, At
    <3>2. s # spot
      BY <3>1 DEF Filling, Entry
    <3> QED BY <2>1, <3>2 DEF UpdateSpot, db
  <2>2. CASE ~UpdateSpot
    BY <2>2 DEF Next, Arduino, RaspberryPi, CarComes, CarGoes, ArdLoop, ArdLower, ArdAnswer, Look, Skip,
         SearchType, CheckInOut, SearchSpot, InsertLog, SendMsg, Tell, Restart, vars, db
  <2> QED BY <2>1, <2>2
<1> QED BY <1>1, EntryInit, EntryNext, PTL DEF Spec, RowsOnlyFill

-----------------------------------------------------------------------------
(***************************************************************************)
(* A program that waits for "S" serves one car at a time.  Of a question on *)
(* the line, a round before its answer and an answer on the line there is   *)
(* at most one, and the Arduino waits for it.                               *)
(***************************************************************************)
Once(q) == \A k, l \in 1..Len(q) : q[k] = "S" /\ q[l] = "S" => k = l
None(q) == \A k \in 1..Len(q) : q[k] # "S"
Asked == ~None(toPi)
AskedOnce == Once(toPi)
Serving == todo # <<>> /\ Head(todo) \notin {"tell", "dead"}

OneAtATime ==
  /\ AskedOnce
  /\ Asked => ardPc = "wait" /\ toArd = <<>> /\ ~Serving
  /\ Serving => ardPc = "wait" /\ toArd = <<>>
  /\ toArd = <<>> \/ \E a : toArd = <<a>> /\ ardPc = "wait"
Awaited == Ordered /\ (program.starts = OnS => OneAtATime)

LEMMA AwaitedImplies == Awaited => AnswerIsAwaited
BY TailOfOne DEF Awaited, OneAtATime, Serving, AnswerIsAwaited

LEMMA AwaitedInit == Init => Awaited
BY OrderedInit DEF Init, Awaited, OneAtATime, AskedOnce, Asked, Serving, Once, None

\* A character that is read takes a question off the line.
LEMMA Read ==
  ASSUME toPi \in Seq(OnAny), toPi # <<>>, toPi' = Tail(toPi), AskedOnce
  PROVE  AskedOnce' /\ (Asked' => Asked) /\ (Head(toPi) = "S" => ~Asked')
<1>1. /\ Len(toPi) \in Nat \ {0} /\ Len(toPi') = Len(toPi) - 1 /\ Head(toPi) = toPi[1]
      /\ \A k \in 1..Len(toPi') : toPi'[k] = toPi[k + 1]
  BY TailOf, Zenon
<1>2. \A k \in 1..Len(toPi') : k + 1 \in 1..Len(toPi) /\ k + 1 # 1
  BY <1>1
<1>3. 1 \in 1..Len(toPi)
  BY <1>1
<1>4. \A k, l \in 1..Len(toPi') : toPi'[k] = "S" /\ toPi'[l] = "S" => k = l
  <2> SUFFICES ASSUME NEW k \in 1..Len(toPi'), NEW l \in 1..Len(toPi'), toPi'[k] = "S", toPi'[l] = "S"
               PROVE  k = l
    OBVIOUS
  <2>1. toPi[k + 1] = "S" /\ toPi[l + 1] = "S"
    BY <1>1
  <2>2. k + 1 = l + 1
    BY <1>2, <2>1 DEF AskedOnce, Once
  <2> QED BY <2>2
<1> QED BY <1>1, <1>2, <1>3, <1>4, Zenon DEF AskedOnce, Asked, Once, None

\* What is printed adds no question, or one.
LEMMA NoteAdded ==
  ASSUME NEW q \in Seq(OnAny), NEW a \in OnAny, Once(q), a = "S" => None(q)
  PROVE  /\ q \o <<a>> \in Seq(OnAny) /\ Once(q \o <<a>>)
         /\ a # "S" /\ None(q) => None(q \o <<a>>)
<1> DEFINE r == q \o <<a>>
<1>1. /\ r \in Seq(OnAny) /\ Len(r) = Len(q) + 1 /\ Len(q) \in Nat
      /\ \A k \in 1..Len(q) : r[k] = q[k]
      /\ r[Len(q) + 1] = a
  BY OneMore
<1> HIDE DEF r
<1>2. \A k \in 1..Len(r) : k \in 1..Len(q) \/ k = Len(q) + 1
  BY <1>1
<1>3. Once(r)
  BY <1>1, <1>2, Zenon DEF Once, None
<1>4. a # "S" /\ None(q) => None(r)
  BY <1>1, <1>2, Zenon DEF None
<1> QED BY <1>1, <1>3, <1>4 DEF r

LEMMA NoneIsOnce == \A q : None(q) => Once(q)
BY Zenon DEF None, Once

LEMMA Noted ==
  ASSUME TypeLines, AskedOnce, toPi' = Line(Printed)
  PROVE  AskedOnce' /\ (Asked' => Asked)
<1>1. Printed = <<"n">> \/ Printed = <<>>
  BY DEF Printed
<1>2. toPi' = toPi \/ toPi' = toPi \o <<"n">>
  <2>1. toPi \o <<>> = toPi
    BY DEF TypeLines
  <2> QED BY <1>1, <2>1, Zenon DEF Line
<1>3. "n" \in OnAny /\ "n" # "S" /\ toPi \in Seq(OnAny)
  BY DEF OnAny, TypeLines
<1>4. Once(toPi \o <<"n">>) /\ (None(toPi) => None(toPi \o <<"n">>))
  BY <1>3, NoteAdded, Zenon DEF AskedOnce
<1>5. Once(toPi') /\ (None(toPi) => None(toPi'))
  BY <1>2, <1>4, Zenon DEF AskedOnce
<1> QED BY <1>5 DEF AskedOnce, Asked

LEMMA Called ==
  ASSUME TypeLines, ~Asked, toPi' = Line(Printed \o <<"S", "n">>)
  PROVE  AskedOnce'
<1>1. "n" \in OnAny /\ "S" \in OnAny /\ "n" # "S" /\ toPi \in Seq(OnAny)
  BY DEF OnAny, TypeLines
<1>2. ASSUME NEW q \in Seq(OnAny), None(q) PROVE Once((q \o <<"S">>) \o <<"n">>)
  <2>1. Once(q)
    BY <1>2, NoneIsOnce
  <2>2. q \o <<"S">> \in Seq(OnAny) /\ Once(q \o <<"S">>)
    BY <1>1, <1>2, <2>1, NoteAdded, Zenon
  <2> QED BY <1>1, <2>2, NoteAdded, Zenon
<1>3. None(toPi)
  BY DEF Asked
<1>4. toPi \o <<"n">> \in Seq(OnAny) /\ None(toPi \o <<"n">>)
  BY <1>1, <1>3, NoneIsOnce, NoteAdded, Zenon
<1>5. \/ toPi' = toPi
      \/ toPi' = (toPi \o <<"S">>) \o <<"n">>
      \/ toPi' = ((toPi \o <<"n">>) \o <<"S">>) \o <<"n">>
  <2>1. Printed = <<"n">> \/ Printed = <<>>
    BY DEF Printed
  <2>2. toPi \o (<<>> \o <<"S", "n">>) = (toPi \o <<"S">>) \o <<"n">>
    BY <1>1
  <2>3. toPi \o (<<"n">> \o <<"S", "n">>) = ((toPi \o <<"n">>) \o <<"S">>) \o <<"n">>
    BY <1>1
  <2> QED BY <2>1, <2>2, <2>3, Zenon DEF Line
<1>6. Once(toPi) /\ Once((toPi \o <<"S">>) \o <<"n">>) /\ Once(((toPi \o <<"n">>) \o <<"S">>) \o <<"n">>)
  BY <1>1, <1>2, <1>3, <1>4, NoneIsOnce, Zenon
<1>7. Once(toPi')
  BY <1>5, <1>6, Zenon
<1> QED BY <1>7 DEF AskedOnce

LEMMA AwaitedNext == Awaited /\ [Next]_vars => Awaited'
<1> SUFFICES ASSUME Awaited, [Next]_vars PROVE Awaited'
  OBVIOUS
<1> SUFFICES ASSUME program.starts = OnS PROVE OneAtATime'
  BY SameProgram, OrderedNext DEF Awaited
<1>0. OneAtATime /\ TypeLines /\ todo \in Seq(Steps) /\ RoundOrder(todo)
  BY TypeParts DEF Awaited, Ordered, TypeRound
<1>U. program.starts # Unasked
  BY DEF OnS, Unasked
<1>F. ASSUME UNCHANGED <<toPi, toArd, todo>>, ardPc = "wait" => ardPc' = "wait" PROVE OneAtATime'
  <2>1. (Asked' <=> Asked) /\ (Serving' <=> Serving) /\ (AskedOnce' <=> AskedOnce)
    BY <1>F, Zenon DEF Asked, Serving, AskedOnce
  <2> QED BY <1>0, <1>F, <2>1 DEF OneAtATime
<1>P. ASSUME UNCHANGED <<toPi, toArd, ardPc>>, Serving' => Serving PROVE OneAtATime'
  <2>1. (Asked' <=> Asked) /\ (AskedOnce' <=> AskedOnce)
    BY <1>P, Zenon DEF Asked, AskedOnce
  <2> QED BY <1>0, <1>P, <2>1 DEF OneAtATime
<1>1. ASSUME NEW c \in Cars, CarComes(c) PROVE OneAtATime'
  BY <1>1, <1>F DEF CarComes, ard
<1>2. CASE CarGoes
  BY <1>2, <1>F DEF CarGoes, ard
<1>3. CASE ArdLoop
  <2>0. /\ ardPc = "loop" /\ UNCHANGED <<toArd, todo>> /\ toArd = <<>> /\ ~Asked /\ ~Serving
    BY <1>0, <1>3 DEF ArdLoop, OneAtATime
  <2>1. ~Serving'
    BY <2>0, Zenon DEF Serving
  <2>2. PICK d \in Distance : ArdDetect(d) \/ ArdClear(d) \/ ArdPrint(d)
    BY <1>3 DEF ArdLoop
  <2>3. CASE ArdDetect(d)
    <3>1. AskedOnce' /\ ardPc' = "wait"
      BY <1>0, <2>0, <2>3, Called DEF ArdDetect
    <3> QED BY <2>0, <2>1, <3>1 DEF OneAtATime
  <2>4. CASE ArdClear(d) \/ ArdPrint(d)
    <3>1. toPi' = Line(Printed)
      BY <2>4 DEF ArdClear, ArdPrint
    <3>2. AskedOnce' /\ ~Asked'
      BY <1>0, <2>0, <3>1, Noted DEF OneAtATime
    <3> QED BY <2>0, <2>1, <3>2 DEF OneAtATime
  <2> QED BY <2>2, <2>3, <2>4
<1>4. CASE ArdLower
  <2>1. ardPc = "lower" /\ UNCHANGED <<toPi, toArd, todo>>
    BY <1>4 DEF ArdLower
  <2> QED BY <2>1, <1>F
<1>5. CASE ArdAnswer
  <2>1. toArd # <<>> /\ toArd' = Tail(toArd) /\ UNCHANGED <<toPi, todo>>
    BY <1>5 DEF ArdAnswer
  <2>2. toArd' = <<>> /\ ~Asked /\ ~Serving
    BY <1>0, <2>1, TailOfOne DEF OneAtATime
  <2>3. ~Asked' /\ ~Serving' /\ (AskedOnce' <=> AskedOnce)
    BY <2>1, <2>2, Zenon DEF Asked, Serving, AskedOnce
  <2> QED BY <1>0, <2>2, <2>3 DEF OneAtATime
<1>6. CASE Look
  <2>1. toPi # <<>> /\ Head(toPi) = "S" /\ toPi' = Tail(toPi) /\ UNCHANGED <<ardPc, toArd>>
    BY <1>6, <1>U DEF Look, Hears, ard, OnS
  <2>2. AskedOnce' /\ ~Asked'
    BY <1>0, <2>1, Read DEF OneAtATime, TypeLines
  <2>3. Asked
    <3>1. Len(toPi) \in Nat \ {0} /\ toPi[1] = "S"
      BY <1>0, <2>1, TailOf DEF TypeLines
    <3>2. 1 \in 1..Len(toPi)
      BY <3>1
    <3> QED BY <3>1, <3>2, Zenon DEF Asked, None
  <2>4. ardPc = "wait" /\ toArd = <<>>
    BY <1>0, <2>3 DEF OneAtATime
  <2> QED BY <2>1, <2>2, <2>4 DEF OneAtATime
<1>7. CASE Skip
  <2>1. toPi # <<>> /\ toPi' = Tail(toPi) /\ UNCHANGED <<ardPc, toArd, todo>>
    BY <1>7 DEF Skip, ard
  <2>2. AskedOnce' /\ (Asked' => Asked)
    BY <1>0, <2>1, Read DEF OneAtATime, TypeLines
  <2>3. Serving' <=> Serving
    BY <2>1, Zenon DEF Serving
  <2> QED BY <1>0, <2>1, <2>2, <2>3 DEF OneAtATime
<1>8. CASE SearchType \/ SearchSpot \/ UpdateSpot \/ InsertLog
  <2>1. Serving /\ UNCHANGED <<toPi, toArd, ardPc>>
    BY <1>8 DEF SearchType, SearchSpot, UpdateSpot, InsertLog, At, Serving, ard
  <2> QED BY <2>1, <1>P
<1>9. CASE CheckInOut
  <2>1. Serving /\ UNCHANGED <<toPi, toArd, ardPc>>
    BY <1>9 DEF CheckInOut, Serving, ard
  <2> QED BY <2>1, <1>P
<1>10. CASE SendMsg
  <2>1. /\ todo # <<>> /\ Head(todo) = "reply" /\ todo' = Tail(todo)
        /\ toArd' = Append(toArd, Answer) /\ UNCHANGED <<toPi, ardPc>>
    BY <1>10 DEF SendMsg, At, ard
  <2>2. Serving
    BY <2>1 DEF Serving
  <2>3. ardPc = "wait" /\ toArd = <<>> /\ ~Asked
    BY <1>0, <2>2 DEF OneAtATime
  <2>4. toArd' = <<Answer>>
    BY <2>1, <2>3
  <2>5. ~Serving'
    BY <1>0, <2>1, AfterTheHead DEF Serving
  <2>6. ~Asked' /\ (AskedOnce' <=> AskedOnce)
    BY <2>1, <2>3, Zenon DEF Asked, AskedOnce
  <2>7. ardPc' = "wait"
    BY <2>1, <2>3
  <2> QED BY <1>0, <2>4, <2>5, <2>6, <2>7 DEF OneAtATime
<1>11. CASE Tell
  <2>1. ~Serving' /\ UNCHANGED <<toPi, toArd, ardPc>>
    BY <1>11 DEF Tell, Serving, ard
  <2> QED BY <2>1, <1>P
<1>12. CASE Restart
  <2>1. toPi' = <<>> /\ toArd' = <<>> /\ todo' = <<>>
    BY <1>12 DEF Restart
  <2> QED BY <2>1 DEF OneAtATime, AskedOnce, Asked, Serving, Once, None
<1>13. CASE UNCHANGED vars
  BY <1>13, <1>F DEF vars, ard
<1> QED BY <1>1, <1>2, <1>3, <1>4, <1>5, <1>6, <1>7, <1>8, <1>9, <1>10, <1>11, <1>12, <1>13
        DEF Next, Arduino, RaspberryPi

(***************************************************************************)
(* A program that waits for "S" (Capture.cpp:73, Capture_Inout.cpp:114)     *)
(* answers only a car that stands there: with any cars, faults and bounds.  *)
(***************************************************************************)
THEOREM AnswersAreAwaited == Spec => []AnswerIsAwaited
BY AwaitedInit, AwaitedNext, AwaitedImplies, PTL DEF Spec
-----------------------------------------------------------------------------
(***************************************************************************)
(* A program that lets cars leave has one round, and ends it by telling the *)
(* spot whose row it has written; until then only that spot may differ.     *)
(***************************************************************************)
Rest1 == <<"tell">>
Rest2 == <<"reply", "tell">>
Rest3 == <<"log", "reply", "tell">>
Rest4 == <<"update", "log", "reply", "tell">>
Rest5 == <<"search", "update", "log", "reply", "tell">>
Rest6 == <<"inout", "search", "update", "log", "reply", "tell">>
Rest7 == <<"type", "inout", "search", "update", "log", "reply", "tell">>
Ended == <<"dead">>
Opening == {Rest4, Rest5, Rest6, Rest7}
Closing == {Rest1, Rest2, Rest3}
InRound == todo \in Opening \cup Closing \cup {<<>>, Ended}

Agrees(s) == told[s][1] = stat[s] /\ (stat[s] = 1 => told[s][2] = carnum[s])
Written(s) == stat[s] = inout /\ (inout = 1 => carnum[s] = number)
ToldRows ==
  \A s \in Spots : Agrees(s) \/ (s = spot /\ todo \in Closing \cup {Ended})
RowWritten == todo \in Closing => \A s \in Spots : s = spot => Written(s)
Sound == Without({"query", "restart"}) => ToldRows /\ RowWritten
Telling == TypeOK /\ (Leaves => InRound /\ Sound)

LEMMA Rests ==
  /\ Head(Rest7) = "type" /\ Tail(Rest7) = Rest6
  /\ Head(Rest6) = "inout" /\ Tail(Rest6) = Rest5
  /\ Head(Rest5) = "search" /\ Tail(Rest5) = Rest4
  /\ Head(Rest4) = "update" /\ Tail(Rest4) = Rest3
  /\ Head(Rest3) = "log" /\ Tail(Rest3) = Rest2
  /\ Head(Rest2) = "reply" /\ Tail(Rest2) = Rest1
  /\ Head(Rest1) = "tell" /\ Tail(Rest1) = <<>>
  /\ Head(Ended) = "dead"
<1>1. Head(Rest7) = "type" /\ Tail(Rest7) = Rest6
  BY DEF Rest7, Rest6
<1>2. Head(Rest6) = "inout" /\ Tail(Rest6) = Rest5
  BY DEF Rest6, Rest5
<1>3. Head(Rest5) = "search" /\ Tail(Rest5) = Rest4
  BY DEF Rest5, Rest4
<1>4. Head(Rest4) = "update" /\ Tail(Rest4) = Rest3
  BY DEF Rest4, Rest3
<1>5. Head(Rest3) = "log" /\ Tail(Rest3) = Rest2
  BY DEF Rest3, Rest2
<1>6. Head(Rest2) = "reply" /\ Tail(Rest2) = Rest1
  BY DEF Rest2, Rest1
<1>7. Head(Rest1) = "tell" /\ Tail(Rest1) = <<>> /\ Head(Ended) = "dead"
  BY DEF Rest1, Ended
<1> QED BY <1>1, <1>2, <1>3, <1>4, <1>5, <1>6, <1>7

\* None of them is at its end.
LEMMA RestsAreLong == <<>> \notin Opening \cup Closing \cup {Ended}
<1>1. <<>> # Rest7 /\ <<>> # Rest6 /\ <<>> # Rest5 /\ <<>> # Rest4
  BY DEF Rest7, Rest6, Rest5, Rest4
<1>2. <<>> # Rest3 /\ <<>> # Rest2 /\ <<>> # Rest1 /\ <<>> # Ended
  BY DEF Rest3, Rest2, Rest1, Ended
<1> QED BY <1>1, <1>2 DEF Opening, Closing

LEMMA RoundOfLeaves == \A p \in Programs : (\E i \in DOMAIN p.round : p.round[i] = "inout") => p.round = Rest7
<1>1. \A i \in DOMAIN July20Round : July20Round[i] # "inout"
  BY DEF July20Round
<1>2. \A i \in DOMAIN July20SocketRound : July20SocketRound[i] # "inout"
  BY DEF July20SocketRound
<1>3. July22InOutRound = Rest7
  BY DEF July22InOutRound, Rest7
<1>4. /\ July21Round = July20Round /\ July22Round = July20Round /\ July24Round = July20Round
      /\ July21SocketRound = July20SocketRound /\ July22SocketRound = July20SocketRound
      /\ July24SocketRound = July20SocketRound /\ July24InOutRound = July22InOutRound
  BY DEF July20Round, July21Round, July22Round, July24Round, July20SocketRound, July21SocketRound,
         July22SocketRound, July24SocketRound, July22InOutRound, July24InOutRound
<1>5. \A p \in Programs : p.round \in {July20Round, July20SocketRound, July22InOutRound}
  BY <1>4 DEF Programs, July20, July20Socket, July21, July21Socket, July22, July22Socket,
       July22InOut, July24, July24Socket, July24InOut
<1> QED BY <1>1, <1>2, <1>3, <1>5, Zenon

\* Of what has not happened yet, nothing has happened before.
LEMMA NothingYet ==
  ASSUME NEW A, NEW K, (faults' = faults) \/ (\E k \in Kinds : Fault(k)), Without(K)'
  PROVE  Without(K) /\ \A k \in K : ~Fault(k)
BY DEF Without, Fault

LEMMA FaultsNoted == [Next]_vars => faults' = faults \/ (\E k \in Kinds : Fault(k))
<1> SUFFICES ASSUME [Next]_vars PROVE faults' = faults \/ (\E k \in Kinds : Fault(k))
  OBVIOUS
<1> USE DEF Kinds
<1>1. ASSUME NEW c \in Cars, CarComes(c) PROVE faults' = faults
  BY <1>1 DEF CarComes
<1>2. CASE CarGoes \/ Skip \/ SendMsg \/ ArdLower \/ ArdAnswer
  BY <1>2 DEF CarGoes, Skip, SendMsg, ArdLower, ArdAnswer
<1>3. CASE ArdLoop
  BY <1>3 DEF ArdLoop, ArdDetect, ArdClear, ArdPrint, NoFault
<1>4. CASE Look
  BY <1>4 DEF Look, NoFault
<1>5. CASE SearchType \/ SearchSpot \/ UpdateSpot \/ InsertLog
  BY <1>5 DEF SearchType, SearchSpot, UpdateSpot, InsertLog, NoFault
<1>6. CASE CheckInOut \/ Tell \/ Restart
  BY <1>6 DEF CheckInOut, Tell, Restart, NoFault
<1>7. CASE UNCHANGED vars
  BY <1>7 DEF vars
<1> QED BY <1>1, <1>2, <1>3, <1>4, <1>5, <1>6, <1>7 DEF Next, Arduino, RaspberryPi

LEMMA TellingNext == Telling /\ [Next]_vars => Telling'
<1> SUFFICES ASSUME Telling, [Next]_vars PROVE Telling'
  OBVIOUS
<1> SUFFICES ASSUME Leaves PROVE InRound' /\ Sound'
  <2>1. program' = program
    BY SameProgram
  <2>2. Leaves' <=> Leaves
    BY <2>1, Zenon DEF Leaves
  <2> QED BY <2>2, TypeNext DEF Telling
<1>0. InRound /\ Sound /\ program.round = Rest7
  BY RoundOfLeaves, Zenon DEF Telling, TypeOK, Leaves
<1>1. Without({"query", "restart"})' => Without({"query", "restart"}) /\ ~Fault("query") /\ ~Fault("restart")
  BY FaultsNoted, NothingYet
\* What leaves the rows and the round alone.
<1>F. ASSUME UNCHANGED <<stat, carnum, told, todo, number, inout, spot>> PROVE InRound' /\ Sound'
  BY <1>0, <1>1, <1>F DEF InRound, Sound, ToldRows, RowWritten, Agrees, Written
\* What comes before the update.
<1>O. ASSUME UNCHANGED <<stat, carnum, told>>, todo \in Opening \cup {<<>>},
             todo' \in Opening \cup {<<>>, Ended}
      PROVE  InRound' /\ Sound'
  <2>1. \A q \in Opening \cup {<<>>, Ended} : q \notin Closing
    BY Rests, RestsAreLong DEF Opening, Closing
  <2>2. \A q \in Opening \cup {<<>>} : q # Ended
    BY Rests, RestsAreLong DEF Opening
  <2>3. Without({"query", "restart"})' => \A s \in Spots : Agrees(s)
    BY <1>0, <1>1, <1>O, <2>1, <2>2 DEF Sound, ToldRows
  <2> QED BY <1>O, <2>1, <2>3 DEF InRound, Sound, ToldRows, RowWritten, Agrees
\* What comes between the update and the message.
<1>C. ASSUME UNCHANGED <<stat, carnum, told, number, inout, spot>>, todo \in Closing, todo' \in Closing
      PROVE  InRound' /\ Sound'
  BY <1>0, <1>1, <1>C DEF InRound, Sound, ToldRows, RowWritten, Agrees, Written
<1>2. ASSUME NEW c \in Cars, CarComes(c) PROVE InRound' /\ Sound'
  BY <1>2, <1>F DEF CarComes, db
<1>3. CASE CarGoes
  BY <1>3, <1>F DEF CarGoes, db
<1>4. CASE Arduino
  BY <1>4, <1>F DEF Arduino, ArdLoop, ArdLower, ArdAnswer, db
<1>5. CASE Skip
  BY <1>5, <1>F DEF Skip, db
<1>6. CASE Look
  <2>1. UNCHANGED <<stat, carnum, told>> /\ todo = <<>> /\ todo' \in {<<>>, Ended, Rest7}
    BY <1>0, <1>6 DEF Look, db, Ended
  <2> QED BY <2>1, <1>O DEF Opening
<1>7. CASE SearchType
  <2>1. UNCHANGED <<stat, carnum, told>> /\ Head(todo) = "type" /\ todo # <<>> /\ todo' = Tail(todo)
    BY <1>7 DEF SearchType, At, db
  <2>2. todo = Rest7
    BY <1>0, <2>1, Rests DEF InRound, Opening, Closing
  <2> QED BY <2>1, <2>2, <1>O, Rests DEF Opening
<1>8. CASE CheckInOut
  <2>1. UNCHANGED <<stat, carnum, told>> /\ Head(todo) = "inout" /\ todo # <<>>
        /\ todo' \in {Tail(todo), Tail(Tail(todo))}
    BY <1>8 DEF CheckInOut, db
  <2>2. todo = Rest6
    BY <1>0, <2>1, Rests DEF InRound, Opening, Closing
  <2> QED BY <2>1, <2>2, <1>O, Rests DEF Opening
<1>9. CASE SearchSpot
  <2>1. UNCHANGED <<stat, carnum, told>> /\ Head(todo) = "search" /\ todo # <<>> /\ todo' = Tail(todo)
    BY <1>9 DEF SearchSpot, At, db
  <2>2. todo = Rest5
    BY <1>0, <2>1, Rests DEF InRound, Opening, Closing
  <2> QED BY <2>1, <2>2, <1>O, Rests DEF Opening
<1>10. CASE UpdateSpot
  <2>1. /\ Head(todo) = "update" /\ todo # <<>> /\ todo' = Tail(todo) /\ UNCHANGED <<told, number, inout, spot>>
        /\ \/ Fault("query")
           \/ /\ stat' = [s \in Spots |-> IF s = spot THEN inout ELSE stat[s]]
              /\ carnum' = [s \in Spots |-> IF s # spot THEN carnum[s] ELSE IF inout = 1 THEN number ELSE Zero]
    BY <1>10 DEF UpdateSpot, At
  <2>2. todo = Rest4 /\ todo' = Rest3
    BY <1>0, <2>1, Rests DEF InRound, Opening, Closing
  <2>3. todo \notin Closing \cup {Ended} /\ todo' \in Closing
    BY <2>2, Rests DEF Closing
  <2>4. ASSUME Without({"query", "restart"})' PROVE ToldRows' /\ RowWritten'
    <3>1. /\ stat' = [s \in Spots |-> IF s = spot THEN inout ELSE stat[s]]
          /\ carnum' = [s \in Spots |-> IF s # spot THEN carnum[s] ELSE IF inout = 1 THEN number ELSE Zero]
      BY <1>1, <2>1, <2>4
    <3>2. \A s \in Spots : Agrees(s)
      BY <1>0, <1>1, <2>3, <2>4 DEF Sound, ToldRows
    <3>3. ToldRows'
      BY <2>1, <2>3, <3>1, <3>2 DEF ToldRows, Agrees
    <3>4. RowWritten'
      BY <2>1, <3>1 DEF RowWritten, Written
    <3> QED BY <3>3, <3>4
  <2> QED BY <2>3, <2>4 DEF InRound, Sound
<1>11. CASE InsertLog
  <2>1. /\ UNCHANGED <<stat, carnum, told, number, inout, spot>> /\ Head(todo) = "log" /\ todo # <<>>
        /\ todo' = Tail(todo)
    BY <1>11 DEF InsertLog, At, db
  <2>2. todo = Rest3
    BY <1>0, <2>1, Rests DEF InRound, Opening, Closing
  <2> QED BY <2>1, <2>2, <1>C, Rests DEF Closing
<1>12. CASE SendMsg
  <2>1. /\ UNCHANGED <<stat, carnum, told, number>> /\ Head(todo) = "reply" /\ todo # <<>>
        /\ todo' = Tail(todo) /\ (todo' # <<>> => UNCHANGED <<inout, spot>>)
    BY <1>12 DEF SendMsg, At, Locals, db
  <2>2. todo = Rest2
    BY <1>0, <2>1, Rests DEF InRound, Opening, Closing
  <2>3. todo \in Closing /\ todo' \in Closing /\ todo' # <<>>
    BY <2>1, <2>2, Rests, RestsAreLong DEF Closing
  <2> QED BY <2>1, <2>3, <1>C
<1>13. CASE Tell
  <2>1. Head(todo) = "tell" /\ todo # <<>> /\ UNCHANGED <<stat, carnum, number>>
    BY <1>13 DEF Tell, db
  <2>2. todo = Rest1
    BY <1>0, <2>1, Rests DEF InRound, Opening, Closing
  <2>3. todo \in Closing
    BY <2>2 DEF Closing
  <2>4. CASE todo' = <<>> /\ told' = [s \in Spots |-> IF Leaves /\ s = spot THEN Message ELSE told[s]]
    <3>1. InRound' /\ todo' \notin Closing
      BY <2>4, RestsAreLong DEF InRound
    <3>2. ASSUME Without({"query", "restart"})' PROVE \A s \in Spots : Agrees(s)'
      <4>1. ToldRows /\ RowWritten
        BY <1>0, <1>1, <3>2 DEF Sound
      <4>2. \A s \in Spots : s = spot => told'[s] = <<inout, number>> /\ Written(s)
        BY <2>3, <2>4, <4>1 DEF RowWritten, Message
      <4>3. \A s \in Spots : s # spot => told'[s] = told[s] /\ Agrees(s)
        BY <2>4, <4>1 DEF ToldRows
      <4> QED BY <2>1, <4>2, <4>3 DEF Agrees, Written
    <3> QED BY <3>1, <3>2 DEF Sound, ToldRows, RowWritten
  <2>5. CASE todo' = Ended /\ UNCHANGED told
    <3>1. spot' = spot
      BY <1>13, <2>5, RestsAreLong DEF Tell, Locals
    <3>2. todo' \notin Closing
      BY <2>5, Rests DEF Closing
    <3> QED BY <1>0, <1>1, <2>1, <2>5, <3>1, <3>2 DEF InRound, Sound, ToldRows, RowWritten, Agrees
  <2> QED BY <1>13, <2>4, <2>5 DEF Tell, Ended
<1>14. CASE Restart
  <2>1. Fault("restart") /\ todo' = <<>>
    BY <1>14 DEF Restart
  <2> QED BY <1>1, <2>1 DEF InRound, Sound
<1>15. CASE UNCHANGED vars
  BY <1>15, <1>F DEF vars, db
<1> QED BY <1>2, <1>3, <1>4, <1>5, <1>6, <1>7, <1>8, <1>9, <1>10, <1>11, <1>12, <1>13, <1>14, <1>15
        DEF Next, RaspberryPi

(***************************************************************************)
(* A program that lets cars leave (Capture_Inout.cpp:527-560) has told each *)
(* spot what its row says whenever it is back at the line, for any cars and *)
(* spots and however many characters it takes for cars.                     *)
(***************************************************************************)
THEOREM SpotsAreTold == Spec => []SpotsTold
<1>1. Init => Telling
  <2> SUFFICES ASSUME Init PROVE InRound /\ ToldRows /\ RowWritten
    BY TypeInit DEF Telling, Sound
  <2>1. todo = <<>> /\ \A s \in Spots : told[s] = <<0, Zero>> /\ stat[s] = 0
    BY DEF Init
  <2> QED BY <2>1, RestsAreLong DEF InRound, ToldRows, RowWritten, Agrees
<1>2. Telling => SpotsTold
  BY RestsAreLong DEF Telling, Sound, ToldRows, SpotsTold, Agrees
<1> QED BY <1>1, <1>2, TellingNext, PTL DEF Spec
-----------------------------------------------------------------------------
(***************************************************************************)
(* The entry program that waits for "S": the car it was asked for stays at  *)
(* the closed gate until it is answered, and the answer opens the gate only *)
(* with a type and a spot in it.                                           *)
(***************************************************************************)
Way1 == <<"reply">>
Way2 == <<"log", "reply">>
Way3 == <<"update", "log", "reply">>
Way4 == <<"search", "update", "log", "reply">>
Booking == {Way1, Way2}
Typed == {Way1, Way2, Way3, Way4}
Still == {<<>>, Ended}
Ways == Typed \cup Still \cup {July20Round}

Shut == (status = "HIGH" => barrier = 0) /\ (ardPc = "wait" => status = "HIGH")
Allowed == front \in DOMAIN CarType /\ Booked(front) # {}
ForFront ==
  /\ todo \in Ways
  /\ front # NoCar => picture = front
  /\ ardPc = "wait" => front # NoCar
  /\ todo \notin Still => number = front
  /\ todo \in Typed => type = -1 \/ number \in DOMAIN CarType
  /\ todo \in Booking => \A s \in Spots : s = spot => carnum[s] = number
  /\ \A a : toArd = <<a>> /\ ~Refused(a) => Allowed
July == program = July20 /\ Without({"query", "plate", "echo"}) => ForFront
JulyInv == Awaited /\ Filling /\ Shut /\ July

LEMMA WaysAre ==
  /\ Head(July20Round) = "type" /\ Tail(July20Round) = Way4
  /\ Head(Way4) = "search" /\ Tail(Way4) = Way3
  /\ Head(Way3) = "update" /\ Tail(Way3) = Way2
  /\ Head(Way2) = "log" /\ Tail(Way2) = Way1
  /\ Head(Way1) = "reply" /\ Tail(Way1) = <<>>
  /\ Typed \cap Still = {} /\ July20Round \notin Still
  /\ Head(Ended) = "dead" /\ Ended # <<>>
<1>1. Head(July20Round) = "type" /\ Tail(July20Round) = Way4 /\ July20Round # <<>>
  BY DEF July20Round, Way4
<1>2. Head(Way4) = "search" /\ Tail(Way4) = Way3 /\ Way4 # <<>>
  BY DEF Way4, Way3
<1>3. Head(Way3) = "update" /\ Tail(Way3) = Way2 /\ Way3 # <<>>
  BY DEF Way3, Way2
<1>4. Head(Way2) = "log" /\ Tail(Way2) = Way1 /\ Way2 # <<>>
  BY DEF Way2, Way1
<1>5. Head(Way1) = "reply" /\ Tail(Way1) = <<>> /\ Way1 # <<>>
  BY DEF Way1
<1>6. Head(Ended) = "dead" /\ Ended # <<>>
  BY DEF Ended
<1> QED BY <1>1, <1>2, <1>3, <1>4, <1>5, <1>6 DEF Typed, Still

LEMMA July20Is ==
  ASSUME program = July20
  PROVE  program.starts = OnS /\ program.round = July20Round /\ ~Leaves /\ ~program.shows
<1>1. program.starts = OnS /\ program.round = July20Round /\ ~program.shows
  BY DEF July20
<1>2. \A i \in DOMAIN July20Round : July20Round[i] # "inout"
  BY DEF July20Round
<1>3. ~Leaves
  BY <1>1, <1>2, Zenon DEF Leaves
<1> QED BY <1>1, <1>3

\* An answer that is not refused has three fields, of which the second is a type.
LEMMA AnswerFields ==
  ASSUME ~Leaves, number # Zero, ~Refused(Answer)
  PROVE  type # -1 /\ spot # NoSpot
<1>1. CASE spot = NoSpot
  <2>1. Answer = <<number>> \o <<type>> \o <<>>
    BY <1>1 DEF Answer, Unless
  <2>2. Len(Answer) = 2
    BY <2>1
  <2> QED BY <2>2 DEF Refused
<1>2. CASE spot # NoSpot
  <2>1. Answer = <<number>> \o <<type>> \o <<spot>>
    BY <1>2 DEF Answer, Unless
  <2>2. Answer[2] = type
    BY <2>1
  <2> QED BY <1>2, <2>2 DEF Refused
<1> QED BY <1>1, <1>2

LEMMA ShutNext == TypeOK /\ Shut /\ [Next]_vars => Shut'
<1> SUFFICES ASSUME Shut, [Next]_vars PROVE Shut'
  OBVIOUS
<1>1. ASSUME NEW c \in Cars, CarComes(c) PROVE Shut'
  BY <1>1 DEF CarComes, ard, Shut
<1>2. CASE CarGoes
  BY <1>2 DEF CarGoes, ard, Shut
<1>3. CASE ArdLoop
  BY <1>3 DEF ArdLoop, ArdDetect, ArdClear, ArdPrint, ard, Shut
<1>4. CASE ArdLower \/ ArdAnswer
  BY <1>4 DEF ArdLower, ArdAnswer, Shut
<1>5. CASE Look \/ Skip \/ SearchType \/ CheckInOut \/ SearchSpot
  BY <1>5 DEF Look, Skip, SearchType, CheckInOut, SearchSpot, ard, Shut
<1>6. CASE UpdateSpot \/ InsertLog \/ SendMsg \/ Tell
  BY <1>6 DEF UpdateSpot, InsertLog, SendMsg, Tell, ard, Shut
<1>7. CASE Restart \/ UNCHANGED vars
  BY <1>7 DEF Restart, vars, ard, Shut
<1> QED BY <1>1, <1>2, <1>3, <1>4, <1>5, <1>6, <1>7 DEF Next, Arduino, RaspberryPi

LEMMA JulyNext == JulyInv /\ [Next]_vars => July'
<1> SUFFICES ASSUME JulyInv, [Next]_vars, program' = July20, Without({"query", "plate", "echo"})'
             PROVE  ForFront'
  BY DEF July
<1>0. program = July20 /\ Without({"query", "plate", "echo"})
      /\ ~Fault("query") /\ ~Fault("plate") /\ ~Fault("echo")
  BY SameProgram, FaultsNoted, NothingYet
<1>1. /\ program.starts = OnS /\ program.round = July20Round /\ ~Leaves /\ ~program.shows
      /\ ForFront /\ OneAtATime /\ Entry /\ Shut /\ TypeOK
  BY <1>0, July20Is DEF JulyInv, July, Awaited, Filling, Ordered
\* A round is only under way, and an answer only on the line, while the Arduino waits.
<1>2. /\ todo \notin Still => ardPc = "wait" /\ toArd = <<>>
      /\ \A a : toArd = <<a>> => ardPc = "wait" /\ todo \in Still
      /\ toArd = <<>> \/ \E a : toArd = <<a>>
  <2>1. todo \notin Still => Serving
    BY <1>1, WaysAre DEF ForFront, Ways, Typed, Still, Serving
  <2> QED BY <1>1, <2>1, TailOfOne DEF OneAtATime
<1>3. ardPc = "wait" => barrier = 0
  BY <1>1 DEF Shut
\* What leaves the round, the rows and the car alone.
<1>F. ASSUME UNCHANGED <<front, picture, todo, number, type, spot, carnum>>, toArd' \in {toArd, <<>>},
             ardPc' = "wait" => front # NoCar
      PROVE  ForFront'
  BY <1>1, <1>F, TailOfOne DEF ForFront, Allowed, Booked
\* A step of the round, before the answer.
<1>R. ASSUME UNCHANGED <<front, picture, ardPc, toArd, number>>, todo \notin Still, todo' \in Ways,
             todo' \in Typed => type' = -1 \/ number \in DOMAIN CarType,
             todo' \in Booking => \A s \in Spots : s = spot' => carnum'[s] = number
      PROVE  ForFront'
  BY <1>1, <1>2, <1>R, TailOfOne DEF ForFront
<1>4. ASSUME NEW c \in Cars, CarComes(c) PROVE ForFront'
  <2>1. ardPc = "loop" /\ todo \in Still /\ toArd = <<>>
    BY <1>2, <1>4 DEF CarComes
  <2> QED BY <1>4, <2>1, WaysAre, TailOfOne DEF CarComes, ForFront, ard, Booking, Typed, Still, Ways
<1>5. CASE CarGoes
  <2>1. ardPc # "wait" /\ todo \in Still /\ toArd = <<>>
    BY <1>2, <1>3, <1>5 DEF CarGoes
  <2> QED BY <1>5, <2>1, WaysAre, TailOfOne DEF CarGoes, ForFront, ard, Booking, Typed, Still, Ways
<1>6. CASE ArdLoop
  <2>1. ardPc' = "wait" => front # NoCar
    <3>1. PICK d \in Distance : ArdDetect(d) \/ ArdClear(d) \/ ArdPrint(d)
      BY <1>6 DEF ArdLoop
    <3>2. CASE ArdDetect(d)
      BY <1>0, <3>1, <3>2 DEF ArdDetect, Distance
    <3>3. CASE ArdClear(d) \/ ArdPrint(d)
      BY <1>6, <3>3 DEF ArdLoop, ArdClear, ArdPrint, ard
    <3> QED BY <3>1, <3>2, <3>3
  <2> QED BY <1>6, <1>F, <2>1 DEF ArdLoop, env, db
<1>7. CASE ArdLower
  BY <1>7, <1>F DEF ArdLower, env, db
<1>8. CASE ArdAnswer
  <2>1. toArd' = <<>>
    BY <1>2, <1>8, TailOfOne DEF ArdAnswer
  <2> QED BY <1>8, <1>F, <2>1 DEF ArdAnswer, env, db
<1>9. CASE Look
  <2>1. /\ toPi # <<>> /\ Head(toPi) = "S" /\ UNCHANGED <<front, picture, ardPc, toArd>>
        /\ todo = <<>> /\ ((todo' \in Still /\ number' = number) \/ (todo' = July20Round /\ number' = picture))
    BY <1>0, <1>1, <1>9 DEF Look, Hears, OnS, Unasked, env, ard, Ended, Still
  <2>2. Asked
    <3>1. Len(toPi) \in Nat \ {0} /\ Head(toPi) = toPi[1]
      BY <1>1, <2>1, TailOf, Zenon DEF TypeOK
    <3>2. 1 \in 1..Len(toPi)
      BY <3>1
    <3> QED BY <2>1, <3>1, <3>2 DEF Asked, None
  <2>3. ardPc = "wait" /\ toArd = <<>> /\ picture = front /\ front # NoCar
    BY <1>1, <2>2 DEF OneAtATime, ForFront
  <2>4. todo' \notin Typed /\ todo' \in Ways
    BY <2>1, WaysAre DEF Typed, Still, Ways
  <2> QED BY <2>1, <2>3, <2>4, TailOfOne DEF ForFront, Booking, Typed, Still
<1>10. CASE Skip
  BY <1>1, <1>10, <1>F DEF Skip, env, ard, db, ForFront
<1>11. CASE SearchType
  <2>1. /\ Head(todo) = "type" /\ todo # <<>> /\ todo' = Tail(todo)
        /\ UNCHANGED <<front, picture, ardPc, toArd, number>>
        /\ type' = (IF number \in DOMAIN CarType THEN CarType[number] ELSE -1)
    BY <1>0, <1>11 DEF SearchType, At, env, ard
  <2>2. todo' = Way4
    BY <1>1, <2>1, WaysAre DEF ForFront, Ways, Typed, Still
  <2> QED BY <1>R, <2>1, <2>2, WaysAre DEF Ways, Typed, Still, Booking
<1>12. CASE CheckInOut
  BY <1>1, <1>12, WaysAre DEF CheckInOut, ForFront, Ways, Typed, Still
<1>13. CASE SearchSpot
  <2>1. /\ Head(todo) = "search" /\ todo # <<>> /\ todo' = Tail(todo)
        /\ UNCHANGED <<front, picture, ardPc, toArd, number, type>>
    BY <1>13 DEF SearchSpot, At, env, ard
  <2>2. todo = Way4 /\ todo' = Way3
    BY <1>1, <2>1, WaysAre DEF ForFront, Ways, Typed, Still
  <2>3. type = -1 \/ number \in DOMAIN CarType
    BY <1>1, <2>2 DEF ForFront, Typed
  <2> QED BY <1>R, <2>1, <2>2, <2>3, WaysAre DEF Ways, Typed, Still, Booking
<1>14. CASE UpdateSpot
  <2>1. /\ Head(todo) = "update" /\ todo # <<>> /\ todo' = Tail(todo)
        /\ UNCHANGED <<front, picture, ardPc, toArd, number, type, spot>>
        /\ carnum' = [s \in Spots |-> IF s # spot THEN carnum[s] ELSE IF inout = 1 THEN number ELSE Zero]
    BY <1>0, <1>14 DEF UpdateSpot, At, env, ard
  <2>2. todo = Way3 /\ todo' = Way2
    BY <1>1, <2>1, WaysAre DEF ForFront, Ways, Typed, Still
  <2>3. type = -1 \/ number \in DOMAIN CarType
    BY <1>1, <2>2 DEF ForFront, Typed
  <2>4. \A s \in Spots : s = spot' => carnum'[s] = number
    BY <1>1, <2>1 DEF Entry
  <2> QED BY <1>R, <2>1, <2>2, <2>3, <2>4, WaysAre DEF Ways, Typed, Still
<1>15. CASE InsertLog
  <2>1. /\ Head(todo) = "log" /\ todo # <<>> /\ todo' = Tail(todo)
        /\ UNCHANGED <<front, picture, ardPc, toArd, number, type, spot, carnum>>
    BY <1>15 DEF InsertLog, At, env, ard, db
  <2>2. todo = Way2 /\ todo' = Way1
    BY <1>1, <2>1, WaysAre DEF ForFront, Ways, Typed, Still
  <2>3. type = -1 \/ number \in DOMAIN CarType
    BY <1>1, <2>2 DEF ForFront, Typed
  <2>4. \A s \in Spots : s = spot => carnum[s] = number
    BY <1>1, <2>2 DEF ForFront, Booking
  <2> QED BY <1>R, <2>1, <2>2, <2>3, <2>4, WaysAre DEF Ways, Typed, Still
<1>16. CASE SendMsg
  <2>1. /\ Head(todo) = "reply" /\ todo # <<>> /\ todo' = Tail(todo) /\ toArd' = Append(toArd, Answer)
        /\ UNCHANGED <<front, picture, ardPc, number, carnum>>
    BY <1>16 DEF SendMsg, At, env, ard, db
  <2>2. todo = Way1 /\ todo' = <<>> /\ todo \notin Still
    BY <1>1, <2>1, WaysAre DEF ForFront, Ways, Typed, Still
  <2>3. toArd' = <<Answer>>
    BY <1>2, <2>1, <2>2
  <2>4. number = front /\ number # Zero /\ front # NoCar
    BY <1>1, <1>2, <2>1, <2>2, EarlyAssumption DEF ForFront, TypeOK
  <2>5. ASSUME ~Refused(Answer) PROVE Allowed
    <3>1. type # -1 /\ spot \in Spots
      BY <1>1, <2>4, <2>5, AnswerFields DEF TypeOK, Places
    <3>2. number \in DOMAIN CarType /\ carnum[spot] = number
      BY <1>1, <2>2, <3>1 DEF ForFront, Typed, Booking
    <3> QED BY <2>4, <3>1, <3>2 DEF Allowed, Booked
  <2>6. \A a : toArd' = <<a>> => a = Answer
    BY <2>3
  <2> QED BY <1>1, <2>1, <2>2, <2>4, <2>5, <2>6, WaysAre DEF ForFront, Allowed, Booked, Booking, Typed, Still, Ways
<1>17. CASE Tell
  BY <1>1, <1>17, WaysAre DEF Tell, ForFront, Ways, Typed, Still
<1>18. CASE Restart
  BY <1>1, <1>18, WaysAre, TailOfOne DEF Restart, env, ForFront, Booking, Typed, Still, Ways
<1>19. CASE UNCHANGED vars
  BY <1>1, <1>19, <1>F DEF vars, env, ard, db, ForFront
<1> QED BY <1>4, <1>5, <1>6, <1>7, <1>8, <1>9, <1>10, <1>11, <1>12, <1>13, <1>14, <1>15, <1>16, <1>17,
           <1>18, <1>19 DEF Next, Arduino, RaspberryPi

(***************************************************************************)
(* The entry program that waits for "S" (220720 Capture.cpp:73-434) opens   *)
(* the gate to registered cars that have a spot, for any cars and spots and *)
(* over lost images and restarts.                                          *)
(***************************************************************************)
THEOREM OpensToBooked == Spec => OpensForBooked
<1>1. Init => JulyInv
  <2>1. Init => Shut
    BY DEF Init, Shut
  <2>2. Init => ForFront
    BY WaysAre, TailOfOne DEF Init, ForFront, Booking, Typed, Still, Ways
  <2> QED BY <2>1, <2>2, AwaitedInit, EntryInit DEF JulyInv, July
<1>2. JulyInv /\ [Next]_vars => JulyInv'
  BY AwaitedNext, EntryNext, ShutNext, JulyNext DEF JulyInv, Filling, Ordered
<1>3. JulyInv /\ [Next]_vars =>
        [Opens /\ program = July20 /\ Without({"query", "plate", "echo"})
           => front \in DOMAIN CarType /\ Booked(front) # {}]_vars
  <2> SUFFICES ASSUME JulyInv, Next, Opens, program = July20, Without({"query", "plate", "echo"})
               PROVE  Allowed
    BY DEF Allowed
  <2>1. ArdAnswer
    <3>1. ~UNCHANGED barrier /\ barrier' # 0
      BY DEF Opens
    <3>2. \A c \in Cars : ~CarComes(c)
      BY <3>1 DEF CarComes, ard
    <3>3. ~ArdLoop /\ ~ArdLower
      BY <3>1 DEF ArdLoop, ArdDetect, ArdClear, ArdPrint, ArdLower, ard
    <3>4. ~CarGoes /\ ~Look /\ ~Skip /\ ~SearchType /\ ~CheckInOut /\ ~SearchSpot
      BY <3>1 DEF CarGoes, Look, Skip, SearchType, CheckInOut, SearchSpot, ard
    <3>5. ~UpdateSpot /\ ~InsertLog /\ ~SendMsg /\ ~Tell /\ ~Restart
      BY <3>1 DEF UpdateSpot, InsertLog, SendMsg, Tell, Restart, ard
    <3> QED BY <3>2, <3>3, <3>4, <3>5 DEF Next, Arduino, RaspberryPi
  <2>2. PICK a : toArd = <<a>>
    BY <2>1, July20Is DEF ArdAnswer, JulyInv, Awaited, OneAtATime
  <2>3. Head(toArd) = a
    BY <2>2
  <2>4. ~Refused(a)
    BY <2>1, <2>3 DEF ArdAnswer, Opens
  <2> QED BY <2>2, <2>4 DEF JulyInv, July, ForFront
<1> QED BY <1>1, <1>2, <1>3, PTL DEF Spec, OpensForBooked
=============================================================================
