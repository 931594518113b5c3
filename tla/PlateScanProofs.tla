--------------------------- MODULE PlateScanProofs ---------------------------
(***************************************************************************)
(* Theorems about PlateScan, for any pictures and any texts.                *)
(***************************************************************************)
EXTENDS PlateScan, FiniteSetTheorems, WellFoundedInduction, TLAPS

\* A set of numbers that is not empty has a smallest one.
LEMMA SmallestOf ==
  ASSUME NEW S \in SUBSET Nat, S # {}
  PROVE  \E s \in S : \A t \in S : s <= t
<1> DEFINE Below == {ss \in Nat \X Nat : ss[1] < ss[2]}
<1>1. IsWellFoundedOn(Below, Nat)
  BY NatLessThanWellFounded DEF OpToRel
<1>2. \E s \in S : \A t \in S : ~(<<t, s>> \in Below)
  <2> HIDE DEF Below
  <2> QED BY <1>1, WFMin, Zenon
<1>3. PICK s \in S : \A t \in S : ~(<<t, s>> \in Below)
  BY <1>2
<1>4. \A t \in S : s <= t
  <2> SUFFICES ASSUME NEW t \in S PROVE s <= t
    OBVIOUS
  <2>1. t \in Nat /\ s \in Nat
    OBVIOUS
  <2>2. <<t, s>> \notin Below
    BY <1>3
  <2>3. ~(t < s)
    BY <2>1, <2>2
  <2> QED BY <2>1, <2>3
<1> QED BY <1>4

-----------------------------------------------------------------------------
(***************************************************************************)
(* The snake stops at the first rectangle that is too far to its right      *)
(* (Blocking_Raspberry.cpp:200).  When the rectangles are in order of x     *)
(* that loses it no friend: however many there are and wherever they lie.   *)
(***************************************************************************)
LEMMA ElementOf ==
  ASSUME NEW R, NEW q \in Seq(R), NEW k \in 1..Len(q)
  PROVE  q[k] \in R
OBVIOUS

LEMMA ColumnOf ==
  ASSUME NEW r \in [x : Int, y : Int, w : Nat, h : Nat]
  PROVE  r.x \in Int
OBVIOUS

Ordered(b) == \A k, l \in 1..Size(b) : k <= l => b[k].x <= b[l].x

THEOREM NoFriendIsLost ==
  ASSUME NEW b \in Seq([x : Int, y : Int, w : Nat, h : Nat]), Ordered(b),
         program.reach \in Nat, NEW i \in 1..Size(b)
  PROVE  Eaten(b, i) =
           {j \in (i + 1)..Size(b) :
              DeltaX(b[i], b[j]) <= program.reach /\ OnLine(b[i], b[j], program.slope)}
<1>1. Size(b) \in Nat /\ Size(b) + 1 = Len(b)
  BY DEF Size
<1>2. \A j \in 1..Size(b) : b[j].x \in Int
  <2> SUFFICES ASSUME NEW j \in 1..Size(b) PROVE b[j].x \in Int
    OBVIOUS
  <2>1. j \in 1..Len(b)
    BY <1>1
  <2>2. b[j] \in [x : Int, y : Int, w : Nat, h : Nat]
    BY <2>1, ElementOf, Zenon
  <2> QED BY <2>2, ColumnOf, Zenon
<1>3. \A j \in (i + 1)..Size(b) : DeltaX(b[i], b[j]) = b[j].x - b[i].x
  <2> SUFFICES ASSUME NEW j \in (i + 1)..Size(b) PROVE DeltaX(b[i], b[j]) = b[j].x - b[i].x
    OBVIOUS
  <2>1. j \in 1..Size(b) /\ i <= j
    BY <1>1
  <2>2. b[i].x <= b[j].x
    BY <2>1 DEF Ordered
  <2>3. b[i].x \in Int /\ b[j].x \in Int
    BY <1>2, <2>1
  <2>4. \A p, q \in Int : p <= q => (IF p > q THEN p - q ELSE q - p) = q - p
    OBVIOUS
  <2>5. DeltaX(b[i], b[j]) = IF b[i].x > b[j].x THEN b[i].x - b[j].x ELSE b[j].x - b[i].x
    BY DEF DeltaX, Distance
  <2> QED BY <2>2, <2>3, <2>4, <2>5, Zenon
<1>4. \A j \in (i + 1)..Size(b) : DeltaX(b[i], b[j]) \in Int
  <2> SUFFICES ASSUME NEW j \in (i + 1)..Size(b) PROVE DeltaX(b[i], b[j]) \in Int
    OBVIOUS
  <2>1. j \in 1..Size(b)
    BY <1>1
  <2>2. b[i].x \in Int /\ b[j].x \in Int
    BY <1>2, <2>1, Zenon
  <2>3. \A p, q \in Int : p - q \in Int
    OBVIOUS
  <2>4. b[j].x - b[i].x \in Int
    BY <2>2, <2>3, Zenon
  <2> QED BY <1>3, <2>4, Zenon
<1>5. \A j, k \in (i + 1)..Size(b) : j <= k => DeltaX(b[i], b[j]) <= DeltaX(b[i], b[k])
  <2> SUFFICES ASSUME NEW j \in (i + 1)..Size(b), NEW k \in (i + 1)..Size(b), j <= k
               PROVE  DeltaX(b[i], b[j]) <= DeltaX(b[i], b[k])
    OBVIOUS
  <2>1. j \in 1..Size(b) /\ k \in 1..Size(b)
    BY <1>1
  <2>2. b[j].x <= b[k].x
    BY <2>1, Zenon DEF Ordered
  <2>3. b[i].x \in Int /\ b[j].x \in Int /\ b[k].x \in Int
    BY <1>2, <2>1, Zenon
  <2>4. \A p, q, r \in Int : q <= r => q - p <= r - p
    OBVIOUS
  <2>5. b[j].x - b[i].x <= b[k].x - b[i].x
    BY <2>2, <2>3, <2>4, Zenon
  <2>6. DeltaX(b[i], b[j]) = b[j].x - b[i].x /\ DeltaX(b[i], b[k]) = b[k].x - b[i].x
    BY <1>3, Zenon
  <2> QED BY <2>5, <2>6, Zenon
<1> DEFINE D(j) == DeltaX(b[i], b[j])
           Far == TooFar(b, i)
           last == LastSeen(b, i)
<1>6. Far = {j \in (i + 1)..Size(b) : D(j) > program.reach}
  BY DEF TooFar
<1>7. last = IF Far = {} THEN Size(b) ELSE CHOOSE j \in Far : \A k \in Far : j <= k
  BY DEF LastSeen
<1>8. /\ \A j \in (i + 1)..Size(b) : D(j) \in Int
      /\ \A j, k \in (i + 1)..Size(b) : j <= k => D(j) <= D(k)
  BY <1>4, <1>5, Zenon
<1> HIDE DEF D, Far, last
<1>9. (i + 1)..last \ Far = {j \in (i + 1)..Size(b) : D(j) <= program.reach}
  <2>1. CASE Far = {}
    <3>1. last = Size(b)
      BY <1>7, <2>1
    <3>2. \A j \in (i + 1)..Size(b) : D(j) <= program.reach
      <4> SUFFICES ASSUME NEW j \in (i + 1)..Size(b) PROVE D(j) <= program.reach
        OBVIOUS
      <4>1. ~(D(j) > program.reach)
        BY <1>6, <2>1
      <4> QED BY <1>8, <4>1
    <3> QED BY <2>1, <3>1, <3>2
  <2>2. CASE Far # {}
    <3>1. Far \in SUBSET Nat
      BY <1>1, <1>6
    <3>2. \E f \in Far : \A k \in Far : f <= k
      <4> QED BY <2>2, <3>1, SmallestOf
    <3>3. last \in Far /\ \A k \in Far : last <= k
      <4> QED BY <1>7, <2>2, <3>2
    <3>4. last \in (i + 1)..Size(b) /\ D(last) > program.reach /\ D(last) \in Int
      BY <1>6, <1>8, <3>3
    <3>5. ASSUME NEW j \in (i + 1)..last, j \notin Far
          PROVE  j \in (i + 1)..Size(b) /\ D(j) <= program.reach
      <4>1. j \in (i + 1)..Size(b)
        BY <1>1, <3>4
      <4>2. ~(D(j) > program.reach)
        BY <1>6, <3>5, <4>1
      <4> QED BY <1>8, <4>1, <4>2
    <3>6. ASSUME NEW j \in (i + 1)..Size(b), D(j) <= program.reach
          PROVE  j \in (i + 1)..last /\ j \notin Far
      <4>1. D(j) \in Int
        BY <1>8
      <4>2. j \notin Far
        BY <1>6, <3>6, <4>1
      <4>3. ~(last <= j)
        <5>1. last <= j => D(last) <= D(j)
          BY <1>8, <3>4
        <5> QED BY <3>4, <3>6, <4>1, <5>1
      <4> QED BY <1>1, <3>4, <4>2, <4>3
    <3> QED BY <3>5, <3>6
  <2> QED BY <2>1, <2>2
<1>10. Eaten(b, i) = {j \in (i + 1)..last \ Far : OnLine(b[i], b[j], program.slope)}
  BY DEF Eaten, Far, last
<1> QED BY <1>9, <1>10 DEF D

-----------------------------------------------------------------------------
\* What a program that is asked needs to know of itself.
Reports == program \in Programs /\ (program.asked => program.reads) /\ ReportsOnlyRead

LEMMA ProgramsRead == \A p \in Programs : p.asked => p.reads
BY DEF Programs, Gate, July20, July20Socket, July21, July21Socket, July22, July22Socket, July22InOut,
       July24, July24Socket, July24InOut, FindVehicle, FindVehicleFiltered, Histogram, Histogram2, Histogram3,
       TotalCamera, Morphology

\* find_number() answers 2 when it has found four digits.
LEMMA FoundFour ==
  ASSUME NEW t \in Seq(STRING), Found(t) = 2
  PROVE  Len(SubSeq(t, FirstSpace(t) + 1, FirstSpace(t) + 4)) = 4
<1> DEFINE f == FirstSpace(t)
<1>1. SpaceIn(t) # {} /\ FourDigits(t, f + 1)
  BY DEF Found
<1>2. SpaceIn(t) \in SUBSET Nat
  <2>1. Len(t) \in Nat
    OBVIOUS
  <2>2. SpaceIn(t) \subseteq 1..Len(t)
    BY Zenon DEF SpaceIn
  <2>3. 1..Len(t) \subseteq Nat
    BY <2>1
  <2> QED BY <2>2, <2>3
<1>3. f \in SpaceIn(t)
  BY <1>1, <1>2, SmallestOf DEF FirstSpace
<1>4. f \in 1..Len(t)
  BY <1>3, Zenon DEF SpaceIn
<1>5. f + 4 <= Len(t)
  BY <1>1, <1>4 DEF FourDigits
<1> HIDE DEF f
<1>6. Len(SubSeq(t, f + 1, f + 4)) = 4
  BY <1>4, <1>5
<1> QED BY <1>6 DEF f

LEMMA ReportsNext == Reports /\ [Next]_vars => Reports'
<1> SUFFICES ASSUME Reports, [Next]_vars PROVE Reports'
  OBVIOUS
<1> USE DEF Reports, ReportsOnlyRead
<1>1. ASSUME NEW n \in {2, 3}, StepCallback(n) PROVE Reports'
  BY <1>1 DEF StepCallback
<1>2. ASSUME NEW p \in Pictures, TakePicture(p) PROVE Reports'
  BY <1>2 DEF TakePicture
<1>3. CASE Filter
  BY <1>3 DEF Filter
<1>4. CASE Sort
  BY <1>4 DEF Sort
<1>5. CASE Snake
  BY <1>5 DEF Snake
<1>6. CASE Frame
  BY <1>6 DEF Frame
<1>7. CASE Collect
  BY <1>7 DEF Collect
<1>8. ASSUME NEW t \in Texts, ReadText(t) PROVE Reports'
  <2>1. program' = program /\ t \in Seq(STRING)
    BY <1>8, TextAssumption DEF ReadText
  <2>2. CASE program.asked /\ Found(t) = 2
    <3>1. numbers' = SubSeq(t, FirstSpace(t) + 1, FirstSpace(t) + 4)
      BY <1>8, <2>2 DEF ReadText, FindNumber
    <3> QED BY <2>1, <2>2, <3>1, FoundFour
  <2>3. CASE program.asked /\ Found(t) # 2
    <3>1. numbers' = numbers /\ mode' = mode
      BY <1>8, <2>3 DEF ReadText, FindNumber
    <3> QED BY <2>1, <3>1
  <2>4. CASE ~program.asked
    BY <2>1, <2>4
  <2> QED BY <2>2, <2>3, <2>4
<1>9. CASE Restart
  BY <1>9 DEF Restart, FirstMode
<1>10. CASE UNCHANGED vars
  BY <1>10 DEF vars
<1> QED BY <1>1, <1>2, <1>3, <1>4, <1>5, <1>6, <1>7, <1>8, <1>9, <1>10 DEF Next

(***************************************************************************)
(* A program that was asked never says that it has finished without a       *)
(* number of four characters (total_camera.cpp:171-173), whatever the OCR   *)
(* makes of the pictures.                                                   *)
(***************************************************************************)
THEOREM ReportsAreRead == Spec => []ReportsOnlyRead
<1>1. Init => Reports
  BY ProgramsRead DEF Init, Reports, ReportsOnlyRead, FirstMode
<1>2. Reports => ReportsOnlyRead
  BY DEF Reports
<1> QED BY <1>1, <1>2, ReportsNext, PTL DEF Spec

-----------------------------------------------------------------------------
(***************************************************************************)
(* Induction, for a set of numbers: the least number outside it would have  *)
(* one before it.                                                           *)
(***************************************************************************)
LEMMA Induct ==
  ASSUME NEW S \in SUBSET Nat, 0 \in S, \A n \in S : n + 1 \in S
  PROVE  S = Nat
<1> DEFINE Below == {nn \in Nat \X Nat : nn[1] < nn[2]}
           Rest == Nat \ S
<1> SUFFICES ASSUME Rest # {} PROVE FALSE
  OBVIOUS
<1>1. IsWellFoundedOn(Below, Nat)
  BY NatLessThanWellFounded DEF OpToRel
<1>2. \E m \in Rest : \A n \in Rest : ~(<<n, m>> \in Below)
  <2> HIDE DEF Below
  <2> QED BY <1>1, WFMin, Zenon
<1>3. PICK m \in Rest : \A n \in Rest : ~(<<n, m>> \in Below)
  BY <1>2
<1>4. m # 0 /\ m - 1 \in Nat /\ m \in Nat /\ m \notin S
  OBVIOUS
<1>5. <<m - 1, m>> \in Below
  BY <1>4
<1>6. m - 1 \in S
  BY <1>3, <1>4, <1>5
<1>7. (m - 1) + 1 \in S
  BY <1>6
<1> QED BY <1>4, <1>7

-----------------------------------------------------------------------------
\* A set of the first numbers that is not empty has a greatest one.
LEMMA GreatestOf ==
  ASSUME NEW n \in Nat, NEW s \in SUBSET (1..n), s # {}
  PROVE  Max(s) \in s
<1> DEFINE P(k) == \A t \in SUBSET (1..k) : t # {} => \E x \in t : \A y \in t : y <= x
           S == {k \in Nat : P(k)}
<1>1. 0 \in S
  <2>1. 1..0 = {}
    OBVIOUS
  <2> QED BY <2>1
<1>2. ASSUME NEW k \in S PROVE k + 1 \in S
  <2>1. k \in Nat /\ P(k)
    OBVIOUS
  <2>2. ASSUME NEW t \in SUBSET (1..(k + 1)), t # {} PROVE \E x \in t : \A y \in t : y <= x
    <3>1. CASE k + 1 \in t
      <4>1. \A y \in t : y <= k + 1
        BY <2>1
      <4> QED BY <3>1, <4>1
    <3>2. CASE k + 1 \notin t
      <4>1. t \in SUBSET (1..k)
        BY <2>1, <3>2
      <4> QED BY <2>1, <2>2, <4>1
    <3> QED BY <3>1, <3>2
  <2> QED BY <2>1, <2>2
<1> HIDE DEF S
<1>3. S = Nat
  <2>1. S \in SUBSET Nat
    BY DEF S
  <2> QED BY <1>1, <1>2, <2>1, Induct
<1>4. \E x \in s : \A y \in s : y <= x
  BY <1>3 DEF S
<1>5. \E x \in s : \A y \in s : x >= y
  <2>1. \A x, y \in s : y <= x => x >= y
    OBVIOUS
  <2> QED BY <1>4, <2>1
<1> QED BY <1>5, Zenon DEF Max

LEMMA GreatestBelow ==
  ASSUME NEW k \in Nat \ {0}
  PROVE  Max(1..k) = k /\ 1..k # {} /\ (1..k) \ {k} = 1..(k - 1)
<1>1. k \in 1..k /\ \A y \in 1..k : k >= y
  OBVIOUS
<1>2. \A x \in 1..k : (\A y \in 1..k : x >= y) => x = k
  BY <1>1
<1>3. Max(1..k) = k
  BY <1>1, <1>2 DEF Max
<1> QED BY <1>3

(***************************************************************************)
(* FoldLeft is a choice of a function on sets of positions that unrolls to  *)
(* the loop over them.  There is such a function when each turn stays in    *)
(* the set of values that the loop works on.                                *)
(***************************************************************************)
StaysIn(G, V, n) == \A i \in 1..n : \A v \in V : G[i][v] \in V
Unrolls(f, b, G, n) ==
  \A s \in SUBSET (1..n) : f[s] = IF s = {} THEN b ELSE G[Max(s)][f[s \ {Max(s)}]]

LEMMA FoldExists ==
  ASSUME NEW V, NEW b \in V, NEW G, NEW N \in Nat, StaysIn(G, V, N)
  PROVE  \E f \in [SUBSET (1..N) -> V] : Unrolls(f, b, G, N)
<1>0. \A i \in 1..N : \A v \in V : G[i][v] \in V
  BY DEF StaysIn
<1> DEFINE E(f, n) == \A s \in SUBSET (1..n) : f[s] = IF s = {} THEN b ELSE G[Max(s)][f[s \ {Max(s)}]]
           Has(n) == \E f \in [SUBSET (1..n) -> V] : E(f, n)
           S == {n \in Nat : n <= N => Has(n)}
<1>1. Has(0)
  <2> DEFINE g == [s \in SUBSET (1..0) |-> b]
  <2>1. \A s \in SUBSET (1..0) : s = {}
    OBVIOUS
  <2>2. g \in [SUBSET (1..0) -> V] /\ E(g, 0)
    BY <2>1
  <2> QED BY <2>2
<1>2. ASSUME NEW n \in Nat, n + 1 <= N, Has(n) PROVE Has(n + 1)
  <2>0. n \in Nat /\ n + 1 \in 1..N
    BY <1>2
  <2>1. PICK f \in [SUBSET (1..n) -> V] : E(f, n)
    BY <1>2
  <2> DEFINE g == [s \in SUBSET (1..(n + 1)) |-> IF n + 1 \in s THEN G[n + 1][f[s \ {n + 1}]] ELSE f[s]]
  <2>2. ASSUME NEW s \in SUBSET (1..(n + 1)), n + 1 \in s
        PROVE  Max(s) = n + 1 /\ s \ {n + 1} \in SUBSET (1..n) /\ s # {} /\ n + 1 \notin s \ {n + 1}
    <3>1. \A x \in s : x \in Int /\ x <= n + 1
      BY <2>0
    <3>2. n + 1 \in Int /\ \A y \in s : n + 1 >= y
      BY <2>0, <3>1
    <3>3. \A x \in s : (\A y \in s : x >= y) => x = n + 1
      BY <2>2, <3>1, <3>2
    <3>4. Max(s) = n + 1
      BY <2>2, <3>2, <3>3 DEF Max
    <3>5. s \ {n + 1} \in SUBSET (1..n)
      BY <2>0
    <3> QED BY <2>2, <3>4, <3>5
  <2>3. ASSUME NEW s \in SUBSET (1..(n + 1)), n + 1 \notin s
        PROVE  s \in SUBSET (1..n) /\ (\A x : s \ {x} \in SUBSET (1..n) /\ n + 1 \notin s \ {x})
    <3>1. s \in SUBSET (1..n)
      BY <2>0, <2>3
    <3>2. \A x : s \ {x} \subseteq s
      OBVIOUS
    <3>3. \A x : s \ {x} \in SUBSET (1..n)
      BY <3>1, <3>2, Zenon
    <3>4. \A x : n + 1 \notin s \ {x}
      BY <2>3, <3>2, Zenon
    <3> QED BY <3>1, <3>3, <3>4
  <2>4. g \in [SUBSET (1..(n + 1)) -> V]
    <3>1. ASSUME NEW s \in SUBSET (1..(n + 1))
          PROVE  (IF n + 1 \in s THEN G[n + 1][f[s \ {n + 1}]] ELSE f[s]) \in V
      <4>1. CASE n + 1 \in s
        <5>1. s \ {n + 1} \in SUBSET (1..n)
          BY <2>2, <4>1
        <5>2. f[s \ {n + 1}] \in V
          BY <5>1, Zenon
        <5> QED BY <1>0, <2>0, <4>1, <5>2
      <4>2. CASE n + 1 \notin s
        BY <2>3, <4>2
      <4> QED BY <4>1, <4>2
    <3> QED BY <3>1
  <2>5. E(g, n + 1)
    <3> SUFFICES ASSUME NEW s \in SUBSET (1..(n + 1))
                 PROVE  g[s] = IF s = {} THEN b ELSE G[Max(s)][g[s \ {Max(s)}]]
      OBVIOUS
    <3>1. CASE n + 1 \in s
      <4>1. g[s] = G[n + 1][f[s \ {n + 1}]]
        BY <3>1
      <4>2. s \ {n + 1} \in SUBSET (1..(n + 1))
        OBVIOUS
      <4>3. g[s \ {n + 1}] = f[s \ {n + 1}]
        BY <2>2, <3>1, <4>2
      <4> HIDE DEF g
      <4> QED BY <2>2, <3>1, <4>1, <4>3
    <3>2. CASE n + 1 \notin s
      <4>1. g[s] = f[s]
        BY <3>2
      <4>2. \A x : s \ {x} \in SUBSET (1..(n + 1)) /\ n + 1 \notin s \ {x}
        BY <3>2
      <4>3. \A x : g[s \ {x}] = f[s \ {x}]
        BY <4>2
      <4>4. f[s] = IF s = {} THEN b ELSE G[Max(s)][f[s \ {Max(s)}]]
        BY <2>1, <2>3, <3>2
      <4> HIDE DEF g
      <4> QED BY <4>1, <4>3, <4>4
    <3> QED BY <3>1, <3>2
  <2> HIDE DEF g, E
  <2> QED BY <2>4, <2>5, Zenon
<1> HIDE DEF Has
<1>3. S = Nat
  <2>1. S \in SUBSET Nat
    OBVIOUS
  <2>2. 0 \in S
    BY <1>1
  <2>3. ASSUME NEW n \in S PROVE n + 1 \in S
    <3>1. n \in Nat /\ (n + 1 <= N => n <= N)
      OBVIOUS
    <3> QED BY <1>2, <3>1
  <2> HIDE DEF S
  <2> QED BY <2>1, <2>2, <2>3, Induct
<1>4. Has(N)
  BY <1>3
<1> QED BY <1>4, Zenon DEF Has, Unrolls

-----------------------------------------------------------------------------
\* What stands in boundRect2: rectangles, and the empty one in cell 0.
Cell == Box \cup {Empty}
StoreOne(p, b, i) == IF FitsACharacter(p[i]) THEN Append(b, p[i]) ELSE b
StoreFold(f, p) ==
  f = [s \in SUBSET DOMAIN p |-> IF s = {} THEN <<Empty>> ELSE StoreOne(p, f[s \ {Max(s)}], Max(s))]

\* The filter as the loop that it is (Blocking_Raspberry.cpp:164).
LEMMA StoredLoop ==
  ASSUME NEW p \in Seq(Box)
  PROVE  \E r : /\ r[0] = <<Empty>> /\ Stored(p) = r[Len(p)]
                /\ \A k \in 1..Len(p) : r[k] = StoreOne(p, r[k - 1], k)
<1> DEFINE n == Len(p)
           G == [i \in 1..n |-> [b \in Seq(Cell) |-> StoreOne(p, b, i)]]
           F == CHOOSE f : StoreFold(f, p)
           r == [k \in 0..n |-> F[1..k]]
<1>1. n \in Nat /\ DOMAIN p = 1..n /\ <<Empty>> \in Seq(Cell)
  BY DEF Cell
<1>2. \A i \in 1..n : \A b \in Seq(Cell) : StoreOne(p, b, i) \in Seq(Cell)
  BY DEF StoreOne, Cell
<1>3. \A i \in 1..n : \A b \in Seq(Cell) : G[i][b] = StoreOne(p, b, i)
  OBVIOUS
<1>4. Stored(p) = F[DOMAIN p]
  BY Zenon DEF Stored, FoldLeft, MapThenFoldSet, StoreFold, StoreOne
<1> HIDE DEF n, G, F
<1>5. \A i \in 1..n : \A b \in Seq(Cell) : G[i][b] \in Seq(Cell)
  BY <1>2, <1>3
<1> DEFINE V == Seq(Cell)
           none == <<Empty>>
<1>6. PICK f \in [SUBSET (1..n) -> V] :
        \A s \in SUBSET (1..n) : f[s] = IF s = {} THEN none ELSE G[Max(s)][f[s \ {Max(s)}]]
  <2>1. n \in Nat /\ none \in V /\ StaysIn(G, V, n)
    BY <1>1, <1>5 DEF StaysIn
  <2> HIDE DEF V, none
  <2>2. \E f \in [SUBSET (1..n) -> V] : Unrolls(f, none, G, n)
    BY <2>1, FoldExists
  <2> QED BY <2>2, Zenon DEF Unrolls
<1>7. \A s \in SUBSET (1..n) : s # {} => G[Max(s)][f[s \ {Max(s)}]] = StoreOne(p, f[s \ {Max(s)}], Max(s))
  <2> SUFFICES ASSUME NEW s \in SUBSET (1..n), s # {}
               PROVE  G[Max(s)][f[s \ {Max(s)}]] = StoreOne(p, f[s \ {Max(s)}], Max(s))
    OBVIOUS
  <2>1. Max(s) \in 1..n /\ s \ {Max(s)} \in SUBSET (1..n)
    BY <1>1, GreatestOf
  <2>2. f[s \ {Max(s)}] \in Seq(Cell)
    BY <2>1, Zenon
  <2> QED BY <1>3, <2>1, <2>2, Zenon
<1>8. StoreFold(f, p)
  BY <1>1, <1>6, <1>7 DEF StoreFold
<1>9. StoreFold(F, p)
  BY <1>8, Zenon DEF F
<1>10. /\ F[1..0] = <<Empty>>
       /\ \A k \in 1..n : F[1..k] = StoreOne(p, F[1..(k - 1)], k)
  <2>1. \A s \in SUBSET (1..n) : F[s] = IF s = {} THEN <<Empty>> ELSE StoreOne(p, F[s \ {Max(s)}], Max(s))
    BY <1>1, <1>9 DEF StoreFold
  <2>2. 1..0 = {}
    OBVIOUS
  <2>3. \A k \in 1..n : k \in Nat \ {0} /\ 1..k \in SUBSET (1..n)
    BY <1>1
  <2> QED BY <2>1, <2>2, <2>3, GreatestBelow
<1>11. r[0] = <<Empty>> /\ Stored(p) = r[n] /\ \A k \in 1..n : r[k] = StoreOne(p, r[k - 1], k)
  <2>1. 0 \in 0..n /\ n \in 0..n /\ \A k \in 1..n : k \in 0..n /\ k - 1 \in 0..n
    BY <1>1
  <2> QED BY <1>1, <1>4, <1>10, <2>1
<1> QED BY <1>11, Zenon DEF n

-----------------------------------------------------------------------------
\* How often c is among the first k of p.
Among(c, p, k) == Cardinality({i \in 1..k : p[i] = c})

LEMMA AmongType ==
  ASSUME NEW c, NEW p, NEW k \in Nat
  PROVE  Among(c, p, k) \in Nat /\ IsFiniteSet({i \in 1..k : p[i] = c})
<1>1. IsFiniteSet(1..k)
  BY FS_Interval
<1>2. {i \in 1..k : p[i] = c} \in SUBSET (1..k)
  OBVIOUS
<1>3. IsFiniteSet({i \in 1..k : p[i] = c})
  BY <1>1, <1>2, FS_Subset
<1> QED BY <1>3, FS_CardinalityType DEF Among

LEMMA AmongOneMore ==
  ASSUME NEW c, NEW p, NEW k \in Nat
  PROVE  /\ Among(c, p, 0) = 0
         /\ Among(c, p, k + 1) = IF p[k + 1] = c THEN Among(c, p, k) + 1 ELSE Among(c, p, k)
<1> DEFINE S == {i \in 1..k : p[i] = c}
           T == {i \in 1..(k + 1) : p[i] = c}
<1>1. Among(c, p, 0) = 0
  <2>1. {i \in 1..0 : p[i] = c} = {}
    OBVIOUS
  <2> QED BY <2>1, FS_EmptySet DEF Among
<1>2. IsFiniteSet(S) /\ k + 1 \notin S
  BY AmongType
<1>3. T = IF p[k + 1] = c THEN S \cup {k + 1} ELSE S
  <2>1. \A i : i \in 1..(k + 1) <=> i \in 1..k \/ i = k + 1
    OBVIOUS
  <2> QED BY <2>1
<1>4. Cardinality(S \cup {k + 1}) = Cardinality(S) + 1
  <2> HIDE DEF S
  <2> QED BY <1>2, FS_AddElement
<1>5. Among(c, p, k) = Cardinality(S) /\ Among(c, p, k + 1) = Cardinality(T)
  BY Zenon DEF Among
<1> HIDE DEF S, T
<1> QED BY <1>1, <1>3, <1>4, <1>5

LEMMA OccursIsAmong ==
  ASSUME NEW c, NEW s
  PROVE  Occurs(c, s) = Among(c, s, Len(s))
BY Zenon DEF Occurs, Among

LEMMA AmongSame ==
  ASSUME NEW c, NEW p, NEW q, NEW k \in Nat, \A i \in 1..k : p[i] = q[i]
  PROVE  Among(c, p, k) = Among(c, q, k)
<1>1. {i \in 1..k : p[i] = c} = {i \in 1..k : q[i] = c}
  OBVIOUS
<1> QED BY <1>1 DEF Among

LEMMA OccursAppend ==
  ASSUME NEW T, NEW s \in Seq(T), NEW d \in T, NEW c
  PROVE  Occurs(c, Append(s, d)) = IF d = c THEN Occurs(c, s) + 1 ELSE Occurs(c, s)
<1> DEFINE t == Append(s, d)
           n == Len(s)
<1>1. n \in Nat /\ Len(t) = n + 1 /\ t[n + 1] = d /\ \A i \in 1..n : t[i] = s[i]
  OBVIOUS
<1> HIDE DEF t, n
<1>2. Occurs(c, t) = Among(c, t, n + 1) /\ Occurs(c, s) = Among(c, s, n)
  BY <1>1, OccursIsAmong DEF n
<1>3. Among(c, t, n) = Among(c, s, n)
  BY <1>1, AmongSame
<1>4. Among(c, t, n + 1) = IF t[n + 1] = c THEN Among(c, t, n) + 1 ELSE Among(c, t, n)
  BY <1>1, AmongOneMore
<1>5. Occurs(c, t) = IF d = c THEN Occurs(c, s) + 1 ELSE Occurs(c, s)
  BY <1>1, <1>2, <1>3, <1>4
<1> QED BY <1>5 DEF t

\* Two cells that change places change no number of occurrences.
LEMMA OccursSwap ==
  ASSUME NEW T, NEW s \in Seq(T), NEW t \in Seq(T), NEW c, Len(t) = Len(s),
         NEW j \in 1..Len(s), NEW k \in 1..Len(s), j # k,
         t[j] = s[k], t[k] = s[j], \A i \in 1..Len(s) : i # j /\ i # k => t[i] = s[i]
  PROVE  Occurs(c, t) = Occurs(c, s)
<1> DEFINE n == Len(s)
           A == {i \in 1..n : s[i] = c}
           B == {i \in 1..n : t[i] = c}
           f == [i \in A |-> IF i = j THEN k ELSE IF i = k THEN j ELSE i]
<1>1. n \in Nat
  OBVIOUS
<1>2. f \in [A -> B]
  OBVIOUS
<1>3. \A a, b \in A : f[a] = f[b] => a = b
  OBVIOUS
<1>4. \A b \in B : \E a \in A : f[a] = b
  <2> SUFFICES ASSUME NEW b \in B PROVE \E a \in A : f[a] = b
    OBVIOUS
  <2>1. CASE b = j
    <3>1. k \in A /\ f[k] = b
      BY <2>1
    <3> QED BY <3>1
  <2>2. CASE b = k
    <3>1. j \in A /\ f[j] = b
      BY <2>2
    <3> QED BY <3>1
  <2>3. CASE b # j /\ b # k
    <3>1. b \in A /\ f[b] = b
      BY <2>3
    <3> QED BY <3>1
  <2> QED BY <2>1, <2>2, <2>3
<1> HIDE DEF f
<1>5. f \in Bijection(A, B)
  BY <1>2, <1>3, <1>4, Zenon DEF Bijection, Injection, Surjection, IsInjective
<1>6. IsFiniteSet(A)
  <2> HIDE DEF n
  <2> QED BY <1>1, AmongType
<1>7. ExistsBijection(A, B)
  BY <1>5 DEF ExistsBijection
<1>8. Cardinality(B) = Cardinality(A)
  <2> HIDE DEF A, B
  <2> QED BY <1>6, <1>7, FS_Bijection
<1> QED BY <1>8, Zenon DEF Occurs

-----------------------------------------------------------------------------
\* What cell 0 and the characters are to the contours of a picture.
Holds(b, p) ==
  /\ Occurs(Empty, b) = 1
  /\ \A c \in Box : Occurs(c, b) = IF FitsACharacter(c) THEN Occurs(c, p) ELSE 0

LEMMA EmptyIsNoBox == Empty \notin Box /\ Box \subseteq Cell /\ Empty \in Cell
BY DEF Empty, Box, Cell

(***************************************************************************)
(* The filter keeps each rectangle that fits as often as the picture has it *)
(* and adds the empty one, however many there are.                          *)
(***************************************************************************)
LEMMA StoredHolds ==
  ASSUME NEW p \in Seq(Box)
  PROVE  Stored(p) \in Seq(Cell) /\ Stored(p) # <<>> /\ Holds(Stored(p), p)
<1> DEFINE n == Len(p)
<1>1. PICK r : /\ r[0] = <<Empty>> /\ Stored(p) = r[Len(p)]
               /\ \A k \in 1..Len(p) : r[k] = StoreOne(p, r[k - 1], k)
  BY StoredLoop
<1> DEFINE So(k) == /\ r[k] \in Seq(Cell) /\ Len(r[k]) >= 1
                    /\ Occurs(Empty, r[k]) = 1
                    /\ \A c \in Box : Occurs(c, r[k]) = IF FitsACharacter(c) THEN Among(c, p, k) ELSE 0
           S == {k \in Nat : k <= n => So(k)}
<1>2. n \in Nat /\ \A i \in 1..n : p[i] \in Box
  OBVIOUS
<1>3. So(0)
  <2>1. r[0] \in Seq(Cell) /\ Len(r[0]) = 1 /\ r[0] = Append(<<>>, Empty) /\ <<>> \in Seq(Cell)
    BY <1>1, EmptyIsNoBox
  <2>2. \A c : Occurs(c, <<>>) = 0
    <3>1. Len(<<>>) = 0
      OBVIOUS
    <3> QED BY <3>1, OccursIsAmong, AmongOneMore
  <2>3. \A c : Occurs(c, r[0]) = IF Empty = c THEN 1 ELSE 0
    <3>1. \A c : Occurs(c, Append(<<>>, Empty)) = IF Empty = c THEN Occurs(c, <<>>) + 1 ELSE Occurs(c, <<>>)
      BY <2>1, EmptyIsNoBox, OccursAppend
    <3> QED BY <2>1, <2>2, <3>1
  <2>4. \A c : Among(c, p, 0) = 0
    BY AmongOneMore
  <2> QED BY <2>1, <2>3, <2>4, EmptyIsNoBox
<1>4. ASSUME NEW k \in Nat, k + 1 <= n, So(k) PROVE So(k + 1)
  <2>0. k + 1 \in 1..n /\ (k + 1) - 1 = k
    BY <1>2, <1>4
  <2>1. r[k + 1] = StoreOne(p, r[k], k + 1) /\ p[k + 1] \in Box
    BY <1>1, <1>2, <2>0
  <2> DEFINE d == p[k + 1]
             s == r[k]
             t == r[k + 1]
  <2>2. d \in Box /\ d \in Cell /\ d # Empty
    BY <2>1, EmptyIsNoBox
  <2>3. s \in Seq(Cell) /\ Len(s) >= 1 /\ Occurs(Empty, s) = 1
    BY <1>4
  <2>4. \A c \in Box : Among(c, p, k + 1) = IF d = c THEN Among(c, p, k) + 1 ELSE Among(c, p, k)
    BY AmongOneMore
  <2>5. \A c : Occurs(c, Append(s, d)) = IF d = c THEN Occurs(c, s) + 1 ELSE Occurs(c, s)
    <3> HIDE DEF s, d
    <3> QED BY <2>2, <2>3, OccursAppend
  <2>6. t = IF FitsACharacter(d) THEN Append(s, d) ELSE s
    BY <2>1, Zenon DEF StoreOne
  <2>7. \A c \in Box : Occurs(c, s) = IF FitsACharacter(c) THEN Among(c, p, k) ELSE 0
    BY <1>4, Zenon
  <2>8. Append(s, d) \in Seq(Cell) /\ Len(Append(s, d)) = Len(s) + 1 /\ Len(s) \in Nat
    BY <2>2, <2>3
  <2> HIDE DEF s, d, t
  <2>9. t \in Seq(Cell) /\ Len(t) >= 1 /\ Occurs(Empty, t) = 1
    BY <2>2, <2>3, <2>5, <2>6, <2>8
  <2>10. \A c \in Box : Occurs(c, t) = IF FitsACharacter(c) THEN Among(c, p, k + 1) ELSE 0
    BY <2>2, <2>4, <2>5, <2>6, <2>7
  <2> QED BY <2>9, <2>10 DEF t
<1> HIDE DEF So
<1>5. S = Nat
  <2>1. S \in SUBSET Nat
    OBVIOUS
  <2>2. 0 \in S
    BY <1>3
  <2>3. ASSUME NEW k \in S PROVE k + 1 \in S
    <3>1. k \in Nat /\ (k + 1 <= n => k <= n)
      BY <1>2
    <3> QED BY <1>4, <3>1
  <2> HIDE DEF S
  <2> QED BY <2>1, <2>2, <2>3, Induct
<1>6. So(n)
  BY <1>2, <1>5
<1>7. \A c : Occurs(c, p) = Among(c, p, n)
  BY OccursIsAmong
<1>8. Stored(p) = r[n]
  BY <1>1
<1>9. Stored(p) \in Seq(Cell) /\ Len(Stored(p)) >= 1
  BY <1>6, <1>8, Zenon DEF So
<1>10. Holds(Stored(p), p)
  BY <1>6, <1>7, <1>8, Zenon DEF So, Holds
<1> QED BY <1>9, <1>10

(***************************************************************************)
(* The array is written behind its end exactly when every contour of the    *)
(* picture fits a character, and then by one cell                           *)
(* (Blocking_Raspberry.cpp:156, :172): a cleaner picture is what kills it.  *)
(***************************************************************************)
THEOREM OneBehindTheEnd ==
  ASSUME NEW p \in Seq(Box)
  PROVE  /\ Len(Stored(p)) <= Len(p) + 1
         /\ Overrun(p) <=> p # <<>> /\ \A i \in 1..Len(p) : FitsACharacter(p[i])
<1> DEFINE n == Len(p)
           AllFit(k) == \A i \in 1..k : FitsACharacter(p[i])
<1>1. PICK r : /\ r[0] = <<Empty>> /\ Stored(p) = r[Len(p)]
               /\ \A k \in 1..Len(p) : r[k] = StoreOne(p, r[k - 1], k)
  BY StoredLoop
<1> DEFINE So(k) == /\ r[k] \in Seq(Cell) /\ Len(r[k]) <= k + 1
                    /\ Len(r[k]) = k + 1 <=> AllFit(k)
           S == {k \in Nat : k <= n => So(k)}
<1>2. n \in Nat /\ \A i \in 1..n : p[i] \in Cell
  BY EmptyIsNoBox
<1>3. So(0)
  <2>1. r[0] \in Seq(Cell) /\ Len(r[0]) = 1
    BY <1>1, EmptyIsNoBox
  <2>2. AllFit(0)
    OBVIOUS
  <2> QED BY <2>1, <2>2
<1>4. ASSUME NEW k \in Nat, k + 1 <= n, So(k) PROVE So(k + 1)
  <2>1. k + 1 \in 1..n /\ (k + 1) - 1 = k
    BY <1>2, <1>4
  <2>2. r[k + 1] = StoreOne(p, r[k], k + 1) /\ p[k + 1] \in Cell
    BY <1>1, <1>2, <2>1
  <2>3. AllFit(k + 1) <=> AllFit(k) /\ FitsACharacter(p[k + 1])
    <3>1. \A i : i \in 1..(k + 1) <=> i \in 1..k \/ i = k + 1
      OBVIOUS
    <3> QED BY <3>1, Zenon
  <2> HIDE DEF AllFit
  <2>4. r[k] \in Seq(Cell) /\ Len(r[k]) \in Nat /\ Len(r[k]) <= k + 1 /\ (Len(r[k]) = k + 1 <=> AllFit(k))
    BY <1>4
  <2>5. CASE FitsACharacter(p[k + 1])
    <3>1. r[k + 1] = Append(r[k], p[k + 1])
      BY <2>2, <2>5 DEF StoreOne
    <3>2. r[k + 1] \in Seq(Cell) /\ Len(r[k + 1]) = Len(r[k]) + 1
      <4> DEFINE s == r[k]
                 d == p[k + 1]
      <4>1. s \in Seq(Cell) /\ d \in Cell /\ r[k + 1] = Append(s, d)
        BY <2>2, <2>4, <3>1
      <4> HIDE DEF s, d
      <4>2. r[k + 1] \in Seq(Cell) /\ Len(r[k + 1]) = Len(s) + 1
        BY <4>1
      <4> QED BY <4>2 DEF s
    <3> QED BY <2>3, <2>4, <2>5, <3>2
  <2>6. CASE ~FitsACharacter(p[k + 1])
    <3>1. r[k + 1] = r[k]
      BY <2>2, <2>6 DEF StoreOne
    <3> QED BY <2>3, <2>4, <2>6, <3>1
  <2> QED BY <2>5, <2>6
<1> HIDE DEF So
<1>5. S = Nat
  <2>1. S \in SUBSET Nat
    OBVIOUS
  <2>2. 0 \in S
    BY <1>3
  <2>3. ASSUME NEW k \in S PROVE k + 1 \in S
    <3>1. k \in Nat /\ (k + 1 <= n => k <= n)
      BY <1>2
    <3> QED BY <1>4, <3>1
  <2> HIDE DEF S
  <2> QED BY <2>1, <2>2, <2>3, Induct
<1>6. So(n)
  BY <1>2, <1>5
<1> HIDE DEF AllFit
<1>7. /\ Len(Stored(p)) \in Nat /\ Len(Stored(p)) <= n + 1
      /\ Len(Stored(p)) = n + 1 <=> AllFit(n)
  BY <1>1, <1>6 DEF So
<1>8. Len(Stored(p)) > n <=> AllFit(n)
  BY <1>2, <1>7
<1> QED BY <1>7, <1>8, Zenon DEF Overrun, AllFit

-----------------------------------------------------------------------------
LEMMA CellColumn == \A c \in Cell : c.x \in Int
BY DEF Cell, Box, Empty

\* One comparison of the sort (Blocking_Raspberry.cpp:181).
LEMMA BubbleStep ==
  ASSUME NEW b \in Seq(Cell), NEW j \in 1..(Len(b) - 1)
  PROVE  LET d == Bubble(b, j) IN
         /\ d \in Seq(Cell) /\ Len(d) = Len(b)
         /\ \A i \in 1..Len(b) : i # j /\ i # j + 1 => d[i] = b[i]
         /\ \A i \in {j, j + 1} : d[i] = b[j] \/ d[i] = b[j + 1]
         /\ d[j + 1].x >= b[j].x /\ d[j + 1].x >= b[j + 1].x
         /\ \A c : Occurs(c, d) = Occurs(c, b)
<1> DEFINE d == Bubble(b, j)
           n == Len(b)
<1>1. n \in Nat /\ j \in 1..n /\ j + 1 \in 1..n /\ j # j + 1 /\ b[j] \in Cell /\ b[j + 1] \in Cell
  OBVIOUS
<1>2. b[j].x \in Int /\ b[j + 1].x \in Int
  BY <1>1, CellColumn
<1>3. CASE b[j].x > b[j + 1].x
  <2>1. d = [b EXCEPT ![j] = b[j + 1], ![j + 1] = b[j]]
    BY <1>3, Zenon DEF Bubble
  <2>2. d \in Seq(Cell) /\ Len(d) = n
    BY <1>1, <2>1
  <2>3. \A i \in 1..n : i # j /\ i # j + 1 => d[i] = b[i]
    BY <1>1, <2>1
  <2>4. d[j] = b[j + 1] /\ d[j + 1] = b[j]
    BY <1>1, <2>1
  <2> HIDE DEF d
  <2>5. \A c : Occurs(c, d) = Occurs(c, b)
    BY <1>1, <2>2, <2>3, <2>4, OccursSwap
  <2>6. d[j + 1].x >= b[j].x /\ d[j + 1].x >= b[j + 1].x
    BY <1>2, <1>3, <2>4
  <2> QED BY <2>2, <2>3, <2>4, <2>5, <2>6 DEF d
<1>4. CASE ~(b[j].x > b[j + 1].x)
  <2>1. d = b
    BY <1>4, Zenon DEF Bubble
  <2>2. d[j + 1].x >= b[j].x /\ d[j + 1].x >= b[j + 1].x
    BY <1>2, <1>4, <2>1
  <2> QED BY <1>1, <2>1, <2>2
<1> QED BY <1>3, <1>4

\* One turn of the outer loop as the loop over j that it is.
PassFold(f, b, last) ==
  f = [s \in SUBSET DOMAIN [j \in 1..last |-> j] |->
         IF s = {} THEN b ELSE Bubble(f[s \ {Max(s)}], [j \in 1..last |-> j][Max(s)])]

LEMMA PassLoop ==
  ASSUME NEW b \in Seq(Cell), NEW last \in 0..(Len(b) - 1)
  PROVE  \E r : /\ r[0] = b /\ Pass(b, last) = r[last]
                /\ \A k \in 1..last : r[k] = Bubble(r[k - 1], k)
<1> DEFINE js == [j \in 1..last |-> j]
           V == {c \in Seq(Cell) : Len(c) = Len(b)}
           G == [i \in 1..last |-> [c \in V |-> Bubble(c, i)]]
           F == CHOOSE f : PassFold(f, b, last)
           r == [k \in 0..last |-> F[1..k]]
<1>1. last \in Nat /\ DOMAIN js = 1..last /\ (\A i \in 1..last : js[i] = i) /\ b \in V
  OBVIOUS
<1>2. \A i \in 1..last : \A c \in V : Bubble(c, i) \in V
  <2> SUFFICES ASSUME NEW i \in 1..last, NEW c \in V PROVE Bubble(c, i) \in V
    OBVIOUS
  <2>1. c \in Seq(Cell) /\ Len(c) = Len(b) /\ i \in 1..(Len(c) - 1)
    OBVIOUS
  <2>2. Bubble(c, i) \in Seq(Cell) /\ Len(Bubble(c, i)) = Len(c)
    <3> HIDE DEF V
    <3> QED BY <2>1, BubbleStep
  <2> QED BY <2>1, <2>2
<1>3. \A i \in 1..last : \A c \in V : G[i][c] = Bubble(c, i)
  OBVIOUS
<1>4. Pass(b, last) = F[DOMAIN js]
  BY Zenon DEF Pass, FoldLeft, MapThenFoldSet, PassFold
<1> HIDE DEF G, F, js, V
<1>5. PICK f \in [SUBSET (1..last) -> V] :
        \A s \in SUBSET (1..last) : f[s] = IF s = {} THEN b ELSE G[Max(s)][f[s \ {Max(s)}]]
  <2>1. StaysIn(G, V, last)
    BY <1>2, <1>3 DEF StaysIn
  <2>2. \E f \in [SUBSET (1..last) -> V] : Unrolls(f, b, G, last)
    BY <1>1, <2>1, FoldExists
  <2> QED BY <2>2, Zenon DEF Unrolls
<1>6. \A s \in SUBSET (1..last) : s # {} =>
        G[Max(s)][f[s \ {Max(s)}]] = Bubble(f[s \ {Max(s)}], js[Max(s)])
  <2> SUFFICES ASSUME NEW s \in SUBSET (1..last), s # {}
               PROVE  G[Max(s)][f[s \ {Max(s)}]] = Bubble(f[s \ {Max(s)}], js[Max(s)])
    OBVIOUS
  <2>1. Max(s) \in 1..last /\ s \ {Max(s)} \in SUBSET (1..last)
    BY <1>1, GreatestOf
  <2>2. f[s \ {Max(s)}] \in V /\ js[Max(s)] = Max(s)
    BY <1>1, <2>1, Zenon
  <2> QED BY <1>3, <2>1, <2>2, Zenon
<1>7. PassFold(f, b, last)
  <2>1. f = [s \in SUBSET DOMAIN js |-> IF s = {} THEN b ELSE Bubble(f[s \ {Max(s)}], js[Max(s)])]
    BY <1>1, <1>5, <1>6
  <2> QED BY <2>1 DEF PassFold, js
<1>8. PassFold(F, b, last)
  BY <1>7, Zenon DEF F
<1>9. F[1..0] = b /\ \A k \in 1..last : F[1..k] = Bubble(F[1..(k - 1)], k)
  <2>1. F = [s \in SUBSET DOMAIN js |-> IF s = {} THEN b ELSE Bubble(F[s \ {Max(s)}], js[Max(s)])]
    BY <1>8, Zenon DEF PassFold, js
  <2>2. \A s \in SUBSET (1..last) : F[s] = IF s = {} THEN b ELSE Bubble(F[s \ {Max(s)}], js[Max(s)])
    BY <1>1, <2>1
  <2>3. 1..0 = {}
    OBVIOUS
  <2>4. \A k \in 1..last : k \in Nat \ {0} /\ 1..k \in SUBSET (1..last) /\ js[k] = k
    BY <1>1
  <2> QED BY <2>2, <2>3, <2>4, GreatestBelow
<1>10. r[0] = b /\ Pass(b, last) = r[last] /\ \A k \in 1..last : r[k] = Bubble(r[k - 1], k)
  <2>1. 0 \in 0..last /\ last \in 0..last /\ \A k \in 1..last : k \in 0..last /\ k - 1 \in 0..last
    BY <1>1
  <2> QED BY <1>1, <1>4, <1>9, <2>1
<1> QED BY <1>10, Zenon

-----------------------------------------------------------------------------
\* From cell m on every cell is where it will stay.
Settled(b, m) == \A k \in m..Len(b) : \A i \in 1..k : b[i].x <= b[k].x

(***************************************************************************)
(* A turn brings a greatest one of its cells to the end of them, leaves     *)
(* those behind alone and loses and adds nothing.                           *)
(***************************************************************************)
LEMMA PassSettles ==
  ASSUME NEW b \in Seq(Cell), NEW last \in 0..(Len(b) - 1), Settled(b, last + 2)
  PROVE  LET d == Pass(b, last) IN
         /\ d \in Seq(Cell) /\ Len(d) = Len(b)
         /\ Settled(d, last + 1)
         /\ \A c : Occurs(c, d) = Occurs(c, b)
<1> DEFINE n == Len(b)
<1>1. PICK r : /\ r[0] = b /\ Pass(b, last) = r[last]
               /\ \A k \in 1..last : r[k] = Bubble(r[k - 1], k)
  BY PassLoop
<1> DEFINE So(k) == /\ r[k] \in Seq(Cell) /\ Len(r[k]) = n
                    /\ \A i \in 1..(k + 1) : r[k][i].x <= r[k][k + 1].x
                    /\ \A i \in (k + 2)..n : r[k][i] = b[i]
                    /\ \A i \in 1..(k + 1) : \E h \in 1..(k + 1) : r[k][i] = b[h]
                    /\ \A c : Occurs(c, r[k]) = Occurs(c, b)
           S == {k \in Nat : k <= last => So(k)}
<1>2. n \in Nat /\ last \in Nat /\ last + 1 <= n
  OBVIOUS
<1>3. So(0)
  <2>1. r[0] = b /\ b[1] \in Cell
    BY <1>1, <1>2
  <2>2. b[1].x \in Int /\ \A i \in 1..1 : i = 1
    BY <2>1, CellColumn
  <2> QED BY <2>1, <2>2
<1>4. ASSUME NEW k \in Nat, k + 1 <= last, So(k) PROVE So(k + 1)
  <2> DEFINE s == r[k]
             t == r[k + 1]
  <2>1. s \in Seq(Cell) /\ Len(s) = n /\ \A c : Occurs(c, s) = Occurs(c, b)
    BY <1>4
  <2>2. k + 1 \in 1..(Len(s) - 1) /\ k + 2 = (k + 1) + 1 /\ (k + 1) - 1 = k /\ k + 1 \in 1..last
    BY <1>2, <1>4, <2>1
  <2>3. t = Bubble(s, k + 1)
    BY <1>1, <2>2
  <2>4. \A i \in 1..(k + 1) : s[i].x <= s[k + 1].x
    BY <1>4
  <2>5. \A i \in (k + 2)..n : s[i] = b[i]
    BY <1>4
  <2>6. \A i \in 1..(k + 1) : \E h \in 1..(k + 1) : s[i] = b[h]
    BY <1>4
  <2> HIDE DEF s, t
  <2>7. /\ t \in Seq(Cell) /\ Len(t) = n
        /\ \A i \in 1..n : i # k + 1 /\ i # k + 2 => t[i] = s[i]
        /\ \A i \in {k + 1, k + 2} : t[i] = s[k + 1] \/ t[i] = s[k + 2]
        /\ t[k + 2].x >= s[k + 1].x /\ t[k + 2].x >= s[k + 2].x
        /\ \A c : Occurs(c, t) = Occurs(c, s)
    <3> DEFINE j == k + 1
    <3>1. j \in 1..(Len(s) - 1) /\ t = Bubble(s, j) /\ Len(s) = n /\ k + 2 = j + 1
      BY <2>1, <2>2, <2>3
    <3> HIDE DEF j
    <3>2. /\ t \in Seq(Cell) /\ Len(t) = n
          /\ \A i \in 1..n : i # j /\ i # j + 1 => t[i] = s[i]
          /\ \A i \in {j, j + 1} : t[i] = s[j] \/ t[i] = s[j + 1]
          /\ t[j + 1].x >= s[j].x /\ t[j + 1].x >= s[j + 1].x
          /\ \A c : Occurs(c, t) = Occurs(c, s)
      BY <2>1, <3>1, BubbleStep
    <3>3. k + 1 = j
      BY DEF j
    <3> QED BY <3>1, <3>2, <3>3, Zenon
  <2>8. \A i \in 1..n : s[i].x \in Int /\ t[i].x \in Int
    <3>1. \A i \in 1..n : s[i] \in Cell /\ t[i] \in Cell
      BY <2>1, <2>7
    <3> QED BY <3>1, CellColumn
  <2>9. k + 1 \in 1..n /\ k + 2 \in 1..n
    BY <1>2, <1>4
  <2>10. \A i \in 1..(k + 2) : t[i].x <= t[k + 2].x
    <3> SUFFICES ASSUME NEW i \in 1..(k + 2) PROVE t[i].x <= t[k + 2].x
      OBVIOUS
    <3>1. CASE i \in {k + 1, k + 2}
      BY <2>7, <2>8, <2>9, <3>1
    <3>2. CASE i \notin {k + 1, k + 2}
      <4>1. i \in 1..(k + 1) /\ i \in 1..n
        BY <2>9, <3>2
      <4>2. t[i] = s[i] /\ s[i].x <= s[k + 1].x
        BY <2>4, <2>7, <3>2, <4>1
      <4> QED BY <2>7, <2>8, <2>9, <4>1, <4>2
    <3> QED BY <3>1, <3>2
  <2>11. \A i \in (k + 3)..n : t[i] = b[i]
    <3> SUFFICES ASSUME NEW i \in (k + 3)..n PROVE t[i] = b[i]
      OBVIOUS
    <3>1. i \in 1..n /\ i # k + 1 /\ i # k + 2 /\ i \in (k + 2)..n
      BY <1>2
    <3> QED BY <2>5, <2>7, <3>1
  <2>12. \A i \in 1..(k + 2) : \E h \in 1..(k + 2) : t[i] = b[h]
    <3>1. \A i \in 1..(k + 2) : \E h \in 1..(k + 2) : s[i] = b[h]
      <4> SUFFICES ASSUME NEW i \in 1..(k + 2) PROVE \E h \in 1..(k + 2) : s[i] = b[h]
        OBVIOUS
      <4>1. CASE i = k + 2
        BY <2>5, <2>9, <4>1
      <4>2. CASE i # k + 2
        <5>1. i \in 1..(k + 1)
          BY <4>2
        <5>2. PICK h \in 1..(k + 1) : s[i] = b[h]
          BY <2>6, <5>1
        <5>3. h \in 1..(k + 2)
          OBVIOUS
        <5> QED BY <5>2, <5>3
      <4> QED BY <4>1, <4>2
    <3>2. \A i \in 1..(k + 2) : \E h \in 1..(k + 2) : t[i] = s[h]
      <4> SUFFICES ASSUME NEW i \in 1..(k + 2) PROVE \E h \in 1..(k + 2) : t[i] = s[h]
        OBVIOUS
      <4>1. k + 1 \in 1..(k + 2) /\ k + 2 \in 1..(k + 2) /\ i \in 1..n
        BY <2>9
      <4> QED BY <2>7, <4>1
    <3> QED BY <3>1, <3>2
  <2>13. \A c : Occurs(c, t) = Occurs(c, b)
    BY <2>1, <2>7
  <2>14. (k + 1) + 1 = k + 2 /\ (k + 1) + 2 = k + 3
    OBVIOUS
  <2>15. /\ t \in Seq(Cell) /\ Len(t) = n
         /\ \A i \in 1..((k + 1) + 1) : t[i].x <= t[(k + 1) + 1].x
         /\ \A i \in ((k + 1) + 2)..n : t[i] = b[i]
         /\ \A i \in 1..((k + 1) + 1) : \E h \in 1..((k + 1) + 1) : t[i] = b[h]
         /\ \A c : Occurs(c, t) = Occurs(c, b)
    BY <2>7, <2>10, <2>11, <2>12, <2>13, <2>14
  <2> QED BY <2>15, Zenon DEF t
<1> HIDE DEF So
<1>5. S = Nat
  <2>1. S \in SUBSET Nat
    OBVIOUS
  <2>2. 0 \in S
    BY <1>3
  <2>3. ASSUME NEW k \in S PROVE k + 1 \in S
    <3>1. k \in Nat /\ (k + 1 <= last => k <= last)
      BY <1>2
    <3> QED BY <1>4, <3>1
  <2> HIDE DEF S
  <2> QED BY <2>1, <2>2, <2>3, Induct
<1> DEFINE d == Pass(b, last)
<1>6. /\ d \in Seq(Cell) /\ Len(d) = n
      /\ \A i \in 1..(last + 1) : d[i].x <= d[last + 1].x
      /\ \A i \in (last + 2)..n : d[i] = b[i]
      /\ \A i \in 1..(last + 1) : \E h \in 1..(last + 1) : d[i] = b[h]
      /\ \A c : Occurs(c, d) = Occurs(c, b)
  <2>1. So(last)
    BY <1>2, <1>5
  <2> QED BY <1>1, <2>1, Zenon DEF So
<1> HIDE DEF d
<1>7. Settled(d, last + 1)
  <2> SUFFICES ASSUME NEW k \in (last + 1)..n, NEW i \in 1..k PROVE d[i].x <= d[k].x
    BY <1>6 DEF Settled
  <2>1. CASE k = last + 1
    BY <1>6, <2>1
  <2>2. CASE k # last + 1
    <3>1. k \in (last + 2)..n /\ d[k] = b[k]
      BY <1>2, <1>6, <2>2
    <3>2. \E h \in 1..k : d[i] = b[h]
      <4>1. CASE i \in 1..(last + 1)
        <5>1. PICK h \in 1..(last + 1) : d[i] = b[h]
          BY <1>6, <4>1
        <5>2. h \in 1..k
          BY <1>2
        <5> QED BY <5>1, <5>2
      <4>2. CASE i \notin 1..(last + 1)
        <5>1. i \in (last + 2)..n
          BY <1>2, <4>2
        <5> QED BY <1>6, <5>1
      <4> QED BY <4>1, <4>2
    <3> QED BY <3>1, <3>2 DEF Settled
  <2> QED BY <2>1, <2>2
<1> QED BY <1>6, <1>7 DEF d

-----------------------------------------------------------------------------
\* What carNumber does with rectangle i when it has row.
Join(b, row, i) ==
  LET a == b[row[Len(row)]] IN
  IF a.x <= b[i].x /\ DeltaX(a, b[i]) <= 100 /\ OnLine(a, b[i], 25)
  THEN Append(row, i) ELSE row
FollowFold(f, b, c) ==
  f = [s \in SUBSET DOMAIN [i \in 1..Size(b) |-> i] |->
         IF s = {} THEN <<c>> ELSE Join(b, f[s \ {Max(s)}], [i \in 1..Size(b) |-> i][Max(s)])]

\* The loop in which carNumber follows the row (Blocking_Raspberry.cpp:245).
LEMMA FollowLoop ==
  ASSUME NEW b \in Seq(Cell), b # <<>>, NEW c \in 1..Len(b)
  PROVE  \E r : /\ r[0] = <<c>> /\ Follow(b, c) = r[Size(b)]
                /\ \A k \in 1..Size(b) : r[k] = Join(b, r[k - 1], k)
                /\ \A k \in 0..Size(b) : r[k] \in Seq(1..Len(b)) /\ r[k] # <<>>
<1> DEFINE last == Size(b)
           js == [i \in 1..last |-> i]
           V == {row \in Seq(1..Len(b)) : row # <<>>}
           G == [i \in 1..last |-> [row \in V |-> Join(b, row, i)]]
           F == CHOOSE f : FollowFold(f, b, c)
           S == {k \in Nat : k <= last => F[1..k] \in V}
           start == <<c>>
           r == [k \in 0..last |-> F[1..k]]
<1>1. last \in Nat /\ DOMAIN js = 1..last /\ (\A i \in 1..last : js[i] = i /\ i \in 1..Len(b)) /\ start \in V
  BY DEF Size
<1>2. \A i \in 1..last : \A row \in V : Join(b, row, i) \in V
  <2> SUFFICES ASSUME NEW i \in 1..last, NEW row \in V PROVE Join(b, row, i) \in V
    OBVIOUS
  <2>1. i \in 1..Len(b)
    BY <1>1
  <2>2. Append(row, i) \in V
    BY <2>1
  <2> HIDE DEF V
  <2> QED BY <2>2, Zenon DEF Join
<1>3. \A i \in 1..last : \A row \in V : G[i][row] = Join(b, row, i)
  OBVIOUS
<1>4. Follow(b, c) = F[DOMAIN js]
  BY Zenon DEF Follow, FoldLeft, MapThenFoldSet, FollowFold, Join
<1> HIDE DEF G, F, js, V, start, last
<1>5. PICK f \in [SUBSET (1..last) -> V] :
        \A s \in SUBSET (1..last) : f[s] = IF s = {} THEN start ELSE G[Max(s)][f[s \ {Max(s)}]]
  <2>1. StaysIn(G, V, last)
    BY <1>2, <1>3 DEF StaysIn
  <2>2. \E f \in [SUBSET (1..last) -> V] : Unrolls(f, start, G, last)
    BY <1>1, <2>1, FoldExists
  <2> QED BY <2>2, Zenon DEF Unrolls
<1>6. \A s \in SUBSET (1..last) : s # {} =>
        G[Max(s)][f[s \ {Max(s)}]] = Join(b, f[s \ {Max(s)}], js[Max(s)])
  <2> SUFFICES ASSUME NEW s \in SUBSET (1..last), s # {}
               PROVE  G[Max(s)][f[s \ {Max(s)}]] = Join(b, f[s \ {Max(s)}], js[Max(s)])
    OBVIOUS
  <2>1. Max(s) \in 1..last /\ s \ {Max(s)} \in SUBSET (1..last)
    BY <1>1, GreatestOf
  <2>2. f[s \ {Max(s)}] \in V /\ js[Max(s)] = Max(s)
    BY <1>1, <2>1, Zenon
  <2> QED BY <1>3, <2>1, <2>2, Zenon
<1>7. FollowFold(f, b, c)
  <2>1. f = [s \in SUBSET DOMAIN js |-> IF s = {} THEN start ELSE Join(b, f[s \ {Max(s)}], js[Max(s)])]
    BY <1>1, <1>5, <1>6
  <2> QED BY <2>1, Zenon DEF FollowFold, js, start, last
<1>8. FollowFold(F, b, c)
  BY <1>7, Zenon DEF F
<1>9. F[1..0] = start /\ \A k \in 1..last : F[1..k] = Join(b, F[1..(k - 1)], k)
  <2>1. F = [s \in SUBSET DOMAIN js |-> IF s = {} THEN start ELSE Join(b, F[s \ {Max(s)}], js[Max(s)])]
    BY <1>8, Zenon DEF FollowFold, js, start, last
  <2>2. \A s \in SUBSET (1..last) : F[s] = IF s = {} THEN start ELSE Join(b, F[s \ {Max(s)}], js[Max(s)])
    BY <1>1, <2>1
  <2>3. 1..0 = {}
    OBVIOUS
  <2>4. \A k \in 1..last : k \in Nat \ {0} /\ 1..k \in SUBSET (1..last) /\ js[k] = k
    BY <1>1
  <2> QED BY <2>2, <2>3, <2>4, GreatestBelow
<1>10. S = Nat
  <2>1. S \in SUBSET Nat
    OBVIOUS
  <2>2. 0 \in S
    BY <1>1, <1>9
  <2>3. ASSUME NEW k \in S PROVE k + 1 \in S
    <3>1. k \in Nat /\ (k + 1 <= last => k <= last /\ k + 1 \in 1..last /\ (k + 1) - 1 = k)
      BY <1>1
    <3> QED BY <1>2, <1>9, <3>1
  <2> HIDE DEF S
  <2> QED BY <2>1, <2>2, <2>3, Induct
<1>11. r[0] = start /\ Follow(b, c) = r[last] /\ \A k \in 1..last : r[k] = Join(b, r[k - 1], k)
  <2>1. 0 \in 0..last /\ last \in 0..last /\ \A k \in 1..last : k \in 0..last /\ k - 1 \in 0..last
    BY <1>1
  <2> QED BY <1>1, <1>4, <1>9, <2>1
<1>12. \A k \in 0..last : r[k] \in V
  <2>1. \A k \in 0..last : k \in Nat /\ k <= last
    BY <1>1
  <2> QED BY <1>10, <2>1
<1>13. \A k \in 0..last : r[k] \in Seq(1..Len(b)) /\ r[k] # <<>>
  BY <1>12 DEF V
<1> QED BY <1>11, <1>13, Zenon DEF start, last

\* The row that carNumber follows is one of cells of the array, and not empty.
LEMMA FollowType ==
  ASSUME NEW b \in Seq(Cell), b # <<>>, NEW c \in 1..Len(b)
  PROVE  Follow(b, c) \in Seq(1..Len(b)) /\ Follow(b, c) # <<>>
<1>1. Size(b) \in 0..Size(b)
  BY DEF Size
<1> QED BY <1>1, FollowLoop

\* The sum of the heights of a row.
HeightFold(f, row) ==
  f = [s \in SUBSET DOMAIN row |-> IF s = {} THEN 0 ELSE f[s \ {Max(s)}] + row[Max(s)].h]

LEMMA HeightType ==
  ASSUME NEW row \in Seq(Cell)
  PROVE  FoldLeft(LAMBDA s, b : s + b.h, 0, row) \in Int
<1> DEFINE n == Len(row)
           G == [i \in 1..n |-> [k \in Int |-> k + row[i].h]]
           F == CHOOSE f : HeightFold(f, row)
           S == {k \in Nat : k <= n => F[1..k] \in Int}
<1>1. n \in Nat /\ DOMAIN row = 1..n
  OBVIOUS
<1>2. \A i \in 1..n : row[i].h \in Int
  <2>1. \A c \in Cell : c.h \in Int
    BY DEF Cell, Box, Empty
  <2>2. \A i \in 1..n : row[i] \in Cell
    OBVIOUS
  <2> QED BY <2>1, <2>2, Zenon
<1>3. \A i \in 1..n : \A k \in Int : G[i][k] = k + row[i].h /\ k + row[i].h \in Int
  <2>1. \A i \in 1..n : \A k \in Int : G[i][k] = k + row[i].h
    OBVIOUS
  <2>2. \A i \in 1..n : \A k \in Int : k + row[i].h \in Int
    BY <1>2
  <2> QED BY <2>1, <2>2
<1>4. FoldLeft(LAMBDA s, b : s + b.h, 0, row) = F[DOMAIN row]
  BY Zenon DEF FoldLeft, MapThenFoldSet, HeightFold
<1> HIDE DEF G, F, n
<1>5. PICK f \in [SUBSET (1..n) -> Int] :
        \A s \in SUBSET (1..n) : f[s] = IF s = {} THEN 0 ELSE G[Max(s)][f[s \ {Max(s)}]]
  <2>1. StaysIn(G, Int, n)
    BY <1>3 DEF StaysIn
  <2> DEFINE V == Int
             zero == 0
  <2>2. zero \in V /\ StaysIn(G, V, n)
    BY <2>1
  <2>3. \E f \in [SUBSET (1..n) -> V] : Unrolls(f, zero, G, n)
    <3> HIDE DEF V, zero
    <3> QED BY <1>1, <2>2, FoldExists
  <2> QED BY <2>3, Zenon DEF Unrolls
<1>6. \A s \in SUBSET (1..n) : s # {} =>
        G[Max(s)][f[s \ {Max(s)}]] = f[s \ {Max(s)}] + row[Max(s)].h
  <2> SUFFICES ASSUME NEW s \in SUBSET (1..n), s # {}
               PROVE  G[Max(s)][f[s \ {Max(s)}]] = f[s \ {Max(s)}] + row[Max(s)].h
    OBVIOUS
  <2>1. Max(s) \in 1..n /\ s \ {Max(s)} \in SUBSET (1..n)
    BY <1>1, GreatestOf
  <2>2. f[s \ {Max(s)}] \in Int
    BY <2>1, Zenon
  <2> QED BY <1>3, <2>1, <2>2, Zenon
<1>7. HeightFold(f, row)
  <2>1. f = [s \in SUBSET DOMAIN row |-> IF s = {} THEN 0 ELSE f[s \ {Max(s)}] + row[Max(s)].h]
    BY <1>1, <1>5, <1>6
  <2> QED BY <2>1 DEF HeightFold
<1>8. HeightFold(F, row)
  BY <1>7, Zenon DEF F
<1>9. F[1..0] = 0 /\ \A k \in 1..n : F[1..k] = F[1..(k - 1)] + row[k].h
  <2>1. F = [s \in SUBSET DOMAIN row |-> IF s = {} THEN 0 ELSE F[s \ {Max(s)}] + row[Max(s)].h]
    BY <1>8, Zenon DEF HeightFold
  <2>2. \A s \in SUBSET (1..n) : F[s] = IF s = {} THEN 0 ELSE F[s \ {Max(s)}] + row[Max(s)].h
    BY <1>1, <2>1
  <2>3. 1..0 = {}
    OBVIOUS
  <2>4. \A k \in 1..n : k \in Nat \ {0} /\ 1..k \in SUBSET (1..n)
    BY <1>1
  <2> QED BY <2>2, <2>3, <2>4, GreatestBelow
<1>10. S = Nat
  <2>1. S \in SUBSET Nat
    OBVIOUS
  <2>2. 0 \in S
    BY <1>1, <1>9
  <2>3. ASSUME NEW k \in S PROVE k + 1 \in S
    <3>1. k \in Nat /\ (k + 1 <= n => k <= n /\ k + 1 \in 1..n /\ (k + 1) - 1 = k)
      BY <1>1
    <3>2. ASSUME k + 1 <= n PROVE F[1..(k + 1)] \in Int
      <4>1. F[1..k] \in Int /\ k + 1 \in 1..n /\ F[1..(k + 1)] = F[1..k] + row[k + 1].h
        BY <1>9, <3>1, <3>2
      <4> QED BY <1>2, <4>1
    <3> QED BY <3>1, <3>2
  <2> HIDE DEF S
  <2> QED BY <2>1, <2>2, <2>3, Induct
<1>11. F[1..n] \in Int
  BY <1>1, <1>10
<1> QED BY <1>1, <1>4, <1>11

\* What is cut out of the picture around a row is given by four numbers.
LEMMA RowCropType ==
  ASSUME NEW row \in Seq(Cell), row # <<>>
  PROVE  RowCrop(row) \in [left : Int, right : Int, top : Int, bottom : Int]
<1>1. Len(row) \in Nat \ {0} /\ row[1] \in Cell /\ row[Len(row)] \in Cell
  OBVIOUS
<1>2. \A c \in Cell : c.x \in Int /\ c.y \in Int /\ c.w \in Int /\ c.h \in Int
  BY DEF Cell, Box, Empty
<1>3. \A c \in Cell : CentreX(c) \in Int /\ CentreY(c) \in Int
  <2>1. \A p, q \in Int : (2 * p + q) \div 2 \in Int
    OBVIOUS
  <2> QED BY <1>2, <2>1, Zenon DEF CentreX, CentreY
<1> DEFINE first == row[1]
           last == row[Len(row)]
           sum == FoldLeft(LAMBDA s, b : s + b.h, 0, row)
           width == ((CentreX(last) - CentreX(first) + last.w) * 105) \div 100
           height == ((sum \div Len(row)) * 12) \div 10
           x == (CentreX(first) + CentreX(last)) \div 2
           y == (CentreY(first) + CentreY(last)) \div 2
<1>4. /\ CentreX(first) \in Int /\ CentreX(last) \in Int /\ last.w \in Int
      /\ CentreY(first) \in Int /\ CentreY(last) \in Int /\ sum \in Int
  BY <1>1, <1>2, <1>3, HeightType
<1>5. width \in Int
  <2>1. \A p, q, r \in Int : ((p - q + r) * 105) \div 100 \in Int
    OBVIOUS
  <2> HIDE DEF first, last
  <2> QED BY <1>4, <2>1
<1>6. height \in Int
  <2>1. \A p \in Int, q \in Nat \ {0} : p \div q \in Int
    OBVIOUS
  <2>2. \A p \in Int : (p * 12) \div 10 \in Int
    OBVIOUS
  <2> HIDE DEF sum
  <2> QED BY <1>1, <1>4, <2>1, <2>2, Zenon
<1>7. x \in Int /\ y \in Int
  <2>1. \A p, q \in Int : (p + q) \div 2 \in Int
    OBVIOUS
  <2> HIDE DEF first, last
  <2> QED BY <1>4, <2>1
<1>8. RowCrop(row) = [left |-> x - width \div 2, right |-> x - width \div 2 + width,
                      top |-> y - height \div 2, bottom |-> y - height \div 2 + height]
  BY Zenon DEF RowCrop
<1> HIDE DEF x, y, width, height
<1>9. /\ x - width \div 2 \in Int /\ x - width \div 2 + width \in Int
      /\ y - height \div 2 \in Int /\ y - height \div 2 + height \in Int
  BY <1>5, <1>6, <1>7
<1> QED BY <1>8, <1>9

-----------------------------------------------------------------------------
LEMMA CellType ==
  /\ Cell \subseteq [x : Int, y : Int, w : Nat, h : Nat]
  /\ \A c \in Cell : c.x \in Int /\ c.y \in Int /\ c.w \in Nat
BY DEF Cell, Box, Empty

LEMMA SeqOfElements ==
  ASSUME NEW S, NEW T, NEW s \in Seq(S), \A k \in 1..Len(s) : s[k] \in T
  PROVE  s \in Seq(T)
OBVIOUS

LEMMA ProgramType ==
  \A p \in Programs : p.reach \in Nat /\ p.right \in 0..40 /\ FirstMode(p) \in 0..2
<1> USE DEF Programs, Gate, July20, July20Socket, July21, July21Socket, July22, July22Socket, July22InOut,
            July24, July24Socket, July24InOut, FindVehicle, FindVehicleFiltered, Histogram, Histogram2,
            Histogram3, TotalCamera, Morphology
<1>1. \A p \in Programs : p.reach = 200 \/ p.reach = 300
  OBVIOUS
<1>2. \A p \in Programs : p.right = 0 \/ p.right = 30 \/ p.right = 40
  OBVIOUS
<1> HIDE DEF Programs
<1>3. \A p \in Programs : p.reach \in Nat /\ p.right \in 0..40
  BY <1>1, <1>2
<1>4. \A p : FirstMode(p) \in 0..2
  BY DEF FirstMode
<1> QED BY <1>3, <1>4

\* The last rectangle that a snake sees is one of the array.
LEMMA SeenType ==
  ASSUME NEW b \in Seq(Cell), NEW i \in 1..Size(b)
  PROVE  /\ LastSeen(b, i) \in i..Size(b)
         /\ WidthSeen(b, i) \in Nat
         /\ DeltaX(b[i], b[LastSeen(b, i)]) <= WidthSeen(b, i)
<1> DEFINE n == Size(b)
           l == LastSeen(b, i)
<1>1. n \in Nat /\ Len(b) = n + 1 /\ i \in Nat
  BY DEF Size
<1>2. l \in i..n
  <2>1. CASE TooFar(b, i) = {}
    BY <1>1, <2>1 DEF LastSeen
  <2>2. CASE TooFar(b, i) # {}
    <3>1. TooFar(b, i) \subseteq (i + 1)..n
      BY Zenon DEF TooFar
    <3>2. TooFar(b, i) \in SUBSET Nat
      BY <1>1, <3>1
    <3>3. \E j \in TooFar(b, i) : \A k \in TooFar(b, i) : j <= k
      BY <2>2, <3>2, SmallestOf
    <3>4. l \in TooFar(b, i)
      BY <2>2, <3>3 DEF LastSeen
    <3> QED BY <1>1, <3>1, <3>4
  <2> QED BY <2>1, <2>2
<1> HIDE DEF l, n
<1>3. i \in 1..Len(b) /\ l \in 1..Len(b)
  BY <1>1, <1>2 DEF n
<1>4. b[i].x \in Int /\ b[l].x \in Int
  <2>1. b[i] \in Cell /\ b[l] \in Cell
    BY <1>3, ElementOf
  <2> QED BY <2>1, CellType
<1>5. DeltaX(b[i], b[l]) \in Nat
  <2>1. \A p, q \in Int : (IF p > q THEN p - q ELSE q - p) \in Nat
    OBVIOUS
  <2> QED BY <1>4, <2>1, Zenon DEF DeltaX, Distance
<1>6. \A d \in Nat : AtLeastOne(d) \in Nat /\ d <= AtLeastOne(d)
  BY DEF AtLeastOne
<1>7. WidthSeen(b, i) = AtLeastOne(DeltaX(b[i], b[l]))
  BY Zenon DEF WidthSeen, l
<1>8. WidthSeen(b, i) \in Nat /\ DeltaX(b[i], b[l]) <= WidthSeen(b, i)
  BY <1>5, <1>6, <1>7, Zenon
<1> QED BY <1>2, <1>8 DEF l, n

\* A snake eats at most as many as there are rectangles.
LEMMA CountType ==
  ASSUME NEW b \in Seq(Cell), NEW i \in 1..Size(b)
  PROVE  Count(b, i) \in 0..Size(b) /\ IsFiniteSet(Eaten(b, i))
<1>1. Size(b) \in Nat
  BY DEF Size
<1>2. Eaten(b, i) \subseteq (i + 1)..LastSeen(b, i)
  BY Zenon DEF Eaten
<1>3. Eaten(b, i) \in SUBSET (1..Size(b))
  BY <1>1, <1>2, SeenType
<1>4. IsFiniteSet(1..Size(b)) /\ Cardinality(1..Size(b)) = Size(b)
  BY <1>1, FS_Interval
<1>5. IsFiniteSet(Eaten(b, i)) /\ Cardinality(Eaten(b, i)) <= Size(b)
  BY <1>3, <1>4, FS_Subset
<1>6. Cardinality(Eaten(b, i)) \in Nat
  BY <1>5, FS_CardinalityType
<1> QED BY <1>1, <1>5, <1>6 DEF Count

\* When no snake is the fullest, none has eaten.
LEMMA NoneEaten ==
  ASSUME NEW b \in Seq(Cell), Fullest(b) = {}
  PROVE  \A i \in 1..Size(b) : Count(b, i) = 0
<1> DEFINE n == Size(b)
           C(i) == Count(b, i)
<1>1. n \in Nat \/ n = -1
  BY DEF Size
<1>2. \A i \in 1..n : C(i) \in 0..n
  BY CountType
<1>3. ~(\E i \in 1..n : /\ C(i) > 0
                        /\ \A j \in 1..n : C(j) <= C(i)
                        /\ \A j \in 1..(i - 1) : C(j) < C(i))
  BY Zenon DEF Fullest
<1> HIDE DEF C, n
<1> SUFFICES ASSUME NEW a \in 1..n, C(a) # 0 PROVE FALSE
  BY DEF C, n
<1>4. n \in Nat
  BY <1>1
<1> DEFINE D == {n - C(i) : i \in 1..n}
<1>5. D \in SUBSET Nat /\ D # {}
  <2>1. \A i \in 1..n : n - C(i) \in Nat
    BY <1>2, <1>4
  <2> QED BY <2>1
<1>6. PICK d \in D : \A e \in D : d <= e
  <2> HIDE DEF D
  <2> QED BY <1>5, SmallestOf
<1>7. PICK m \in 1..n : d = n - C(m)
  OBVIOUS
<1>8. \A i \in 1..n : C(i) <= C(m)
  <2> SUFFICES ASSUME NEW i \in 1..n PROVE C(i) <= C(m)
    OBVIOUS
  <2>1. n - C(i) \in D
    OBVIOUS
  <2>2. n - C(m) <= n - C(i)
    <3> HIDE DEF D
    <3> QED BY <1>6, <1>7, <2>1
  <2> QED BY <1>2, <1>4, <2>2
<1> DEFINE E == {i \in 1..n : C(i) = C(m)}
<1>9. E \in SUBSET Nat /\ E # {}
  BY <1>4
<1>10. PICK f \in E : \A e \in E : f <= e
  <2> HIDE DEF E
  <2> QED BY <1>9, SmallestOf
<1>11. f \in 1..n /\ C(f) = C(m) /\ C(f) \in Nat /\ C(f) > 0
  <2>1. f \in 1..n /\ C(f) = C(m)
    OBVIOUS
  <2>2. C(a) <= C(f) /\ C(a) \in 0..n /\ C(f) \in 0..n
    BY <1>2, <1>8, <2>1
  <2> QED BY <1>4, <2>1, <2>2
<1>12. \A j \in 1..(f - 1) : C(j) < C(f)
  <2> SUFFICES ASSUME NEW j \in 1..(f - 1) PROVE C(j) < C(f)
    OBVIOUS
  <2>1. j \in 1..n /\ ~(f <= j)
    BY <1>4, <1>11
  <2>2. j \notin E
    <3> HIDE DEF E
    <3> QED BY <1>10, <2>1
  <2>3. C(j) # C(m) /\ C(j) <= C(m) /\ C(j) \in 0..n
    BY <1>2, <1>8, <2>1, <2>2
  <2> QED BY <1>4, <1>11, <2>3
<1> QED BY <1>3, <1>8, <1>11, <1>12

-----------------------------------------------------------------------------
\* The friends that a snake counts are those that it has.
LEMMA EatenAreFriends ==
  ASSUME boxes \in Seq(Cell), Settled(boxes, 1), program.reach \in Nat, NEW i \in 1..Size(boxes)
  PROVE  Eaten(boxes, i) = FriendsOf(i)
<1>1. boxes \in Seq([x : Int, y : Int, w : Nat, h : Nat])
  <2>1. \A k \in 1..Len(boxes) : boxes[k] \in Cell
    BY ElementOf
  <2>2. \A k \in 1..Len(boxes) : boxes[k] \in [x : Int, y : Int, w : Nat, h : Nat]
    BY <2>1, CellType, Zenon
  <2> QED BY <2>2, SeqOfElements
<1>2. Ordered(boxes)
  <2>1. Len(boxes) \in Nat
    OBVIOUS
  <2> SUFFICES ASSUME NEW k \in 1..Size(boxes), NEW l \in 1..Size(boxes), k <= l
               PROVE  boxes[k].x <= boxes[l].x
    BY Zenon DEF Ordered
  <2>2. l \in 1..Len(boxes) /\ k \in 1..l
    BY <2>1 DEF Size
  <2> QED BY <2>2, Zenon DEF Settled
<1> QED BY <1>1, <1>2, NoFriendIsLost DEF FriendsOf

\* A friend is at most as far away as the last rectangle that was seen.
LEMMA FriendsInWidth ==
  ASSUME boxes \in Seq(Cell), Settled(boxes, 1), program.reach \in Nat,
         NEW i \in 1..Size(boxes), NEW j \in FriendsOf(i)
  PROVE  /\ j \in 1..Len(boxes)
         /\ boxes[i].x <= boxes[j].x /\ boxes[j].x <= boxes[i].x + WidthSeen(boxes, i)
<1> DEFINE l == LastSeen(boxes, i)
<1>1. l \in i..Size(boxes) /\ WidthSeen(boxes, i) \in Nat /\ DeltaX(boxes[i], boxes[l]) <= WidthSeen(boxes, i)
  BY SeenType
<1>2. j \in Eaten(boxes, i)
  BY EatenAreFriends
<1>3. j \in (i + 1)..l
  BY <1>2, Zenon DEF Eaten
<1> HIDE DEF l
<1>4. Len(boxes) \in Nat /\ Size(boxes) = Len(boxes) - 1
  BY DEF Size
<1>5. /\ i \in 1..Len(boxes) /\ j \in 1..Len(boxes) /\ l \in 1..Len(boxes)
      /\ i \in 1..j /\ j \in 1..l /\ i \in 1..l
  BY <1>1, <1>3, <1>4
<1>6. boxes[i].x <= boxes[j].x /\ boxes[j].x <= boxes[l].x /\ boxes[i].x <= boxes[l].x
  BY <1>5, Zenon DEF Settled
<1>7. boxes[i].x \in Int /\ boxes[j].x \in Int /\ boxes[l].x \in Int
  <2>1. boxes[i] \in Cell /\ boxes[j] \in Cell /\ boxes[l] \in Cell
    BY <1>5, ElementOf
  <2> QED BY <2>1, CellType
<1>8. DeltaX(boxes[i], boxes[l]) = boxes[l].x - boxes[i].x
  <2>1. \A p, q \in Int : p <= q => (IF p > q THEN p - q ELSE q - p) = q - p
    OBVIOUS
  <2> QED BY <1>6, <1>7, <2>1, Zenon DEF DeltaX, Distance
<1> HIDE DEF DeltaX
<1>9. \A p, q, r \in Int : \A w \in Nat : q <= r /\ r - p <= w => q <= p + w
  OBVIOUS
<1>10. boxes[j].x <= boxes[i].x + WidthSeen(boxes, i)
  BY <1>1, <1>6, <1>7, <1>8, <1>9, Zenon
<1> QED BY <1>5, <1>6, <1>10

\* find_number() keeps four digits.
LEMMA FoundDigits ==
  ASSUME NEW t \in Seq(STRING), Found(t) = 2
  PROVE  SubSeq(t, FirstSpace(t) + 1, FirstSpace(t) + 4) \in Seq(Digits)
<1> DEFINE f == FirstSpace(t)
<1>1. SpaceIn(t) # {} /\ FourDigits(t, f + 1)
  BY DEF Found
<1>2. SpaceIn(t) \in SUBSET Nat
  <2>1. Len(t) \in Nat
    OBVIOUS
  <2>2. SpaceIn(t) \subseteq 1..Len(t)
    BY Zenon DEF SpaceIn
  <2>3. 1..Len(t) \subseteq Nat
    BY <2>1
  <2> QED BY <2>2, <2>3
<1>3. f \in SpaceIn(t)
  BY <1>1, <1>2, SmallestOf DEF FirstSpace
<1>4. f \in 1..Len(t)
  BY <1>3, Zenon DEF SpaceIn
<1>5. f + 4 <= Len(t) /\ \A k \in (f + 1)..(f + 4) : t[k] \in Digits
  <2> HIDE DEF f
  <2>1. f + 1 + 3 = f + 4
    BY <1>4
  <2> QED BY <1>1, <1>4, <2>1 DEF FourDigits
<1> HIDE DEF f
<1> DEFINE s == SubSeq(t, f + 1, f + 4)
<1>6. s \in Seq(STRING) /\ Len(s) = 4 /\ \A k \in 1..4 : s[k] = t[f + k]
  <2>1. s \in Seq(STRING)
    BY <1>4, <1>5
  <2>2. Len(s) = 4
    BY <1>4, <1>5
  <2>3. ASSUME NEW k \in 1..4 PROVE s[k] = t[f + k]
    <3>1. s[k] = t[f + 1 + k - 1] /\ f + 1 + k - 1 = f + k
      BY <1>4, <1>5
    <3> QED BY <3>1
  <2> QED BY <2>1, <2>2, <2>3
<1>7. \A k \in 1..4 : s[k] \in Digits
  <2> SUFFICES ASSUME NEW k \in 1..4 PROVE s[k] \in Digits
    OBVIOUS
  <2>1. f + k \in (f + 1)..(f + 4)
    BY <1>4
  <2> QED BY <1>5, <1>6, <2>1
<1>8. s \in Seq(Digits)
  <2> HIDE DEF s
  <2> QED BY <1>6, <1>7, SeqOfElements
<1> QED BY <1>8 DEF f

-----------------------------------------------------------------------------
(***************************************************************************)
(* The inductive invariant: what is known at each stage of the picture, the *)
(* array, its order and the snake.  From turn to turn of the sort one more  *)
(* cell from the end is settled.                                            *)
(***************************************************************************)
Scanned == stage \notin {"idle", "died"} => picture \in Pictures
Filled == stage \in {"sort"} \cup Sorted => boxes # <<>> /\ Holds(boxes, picture)
Sorting ==
  /\ stage = "sort" => turn \in 1..Len(boxes) /\ Settled(boxes, Len(boxes) - turn + 2)
  /\ stage \in Sorted => Settled(boxes, 1)
Chosen ==
  /\ stage \in {"idle", "filter", "sort", "snake"} => select = Unset /\ friends = 0 /\ plate_width = 0
  /\ stage \in {"frame", "collect"} => select \in 0..Size(boxes)
  /\ stage = "frame" => IF select = Unset THEN friends = 0 ELSE plate_width = WidthSeen(boxes, select)
  /\ stage = "frame" => program.framed
  /\ stage = "collect" => ~program.framed
Cut == TypeOK /\ Scanned /\ Filled /\ Sorting /\ Chosen /\ FullestIsChosen /\ FrameHoldsFriends

LEMMA CutIdle ==
  ASSUME TypeOK', stage' = "idle", select' = Unset, friends' = 0, plate_width' = 0
  PROVE  Cut'
BY DEF Cut, Scanned, Filled, Sorting, Chosen, FullestIsChosen, FrameHoldsFriends, Sorted

LEMMA CutFilter ==
  ASSUME Cut, Filter
  PROVE  Cut'
<1>1. /\ stage = "filter" /\ picture' = picture /\ boxes' = Stored(picture) /\ turn' = 1
      /\ stage' \in {"sort", "died"}
      /\ UNCHANGED <<program, mode, select, friends, plate_width, crop, numbers>>
  BY DEF Filter
<1>2. picture \in Pictures /\ picture \in Seq(Box)
  BY <1>1, PictureAssumption DEF Cut, Scanned
<1>3. boxes' \in Seq(Cell) /\ boxes' # <<>> /\ Holds(boxes', picture')
  BY <1>1, <1>2, StoredHolds
<1>4. TypeOK'
  BY <1>1, <1>3 DEF Cut, TypeOK, Stages, Cell
<1>5. Settled(boxes', Len(boxes') + 1)
  BY <1>3 DEF Settled
<1>6. Scanned' /\ Filled'
  BY <1>1, <1>2, <1>3 DEF Scanned, Filled, Sorted
<1>7. turn' \in 1..Len(boxes') /\ Len(boxes') - turn' + 2 = Len(boxes') + 1
  BY <1>1, <1>3
<1>8. Sorting'
  BY <1>1, <1>5, <1>7 DEF Sorting, Sorted
<1>9. Chosen' /\ FullestIsChosen' /\ FrameHoldsFriends'
  BY <1>1 DEF Cut, Chosen, FullestIsChosen, FrameHoldsFriends
<1> QED BY <1>4, <1>6, <1>8, <1>9 DEF Cut

LEMMA CutSort ==
  ASSUME Cut, Sort
  PROVE  Cut'
<1>1. /\ stage = "sort" /\ UNCHANGED <<program, mode, picture, select, friends, plate_width, crop, numbers>>
  BY DEF Sort
<1>2. /\ boxes \in Seq(Cell) /\ boxes # <<>> /\ Holds(boxes, picture) /\ picture \in Pictures
      /\ turn \in 1..Len(boxes) /\ Settled(boxes, Len(boxes) - turn + 2)
  BY <1>1 DEF Cut, TypeOK, Scanned, Filled, Sorting, Cell
<1>3. CASE turn <= Size(boxes) /\ boxes' = Pass(boxes, Size(boxes) - turn + 1) /\ turn' = turn + 1 /\ stage' = stage
  <2> DEFINE last == Size(boxes) - turn + 1
  <2>1. last \in 0..(Len(boxes) - 1) /\ last + 2 = Len(boxes) - turn + 2 /\ last + 1 = Len(boxes) - (turn + 1) + 2
    BY <1>2, <1>3 DEF Size
  <2> HIDE DEF last
  <2>2. /\ boxes' \in Seq(Cell) /\ Len(boxes') = Len(boxes) /\ Settled(boxes', last + 1)
        /\ \A c : Occurs(c, boxes') = Occurs(c, boxes)
    <3>1. Settled(boxes, last + 2) /\ boxes' = Pass(boxes, last)
      BY <1>2, <1>3, <2>1 DEF last
    <3> QED BY <1>2, <2>1, <3>1, PassSettles
  <2>3. Holds(boxes', picture') /\ boxes' # <<>>
    <3>1. Len(boxes') # 0
      BY <1>2, <2>2
    <3>2. Holds(boxes', picture)
      BY <1>2, <2>2 DEF Holds
    <3> QED BY <1>1, <3>1, <3>2
  <2>4. turn' \in 1..Len(boxes') /\ Settled(boxes', Len(boxes') - turn' + 2)
    <3>1. turn + 1 \in 1..Len(boxes)
      BY <1>2, <1>3 DEF Size
    <3>2. last + 1 = Len(boxes') - turn' + 2
      BY <1>3, <2>1, <2>2
    <3> QED BY <1>3, <2>2, <3>1, <3>2
  <2>5. TypeOK'
    BY <1>1, <1>2, <1>3, <2>2 DEF Cut, TypeOK, Cell
  <2>6. Scanned' /\ Filled' /\ Sorting'
    BY <1>1, <1>2, <1>3, <2>3, <2>4 DEF Scanned, Filled, Sorting, Sorted
  <2>7. Chosen' /\ FullestIsChosen' /\ FrameHoldsFriends'
    BY <1>1, <1>3 DEF Cut, Chosen, FullestIsChosen, FrameHoldsFriends
  <2> QED BY <2>5, <2>6, <2>7 DEF Cut
<1>4. CASE turn > Size(boxes) /\ stage' = "snake" /\ UNCHANGED <<boxes, turn>>
  <2>1. Settled(boxes, 1)
    <3>1. boxes \in Seq(Cell) /\ Len(boxes) \in Nat /\ turn = Len(boxes)
      BY <1>2, <1>4 DEF Size
    <3>2. Settled(boxes, 2)
      BY <1>2, <3>1
    <3>3. ASSUME NEW k \in 1..Len(boxes), NEW i \in 1..k PROVE boxes[i].x <= boxes[k].x
      <4>1. CASE k = 1
        <5>1. i = 1 /\ boxes[1] \in Cell
          BY <3>1, <4>1
        <5>2. boxes[1].x \in Int
          BY <5>1, CellType
        <5> QED BY <4>1, <5>1, <5>2
      <4>2. CASE k # 1
        <5>1. k \in 2..Len(boxes)
          BY <3>1, <4>2
        <5> QED BY <3>2, <5>1, Zenon DEF Settled
      <4> QED BY <4>1, <4>2
    <3> QED BY <3>3, Zenon DEF Settled
  <2>2. TypeOK'
    BY <1>1, <1>4 DEF Cut, TypeOK, Stages
  <2>3. Scanned' /\ Filled' /\ Sorting'
    BY <1>1, <1>2, <1>4, <2>1 DEF Scanned, Filled, Sorting, Sorted
  <2>4. Chosen' /\ FullestIsChosen' /\ FrameHoldsFriends'
    BY <1>1, <1>4 DEF Cut, Chosen, FullestIsChosen, FrameHoldsFriends
  <2> QED BY <2>2, <2>3, <2>4 DEF Cut
<1> QED BY <1>3, <1>4 DEF Sort

LEMMA CutSnake ==
  ASSUME Cut, Snake
  PROVE  Cut'
<1>1. /\ stage = "snake" /\ stage' = (IF program.framed THEN "frame" ELSE "collect")
      /\ UNCHANGED <<program, mode, picture, boxes, turn, crop, numbers>>
  BY DEF Snake
<1>2. /\ boxes \in Seq(Cell) /\ boxes # <<>> /\ Holds(boxes, picture) /\ picture \in Pictures
      /\ Settled(boxes, 1) /\ select = Unset /\ friends = 0 /\ plate_width = 0
      /\ program \in Programs /\ program.reach \in Nat
  BY <1>1, ProgramType DEF Cut, TypeOK, Scanned, Filled, Sorting, Chosen, Sorted, Cell
<1>3. \A i \in 1..Size(boxes) :
        /\ Eaten(boxes, i) = FriendsOf(i) /\ Count(boxes, i) = Cardinality(FriendsOf(i))
        /\ Count(boxes, i) \in Nat /\ IsFiniteSet(FriendsOf(i)) /\ WidthSeen(boxes, i) \in Nat
  <2> SUFFICES ASSUME NEW i \in 1..Size(boxes)
               PROVE  /\ Eaten(boxes, i) = FriendsOf(i) /\ Count(boxes, i) = Cardinality(FriendsOf(i))
                      /\ Count(boxes, i) \in Nat /\ IsFiniteSet(FriendsOf(i)) /\ WidthSeen(boxes, i) \in Nat
    OBVIOUS
  <2>1. Eaten(boxes, i) = FriendsOf(i)
    BY <1>2, EatenAreFriends
  <2>2. Count(boxes, i) \in 0..Size(boxes) /\ IsFiniteSet(Eaten(boxes, i))
    BY <1>2, CountType
  <2>3. WidthSeen(boxes, i) \in Nat
    BY <1>2, SeenType
  <2>4. Count(boxes, i) = Cardinality(FriendsOf(i))
    BY <2>1 DEF Count
  <2> QED BY <2>1, <2>2, <2>3, <2>4
<1>4. \A i : FriendsOf(i)' = FriendsOf(i)
  BY <1>1 DEF FriendsOf, OnLine, DeltaX, Distance, AtLeastOne, Size
<1>5. stage' \in {"frame", "collect"} /\ (stage' = "frame" <=> program'.framed) /\ Size(boxes)' = Size(boxes)
  BY <1>1 DEF Size
<1>6. Scanned' /\ Filled' /\ Sorting'
  BY <1>1, <1>2, <1>5 DEF Scanned, Filled, Sorting, Sorted
<1>7. FrameHoldsFriends'
  BY <1>5 DEF FrameHoldsFriends
<1>8. CASE Fullest(boxes) = {} /\ UNCHANGED <<select, friends, plate_width>>
  <2>1. \A i \in 1..Size(boxes) : FriendsOf(i) = {}
    <3>1. \A i \in 1..Size(boxes) : Count(boxes, i) = 0
      BY <1>2, <1>8, NoneEaten
    <3> QED BY <1>3, <3>1, FS_EmptySet
  <2>2. FullestIsChosen'
    BY <1>2, <1>4, <1>5, <1>8, <2>1 DEF FullestIsChosen, Unset
  <2>3. TypeOK'
    BY <1>1, <1>5, <1>8 DEF Cut, TypeOK, Stages
  <2>4. Size(boxes) \in Nat
    BY <1>2 DEF Size
  <2>5. Chosen'
    BY <1>2, <1>5, <1>8, <2>4 DEF Chosen, Unset
  <2> QED BY <1>6, <1>7, <2>2, <2>3, <2>5 DEF Cut
<1>9. ASSUME NEW i \in Fullest(boxes), select' = i, friends' = Count(boxes, i),
             plate_width' = IF program.framed THEN WidthSeen(boxes, i) ELSE plate_width
      PROVE  Cut'
  <2>1. /\ i \in 1..Size(boxes)
        /\ \A j \in 1..Size(boxes) : Count(boxes, j) <= Count(boxes, i)
        /\ \A j \in 1..(i - 1) : Count(boxes, j) < Count(boxes, i)
    BY Zenon DEF Fullest
  <2>2. i \in Nat /\ i # Unset /\ Size(boxes) \in Nat /\ \A j \in 1..(i - 1) : j \in 1..Size(boxes)
    BY <1>2, <2>1 DEF Unset, Size
  <2>3. /\ friends' = Cardinality(FriendsOf(i))
        /\ \A j \in 1..Size(boxes) : Cardinality(FriendsOf(j)) <= friends'
        /\ \A j \in 1..(i - 1) : Cardinality(FriendsOf(j)) < friends'
    BY <1>3, <1>9, <2>1, <2>2
  <2>4. FullestIsChosen'
    BY <1>4, <1>5, <1>9, <2>2, <2>3 DEF FullestIsChosen
  <2>5. friends' \in Nat /\ plate_width' \in Nat
    BY <1>2, <1>3, <1>9, <2>1
  <2>6. TypeOK'
    BY <1>1, <1>5, <1>9, <2>2, <2>5 DEF Cut, TypeOK, Stages
  <2>7. stage' = "frame" => plate_width' = WidthSeen(boxes, i)
    BY <1>1, <1>9
  <2>8. Chosen'
    <3>1. WidthSeen(boxes, select)' = WidthSeen(boxes, i)
      BY <1>1, <1>9 DEF WidthSeen, LastSeen, TooFar, DeltaX, Size
    <3> QED BY <1>1, <1>5, <1>9, <2>1, <2>2, <2>7, <3>1 DEF Chosen
  <2> QED BY <1>6, <1>7, <2>4, <2>6, <2>8 DEF Cut
<1> QED BY <1>8, <1>9 DEF Snake

\* What is framed lies in the picture and holds the friends.
LEMMA FrameHolds ==
  ASSUME Cut, stage = "frame", friends >= 6, FrameFits(boxes[select])
  PROVE  LET b == boxes[select]
             right == b.x + plate_width + program.right
             bottom == (10 * (b.y + 20) + 3 * plate_width) \div 10
         IN /\ b.x - 20 \in 0..640 /\ right \in 0..640 /\ b.y - 20 \in 0..480 /\ bottom \in 0..480
            /\ \A j \in FriendsOf(select) : boxes[j].w <= program.right =>
                 b.x - 20 <= boxes[j].x /\ boxes[j].x + boxes[j].w <= right
<1> DEFINE b == boxes[select]
<1>1. /\ boxes \in Seq(Cell) /\ Settled(boxes, 1) /\ program.reach \in Nat /\ program.right \in 0..40
      /\ select \in 1..Size(boxes) /\ select \in 1..Len(boxes)
      /\ plate_width = WidthSeen(boxes, select) /\ plate_width \in Nat
  <2>1. boxes \in Seq(Cell) /\ Settled(boxes, 1) /\ plate_width \in Nat /\ program \in Programs
    BY DEF Cut, TypeOK, Sorting, Sorted, Cell
  <2>2. select # Unset /\ select \in 0..Size(boxes) /\ plate_width = WidthSeen(boxes, select)
    BY DEF Cut, Chosen
  <2> QED BY <2>1, <2>2, ProgramType DEF Unset, Size
<1>2. b \in Cell /\ b.x \in Int /\ b.y \in Int
  <2>1. b \in Cell
    BY <1>1, ElementOf
  <2> QED BY <2>1, CellType
<1>3. /\ b.y - 20 > 0 /\ b.x - 20 > 0
      /\ 10 * (b.y + 20) + 3 * plate_width < 4800
      /\ b.x + plate_width + 40 < 640
  BY DEF FrameFits
<1> HIDE DEF b
<1>4. b.x - 20 \in 0..640 /\ b.x + plate_width + program.right \in 0..640 /\ b.y - 20 \in 0..480
  <2> DEFINE x == b.x
             y == b.y
             r == program.right
  <2>1. x \in Int /\ y \in Int /\ plate_width \in Nat /\ r \in 0..40
    BY <1>1, <1>2
  <2>2. y - 20 > 0 /\ x - 20 > 0 /\ 10 * (y + 20) + 3 * plate_width < 4800 /\ x + plate_width + 40 < 640
    BY <1>3
  <2> HIDE DEF x, y, r
  <2>3. x - 20 \in 0..640 /\ x + plate_width + r \in 0..640 /\ y - 20 \in 0..480
    BY <2>1, <2>2
  <2> QED BY <2>3 DEF x, y, r
<1>5. (10 * (b.y + 20) + 3 * plate_width) \div 10 \in 0..480
  <2>1. \A y \in Int : \A pw \in Nat :
          y - 20 > 0 /\ 10 * (y + 20) + 3 * pw < 4800 => (10 * (y + 20) + 3 * pw) \div 10 \in 0..480
    OBVIOUS
  <2>2. plate_width \in Nat /\ program.right \in 0..40
    BY <1>1
  <2> QED BY <1>2, <1>3, <2>1, <2>2
<1>6. ASSUME NEW j \in FriendsOf(select), boxes[j].w <= program.right
      PROVE  b.x - 20 <= boxes[j].x /\ boxes[j].x + boxes[j].w <= b.x + plate_width + program.right
  <2>1. /\ j \in 1..Len(boxes)
        /\ boxes[select].x <= boxes[j].x /\ boxes[j].x <= boxes[select].x + WidthSeen(boxes, select)
    BY <1>1, FriendsInWidth
  <2>2. boxes[j].x \in Int /\ boxes[j].w \in Nat
    <3>1. boxes[j] \in Cell
      BY <1>1, <2>1, ElementOf
    <3> QED BY <3>1, CellType
  <2>3. b.x <= boxes[j].x /\ boxes[j].x <= b.x + plate_width
    BY <1>1, <2>1 DEF b
  <2>4. \A x, z \in Int : \A v, pw \in Nat : \A r \in 0..40 :
          x <= z /\ z <= x + pw /\ v <= r => x - 20 <= z /\ z + v <= x + pw + r
    OBVIOUS
  <2> QED BY <1>1, <1>2, <1>6, <2>2, <2>3, <2>4, Zenon
<1> QED BY <1>4, <1>5, <1>6 DEF b

LEMMA CutFrame ==
  ASSUME Cut, Frame
  PROVE  Cut'
<1>1. stage = "frame" /\ program.framed /\ UNCHANGED <<program, mode, numbers>>
  BY DEF Frame, Cut, Chosen
<1>2. CASE Return
  <2>1. TypeOK'
    BY <1>1, <1>2 DEF Return, Cut, TypeOK, Stages, Unset, NoCrop
  <2> QED BY <1>2, <2>1, CutIdle DEF Return
<1>3. CASE /\ friends >= 6 /\ FrameFits(boxes[select])
           /\ crop' = LET b == boxes[select] IN
                [left |-> b.x - 20, right |-> b.x + plate_width + program.right,
                 top |-> b.y - 20, bottom |-> (10 * (b.y + 20) + 3 * plate_width) \div 10]
           /\ stage' = "read"
           /\ UNCHANGED <<picture, boxes, turn, select, friends, plate_width>>
  <2> DEFINE left == boxes[select].x - 20
             right == boxes[select].x + plate_width + program.right
             top == boxes[select].y - 20
             bottom == (10 * (boxes[select].y + 20) + 3 * plate_width) \div 10
  <2>1. /\ left \in 0..640 /\ right \in 0..640 /\ top \in 0..480 /\ bottom \in 0..480
        /\ \A j \in FriendsOf(select) : boxes[j].w <= program.right =>
             left <= boxes[j].x /\ boxes[j].x + boxes[j].w <= right
    BY <1>1, <1>3, FrameHolds
  <2>2. crop' = [left |-> left, right |-> right, top |-> top, bottom |-> bottom]
    BY <1>3
  <2> HIDE DEF left, right, top, bottom
  <2>3. FrameHoldsFriends'
    <3>1. FriendsOf(select)' = FriendsOf(select)
      BY <1>1, <1>3 DEF FriendsOf, OnLine, DeltaX, Distance, AtLeastOne, Size
    <3>2. crop'.left = left /\ crop'.right = right /\ crop'.top = top /\ crop'.bottom = bottom
      BY <2>2
    <3>3. crop'.left >= 0 /\ crop'.right <= 640 /\ crop'.top >= 0 /\ crop'.bottom <= 480
      BY <2>1, <3>2
    <3>4. \A j \in FriendsOf(select)' : boxes'[j].w <= program'.right =>
            crop'.left <= boxes'[j].x /\ boxes'[j].x + boxes'[j].w <= crop'.right
      BY <1>1, <1>3, <2>1, <3>1, <3>2
    <3> QED BY <3>3, <3>4, Zenon DEF FrameHoldsFriends
  <2>4. crop' \in [left : Int, right : Int, top : Int, bottom : Int]
    BY <2>1, <2>2
  <2>5. TypeOK'
    BY <1>1, <1>3, <2>4 DEF Cut, TypeOK, Stages
  <2>6. Scanned' /\ Filled' /\ Sorting'
    BY <1>1, <1>3 DEF Cut, Scanned, Filled, Sorting, Sorted
  <2>7. Chosen' /\ FullestIsChosen'
    BY <1>3 DEF Chosen, FullestIsChosen
  <2> QED BY <2>3, <2>5, <2>6, <2>7 DEF Cut
<1> QED BY <1>2, <1>3 DEF Frame

LEMMA CutCollect ==
  ASSUME Cut, Collect
  PROVE  Cut'
<1>1. /\ stage = "collect" /\ ~program.framed
      /\ UNCHANGED <<program, mode, picture, boxes, turn, friends, plate_width, numbers>>
  BY DEF Collect, Cut, Chosen
<1>2. boxes \in Seq(Cell) /\ boxes # <<>> /\ select \in 0..Size(boxes)
  BY <1>1 DEF Cut, TypeOK, Filled, Chosen, Sorted, Cell
<1>3. stage' \in {"read", "died"} /\ select' \in Nat /\ crop' \in [left : Int, right : Int, top : Int, bottom : Int]
  <2>1. CASE select = Unset /\ stage' = "died" /\ UNCHANGED <<select, crop>>
    BY <2>1 DEF Cut, TypeOK
  <2>2. ASSUME NEW s \in (IF select = Unset THEN 1..Len(boxes) ELSE {select}),
               LET path == Follow(boxes, s)
                   row == [i \in 1..Len(path) |-> boxes[path[i]]]
                   c == RowCrop(row)
               IN /\ select' = path[Len(path)]
                  /\ crop' = c
                  /\ stage' = IF c.left < c.right /\ c.top < c.bottom THEN "read" ELSE "died"
        PROVE  stage' \in {"read", "died"} /\ select' \in Nat
               /\ crop' \in [left : Int, right : Int, top : Int, bottom : Int]
    <3> DEFINE path == Follow(boxes, s)
               row == [i \in 1..Len(path) |-> boxes[path[i]]]
    <3>1. s \in 1..Len(boxes)
      BY <1>2 DEF Unset, Size
    <3>2. path \in Seq(1..Len(boxes)) /\ path # <<>>
      BY <1>2, <3>1, FollowType
    <3>3. crop' = RowCrop(row) /\ select' = path[Len(path)] /\ stage' \in {"read", "died"}
      BY <2>2
    <3> HIDE DEF path
    <3>4. row \in Seq(Cell) /\ row # <<>>
      <4>1. Len(path) \in Nat \ {0} /\ \A i \in 1..Len(path) : boxes[path[i]] \in Cell
        BY <1>2, <3>2
      <4> QED BY <4>1
    <3>5. path[Len(path)] \in Nat
      BY <3>2
    <3> HIDE DEF row
    <3> QED BY <3>3, <3>4, <3>5, RowCropType
  <2> QED BY <2>1, <2>2 DEF Collect
<1>4. TypeOK'
  BY <1>1, <1>3 DEF Cut, TypeOK, Stages
<1>5. Scanned' /\ Filled' /\ Sorting' /\ Chosen' /\ FullestIsChosen' /\ FrameHoldsFriends'
  BY <1>1, <1>3 DEF Cut, Scanned, Filled, Sorting, Sorted, Chosen, FullestIsChosen, FrameHoldsFriends
<1> QED BY <1>4, <1>5 DEF Cut

LEMMA CutNext == Cut /\ [Next]_vars => Cut'
<1> SUFFICES ASSUME Cut, [Next]_vars PROVE Cut'
  OBVIOUS
<1>1. ASSUME NEW n \in {2, 3}, StepCallback(n) PROVE Cut'
  <2>1. TypeOK'
    BY <1>1 DEF StepCallback, scan, Cut, TypeOK
  <2>2. /\ stage = "idle" /\ stage' = "idle" /\ select' = select /\ friends' = friends
        /\ plate_width' = plate_width
    BY <1>1 DEF StepCallback, scan
  <2> QED BY <2>1, <2>2, CutIdle DEF Cut, Chosen
<1>2. ASSUME NEW p \in Pictures, TakePicture(p) PROVE Cut'
  <2>1. TypeOK'
    BY <1>2 DEF TakePicture, Cut, TypeOK, Stages
  <2>2. Scanned' /\ Filled' /\ Sorting' /\ Chosen' /\ FullestIsChosen' /\ FrameHoldsFriends'
    BY <1>2 DEF TakePicture, Cut, Scanned, Filled, Sorting, Sorted, Chosen, FullestIsChosen, FrameHoldsFriends
  <2> QED BY <2>1, <2>2 DEF Cut
<1>3. ASSUME NEW t \in Texts, ReadText(t) PROVE Cut'
  <2>1. t \in Seq(STRING) /\ Return /\ program' = program
    BY <1>3, TextAssumption DEF ReadText
  <2>2. numbers' \in Seq(Digits) /\ mode' \in 0..2
    <3>1. \/ numbers' = numbers
          \/ Found(t) = 2 /\ numbers' = SubSeq(t, FirstSpace(t) + 1, FirstSpace(t) + 4)
      BY <1>3 DEF ReadText, FindNumber
    <3>2. numbers' \in Seq(Digits)
      BY <2>1, <3>1, FoundDigits DEF Cut, TypeOK
    <3>3. mode' \in 0..2
      BY <1>3 DEF ReadText, Cut, TypeOK
    <3> QED BY <3>2, <3>3
  <2>3. TypeOK'
    BY <2>1, <2>2 DEF Return, Cut, TypeOK, Stages, Unset, NoCrop
  <2> QED BY <2>1, <2>3, CutIdle DEF Return
<1>4. CASE Restart
  <2>1. TypeOK'
    BY <1>4, ProgramType DEF Restart, Return, Cut, TypeOK, Stages, Unset, NoCrop
  <2> QED BY <1>4, <2>1, CutIdle DEF Restart, Return
<1>5. CASE UNCHANGED vars
  <2>1. /\ UNCHANGED <<program, mode, stage, numbers>>
        /\ UNCHANGED <<picture, boxes, turn, select, friends, plate_width, crop>>
    BY <1>5 DEF vars, scan
  <2>2. TypeOK' /\ Scanned' /\ Filled' /\ Sorting'
    BY <2>1 DEF Cut, TypeOK, Scanned, Filled, Sorting, Sorted
  <2>3. Chosen'
    <3>1. WidthSeen(boxes, select)' = WidthSeen(boxes, select)
      BY <2>1 DEF WidthSeen, LastSeen, TooFar, DeltaX, Size
    <3> QED BY <2>1, <3>1 DEF Cut, Chosen, Size
  <2>4. \A i : FriendsOf(i)' = FriendsOf(i)
    BY <2>1 DEF FriendsOf, OnLine, DeltaX, Distance, AtLeastOne, Size
  <2>5. Size(boxes)' = Size(boxes)
    BY <2>1 DEF Size
  <2>6. FullestIsChosen'
    BY <2>1, <2>4, <2>5 DEF Cut, FullestIsChosen
  <2>7. FrameHoldsFriends'
    BY <2>1, <2>4 DEF Cut, FrameHoldsFriends
  <2> QED BY <2>2, <2>3, <2>6, <2>7 DEF Cut
<1> QED BY <1>1, <1>2, <1>3, <1>4, <1>5, CutFilter, CutSort, CutSnake, CutFrame, CutCollect DEF Next

LEMMA CutAlways == Spec => []Cut
<1>1. Init => Cut
  <2> SUFFICES ASSUME Init PROVE Cut
    OBVIOUS
  <2>1. TypeOK
    BY ProgramType DEF Init, Blank, TypeOK, Stages, Unset, NoCrop
  <2> QED BY <2>1 DEF Init, Blank, Cut, Scanned, Filled, Sorting, Chosen, FullestIsChosen, FrameHoldsFriends, Sorted
<1> QED BY <1>1, CutNext, PTL DEF Spec

(***************************************************************************)
(* Every variable has its type, whatever the pictures and texts: number_back*)
(* holds digits only, and what is cut out is given by numbers even for a    *)
(* row that starts at an uninitialized select (Blocking_Raspberry.cpp:235). *)
(***************************************************************************)
THEOREM TypeIsKept == Spec => []TypeOK
<1>1. Cut => TypeOK
  BY DEF Cut
<1> QED BY <1>1, CutAlways, PTL

(***************************************************************************)
(* For any number of contours in any order: after the sort the array is in  *)
(* order and has one empty rectangle and each one that fits as often as the *)
(* picture, so the cell cut off behind the last is a rightmost rectangle    *)
(* (Blocking_Raspberry.cpp:172, :177, :180).                                *)
(***************************************************************************)
THEOREM OnlyARightmostIsLost == Spec => []LosesARightmost
<1>1. Cut => LosesARightmost
  <2> SUFFICES ASSUME Cut, stage \in Sorted PROVE LosesARightmost
    BY DEF LosesARightmost
  <2>1. /\ boxes \in Seq(Cell) /\ Settled(boxes, 1) /\ Holds(boxes, picture) /\ picture \in Pictures
        /\ Len(boxes) \in Nat
    BY DEF Cut, TypeOK, Scanned, Filled, Sorting, Sorted, Cell
  <2>2. \A i \in 1..(Len(boxes) - 1) : boxes[i].x <= boxes[i + 1].x
    <3> SUFFICES ASSUME NEW i \in 1..(Len(boxes) - 1) PROVE boxes[i].x <= boxes[i + 1].x
      OBVIOUS
    <3>1. i + 1 \in 1..Len(boxes) /\ i \in 1..(i + 1)
      BY <2>1
    <3> QED BY <2>1, <3>1 DEF Settled
  <2>3. ToSet(boxes) \cup ToSet(picture) \subseteq Cell
    <3>1. picture \in Seq(Box)
      BY <2>1, PictureAssumption
    <3>2. \A k \in 1..Len(boxes) : boxes[k] \in Cell
      BY <2>1
    <3>3. \A k \in 1..Len(picture) : picture[k] \in Cell
      BY <3>1, EmptyIsNoBox
    <3>4. DOMAIN boxes = 1..Len(boxes) /\ DOMAIN picture = 1..Len(picture)
      BY <2>1, <3>1
    <3> QED BY <3>2, <3>3, <3>4 DEF ToSet
  <2>4. \A b \in (ToSet(boxes) \cup ToSet(picture)) \ {Empty} : b \in Box
    BY <2>3 DEF Cell
  <2> QED BY <2>1, <2>2, <2>4, Zenon DEF Holds, LosesARightmost
<1> QED BY <1>1, CutAlways, PTL

(***************************************************************************)
(* In any picture the snake that is chosen has as many friends as any and is*)
(* the leftmost of those, and none is chosen only when no rectangle has a   *)
(* friend (Blocking_Raspberry.cpp:200, :225).                               *)
(***************************************************************************)
THEOREM TheFullestIsChosen == Spec => []FullestIsChosen
<1>1. Cut => FullestIsChosen
  BY DEF Cut
<1> QED BY <1>1, CutAlways, PTL

(***************************************************************************)
(* What is cut out by width lies inside the picture and holds every friend  *)
(* no wider than what is added at the right, in any picture                 *)
(* (total_camera.cpp:140-150).                                              *)
(***************************************************************************)
THEOREM TheFrameHoldsFriends == Spec => []FrameHoldsFriends
<1>1. Cut => FrameHoldsFriends
  BY DEF Cut
<1> QED BY <1>1, CutAlways, PTL

-----------------------------------------------------------------------------
(***************************************************************************)
(* A plate alone in the picture keeps its right edge.  Its contours are     *)
(* those of characters and of their inner edges, which are all alike; the   *)
(* snake that is chosen starts on the first character, since a contour of   *)
(* any other one is a friend of the same contour of the first; carNumber    *)
(* goes from character to character; and the columns are counted.           *)
(***************************************************************************)

LEMMA OccursSome ==
  ASSUME NEW T, NEW s \in Seq(T), NEW c
  PROVE  /\ Occurs(c, s) \in Nat
         /\ Occurs(c, s) # 0 <=> \E i \in 1..Len(s) : s[i] = c
         /\ Occurs(c, s) = 1 => \A i, j \in 1..Len(s) : s[i] = c /\ s[j] = c => i = j
<1> DEFINE S == {i \in 1..Len(s) : s[i] = c}
<1>1. Len(s) \in Nat
  OBVIOUS
<1>2. IsFiniteSet(S)
  BY <1>1, AmongType
<1>3. Occurs(c, s) = Cardinality(S)
  BY Zenon DEF Occurs
<1>4. Cardinality(S) \in Nat
  <2> HIDE DEF S
  <2> QED BY <1>2, FS_CardinalityType
<1>5. Cardinality(S) = 0 <=> S = {}
  <2> HIDE DEF S
  <2> QED BY <1>2, FS_EmptySet
<1>6. Cardinality(S) = 1 => \E i : S = {i}
  <2> HIDE DEF S
  <2> QED BY <1>2, FS_Singleton
<1>7. S # {} <=> \E i \in 1..Len(s) : s[i] = c
  OBVIOUS
<1>8. (\E i : S = {i}) => \A i, j \in 1..Len(s) : s[i] = c /\ s[j] = c => i = j
  OBVIOUS
<1> QED BY <1>3, <1>4, <1>5, <1>6, <1>7, <1>8, Zenon

\* The array of a picture when it is sorted.
OnArray ==
  /\ picture \in Seq(Box) /\ boxes \in Seq(Cell)
  /\ Settled(boxes, 1) /\ Holds(boxes, picture)

LEMMA AcceptedType ==
  ASSUME picture \in Seq(Box)
  PROVE  /\ \A v \in Accepted : v \in Box /\ v \in Cell /\ v # Empty /\ FitsACharacter(v) /\ Occurs(v, picture) # 0
         /\ \A v \in Box : FitsACharacter(v) /\ Occurs(v, picture) # 0 => v \in Accepted
<1>1. \A v : v \in ToSet(picture) <=> \E i \in 1..Len(picture) : picture[i] = v
  <2>1. DOMAIN picture = 1..Len(picture)
    OBVIOUS
  <2> QED BY <2>1 DEF ToSet
<1>2. \A v : v \in ToSet(picture) <=> Occurs(v, picture) # 0
  BY <1>1, OccursSome
<1>3. \A v \in ToSet(picture) : v \in Box
  BY <1>1
<1>4. \A v : v \in Accepted <=> v \in ToSet(picture) /\ FitsACharacter(v)
  BY Zenon DEF Accepted
<1> QED BY <1>2, <1>3, <1>4, EmptyIsNoBox

LEMMA InArray ==
  ASSUME OnArray
  PROVE  /\ \A i \in 1..Len(boxes) : boxes[i] # Empty => boxes[i] \in Accepted
         /\ \A v \in Accepted : \E i \in 1..Len(boxes) : boxes[i] = v
         /\ \A i, j \in 1..Len(boxes) : boxes[i] = Empty /\ boxes[j] = Empty => i = j
<1>1. /\ picture \in Seq(Box) /\ boxes \in Seq(Cell) /\ Occurs(Empty, boxes) = 1
      /\ \A c \in Box : Occurs(c, boxes) = IF FitsACharacter(c) THEN Occurs(c, picture) ELSE 0
  BY DEF OnArray, Holds
<1>2. ASSUME NEW i \in 1..Len(boxes), boxes[i] # Empty PROVE boxes[i] \in Accepted
  <2>1. boxes[i] \in Box
    BY <1>1, <1>2, ElementOf DEF Cell
  <2>2. Occurs(boxes[i], boxes) # 0
    BY <1>1, OccursSome
  <2>3. FitsACharacter(boxes[i]) /\ Occurs(boxes[i], picture) # 0
    BY <1>1, <2>1, <2>2, Zenon
  <2> QED BY <1>1, <2>1, <2>3, AcceptedType
<1>3. ASSUME NEW v \in Accepted PROVE \E i \in 1..Len(boxes) : boxes[i] = v
  <2>1. v \in Box /\ FitsACharacter(v) /\ Occurs(v, picture) # 0
    BY <1>1, AcceptedType
  <2>2. Occurs(v, boxes) # 0
    BY <1>1, <2>1, Zenon
  <2> QED BY <1>1, <2>2, OccursSome
<1>4. \A i, j \in 1..Len(boxes) : boxes[i] = Empty /\ boxes[j] = Empty => i = j
  BY <1>1, OccursSome
<1> QED BY <1>2, <1>3, <1>4

-----------------------------------------------------------------------------
LEMMA LineAhead ==
  ASSUME NEW a \in Cell, NEW b \in Cell, NEW p \in Int, a.x < b.x
  PROVE  /\ DeltaX(a, b) = b.x - a.x
         /\ OnLine(a, b, p) <=> /\ 100 < p * (b.x - a.x)
                                /\ 100 * (b.y - a.y) < p * (b.x - a.x)
                                /\ 100 * (a.y - b.y) < p * (b.x - a.x)
<1> DEFINE dx == b.x - a.x
           dy == Distance(a.y, b.y)
           m == p * dx
<1>1. a.x \in Int /\ b.x \in Int /\ a.y \in Int /\ b.y \in Int
  BY CellType
<1>2. DeltaX(a, b) = dx
  BY <1>1 DEF DeltaX, Distance
<1>3. AtLeastOne(DeltaX(a, b)) = dx
  BY <1>1, <1>2 DEF AtLeastOne
<1>4. OnLine(a, b, p) <=> 100 * AtLeastOne(dy) < m
  BY <1>3 DEF OnLine
<1>5. \A k, l \in Int : \A z \in Int :
        100 * AtLeastOne(Distance(k, l)) < z <=> 100 < z /\ 100 * (l - k) < z /\ 100 * (k - l) < z
  BY DEF AtLeastOne, Distance
<1>6. m \in Int
  BY <1>1
<1> HIDE DEF m
<1>7. OnLine(a, b, p) <=> 100 < m /\ 100 * (b.y - a.y) < m /\ 100 * (a.y - b.y) < m
  BY <1>1, <1>4, <1>5, <1>6
<1> QED BY <1>2, <1>7 DEF m

LEMMA LineAbove ==
  ASSUME NEW a \in Cell, NEW b \in Cell, NEW p \in 0..100, a.x = b.x
  PROVE  DeltaX(a, b) = 0 /\ ~OnLine(a, b, p)
<1>1. a.x \in Int /\ b.x \in Int /\ a.y \in Int /\ b.y \in Int
  BY CellType
<1>2. DeltaX(a, b) = 0
  BY <1>1 DEF DeltaX, Distance
<1>3. p * AtLeastOne(DeltaX(a, b)) = p
  BY <1>2 DEF AtLeastOne
<1>4. \A k, l \in Int : 100 * AtLeastOne(Distance(k, l)) >= 100
  BY DEF AtLeastOne, Distance
<1>5. 100 * AtLeastOne(Distance(a.y, b.y)) >= 100 /\ Distance(a.y, b.y) \in Int
  BY <1>1, <1>4 DEF Distance
<1>6. AtLeastOne(Distance(a.y, b.y)) \in Int
  BY <1>5 DEF AtLeastOne
<1> QED BY <1>2, <1>3, <1>5, <1>6 DEF OnLine

-----------------------------------------------------------------------------
OuterType == \A a \in Outer : a \in Accepted /\ a \in Cell /\ a.x > 100 /\ ~OnLine(Empty, a, 25)

LEMMA OutersAre ==
  ASSUME picture \in Seq(Box), OnePlate
  PROVE  OuterType
<1>1. \A a \in Outer : a \in Accepted
  BY Zenon DEF Outer
<1> QED BY <1>1, AcceptedType DEF OnePlate, OuterType

LEMMA OutersApart ==
  ASSUME picture \in Seq(Box), OnePlate, NEW a \in Outer, NEW b \in Outer
  PROVE  /\ a.x = b.x => a = b
         /\ a.x < b.x => /\ b.x - a.x \in 23..198 /\ a.x + a.w <= b.x
                         /\ 100 * (b.y - a.y) < 14 * (b.x - a.x)
                         /\ 100 * (a.y - b.y) < 14 * (b.x - a.x)
<1>1. a \in Cell /\ b \in Cell
  BY OutersAre DEF OuterType
<1>2. a # b => OnLine(a, b, 14) /\ DeltaX(a, b) \in 23..198
  BY DEF OnePlate
<1>3. a.x = b.x => a = b
  <2>1. a.x = b.x => ~OnLine(a, b, 14)
    BY <1>1, LineAbove
  <2> QED BY <1>2, <2>1
<1>4. a.x < b.x => a.x + a.w <= b.x
  BY DEF OnePlate
<1>5. ASSUME a.x < b.x
      PROVE  /\ b.x - a.x \in 23..198
             /\ 100 * (b.y - a.y) < 14 * (b.x - a.x) /\ 100 * (a.y - b.y) < 14 * (b.x - a.x)
  <2>1. a # b
    BY <1>1, <1>5, CellType
  <2> QED BY <1>1, <1>2, <1>5, <2>1, LineAhead
<1> QED BY <1>3, <1>4, <1>5

\* v is drawn at (dx, dy) of the outer contour a.
At(v, a, dx, dy) == v.x = a.x + dx /\ v.y = a.y + dy /\ v.w = a.w - 2 * dx

LEMMA Strokes ==
  ASSUME picture \in Seq(Box), OnePlate, NEW v \in Accepted
  PROVE  \E a \in Outer : \E dx, dy \in 0..2 :
           /\ At(v, a, dx, dy)
           /\ \A o \in Outer : \E u \in Accepted : At(u, o, dx, dy)
<1>1. PICK d \in 1..2, e \in 1..2 : \A a, c \in Accepted : Twin(a, c) => c.x = a.x + d /\ c.y = a.y + e
  BY DEF OnePlate
<1>2. v \in Outer \/ v \in Inner
  BY DEF OnePlate
<1>3. \A o \in Accepted : o.x \in Int /\ o.y \in Int /\ o.w \in Int
  BY AcceptedType, CellType
<1>4. \A o \in Outer : o \in Accepted
  BY Zenon DEF Outer
<1>5. CASE v \in Outer
  <2>1. \A o \in Outer : At(o, o, 0, 0)
    BY <1>3, <1>4 DEF At
  <2>2. 0 \in 0..2
    OBVIOUS
  <2> QED BY <1>4, <1>5, <2>1, <2>2
<1>6. CASE v \in Inner
  <2>1. PICK a \in Accepted : Twin(a, v)
    BY <1>6 DEF Inner
  <2>2. a \in Outer
    BY <2>1 DEF Outer
  <2>3. \A o, u \in Accepted : Twin(o, u) => At(u, o, d, e)
    <3> SUFFICES ASSUME NEW o \in Accepted, NEW u \in Accepted, Twin(o, u) PROVE At(u, o, d, e)
      OBVIOUS
    <3>1. u.x = o.x + d /\ u.y = o.y + e /\ u.w = o.w - 2 * (u.x - o.x)
      BY <1>1 DEF Twin
    <3>2. u.x - o.x = d
      BY <1>3, <3>1
    <3> QED BY <3>1, <3>2 DEF At
  <2>4. \A o \in Outer : \E u \in Accepted : At(u, o, d, e)
    <3> SUFFICES ASSUME NEW o \in Outer PROVE \E u \in Accepted : At(u, o, d, e)
      OBVIOUS
    <3>1. PICK u \in Accepted : Twin(o, u)
      BY DEF Outer
    <3> QED BY <1>4, <2>3, <3>1
  <2>5. d \in 0..2 /\ e \in 0..2
    OBVIOUS
  <2> QED BY <2>1, <2>2, <2>3, <2>4, <2>5
<1> QED BY <1>2, <1>5, <1>6

LEMMA Ends ==
  ASSUME picture \in Seq(Box), OnePlate
  PROVE  \E f, l \in Outer : /\ \A a \in Outer : f.x <= a.x /\ a.x <= l.x
                             /\ l.x - f.x >= 46
<1>1. \A a \in Outer : a \in Cell /\ a.x > 100 /\ a.x \in Int
  BY OutersAre, CellType DEF OuterType
<1>0. Cardinality(Outer) >= 3
  BY Zenon DEF OnePlate
<1>2. Outer # {}
  <2> SUFFICES ASSUME Outer = {} PROVE FALSE
    OBVIOUS
  <2>1. Cardinality(Outer) = 0
    BY FS_EmptySet, Zenon
  <2> QED BY <1>0, <2>1
<1>a. \A p, q \in Int : q - p \in 23..198 => p + 198 - q \in Nat /\ q - p >= 23
  OBVIOUS
<1> DEFINE Xs == {a.x : a \in Outer}
<1>3. Xs \in SUBSET Nat /\ Xs # {}
  BY <1>1, <1>2
<1>4. PICK x \in Xs : \A z \in Xs : x <= z
  <2> HIDE DEF Xs
  <2> QED BY <1>3, SmallestOf
<1>5. PICK f \in Outer : x = f.x
  OBVIOUS
<1>6. \A a \in Outer : f.x <= a.x
  BY <1>4, <1>5
<1> DEFINE Ys == {f.x + 198 - a.x : a \in Outer}
<1>7. Ys \in SUBSET Nat /\ Ys # {}
  <2>1. ASSUME NEW a \in Outer PROVE f.x + 198 - a.x \in Nat
    <3>1. f.x \in Int /\ a.x \in Int /\ f.x <= a.x
      BY <1>1, <1>6
    <3>2. CASE f.x = a.x
      BY <3>1, <3>2
    <3>3. CASE f.x < a.x
      <4>1. a.x - f.x \in 23..198
        BY <3>3, OutersApart
      <4> QED BY <1>a, <3>1, <4>1, Zenon
    <3> QED BY <3>1, <3>2, <3>3
  <2> QED BY <1>2, <2>1
<1>8. PICK y \in Ys : \A z \in Ys : y <= z
  <2> HIDE DEF Ys
  <2> QED BY <1>7, SmallestOf
<1>9. PICK l \in Outer : y = f.x + 198 - l.x
  OBVIOUS
<1>10. \A a \in Outer : a.x <= l.x
  <2> SUFFICES ASSUME NEW a \in Outer PROVE a.x <= l.x
    OBVIOUS
  <2>1. f.x + 198 - a.x \in Ys
    OBVIOUS
  <2>2. f.x + 198 - l.x <= f.x + 198 - a.x
    <3> HIDE DEF Ys
    <3> QED BY <1>8, <1>9, <2>1
  <2> QED BY <1>1, <2>2
<1> HIDE DEF Xs, Ys
<1>11. PICK m \in Outer : m # f /\ m # l
  <2>1. ASSUME Outer \subseteq {f, l} PROVE FALSE
    <3> DEFINE one == {f}
               two == one \cup {l}
    <3>1. IsFiniteSet(one) /\ Cardinality(one) = 1
      BY FS_Singleton
    <3> HIDE DEF one
    <3>2. IsFiniteSet(two) /\ (Cardinality(two) = 1 \/ Cardinality(two) = 2)
      <4>1. IsFiniteSet(one \cup {l})
            /\ Cardinality(one \cup {l}) = IF l \in one THEN Cardinality(one) ELSE Cardinality(one) + 1
        BY <3>1, FS_AddElement, Zenon
      <4> QED BY <3>1, <4>1
    <3>3. Outer \in SUBSET two
      BY <2>1 DEF one
    <3> HIDE DEF two
    <3>4. Cardinality(Outer) <= Cardinality(two) /\ IsFiniteSet(Outer)
      BY <3>2, <3>3, FS_Subset
    <3>5. Cardinality(Outer) \in Nat
      BY <3>4, FS_CardinalityType
    <3> QED BY <1>0, <3>2, <3>4, <3>5
  <2> QED BY <2>1
<1>12. f.x < m.x /\ m.x < l.x
  <2>1. f.x # m.x /\ m.x # l.x
    BY <1>11, OutersApart
  <2> QED BY <1>1, <1>6, <1>10, <2>1
<1>13. m.x - f.x >= 23 /\ l.x - m.x >= 23
  <2>1. m.x - f.x \in 23..198 /\ l.x - m.x \in 23..198
    BY <1>12, OutersApart
  <2> QED BY <1>1, <1>a, <2>1, Zenon
<1>14. l.x - f.x >= 46
  BY <1>1, <1>13
<1> QED BY <1>6, <1>10, <1>14

-----------------------------------------------------------------------------
LEMMA InOrder ==
  ASSUME OnArray, NEW i \in 1..Len(boxes), NEW j \in 1..Len(boxes)
  PROVE  /\ i <= j => boxes[i].x <= boxes[j].x
         /\ boxes[i].x < boxes[j].x => i < j
         /\ boxes[i] \in Cell /\ boxes[i].x \in Int
<1>1. boxes \in Seq(Cell) /\ Settled(boxes, 1)
  BY DEF OnArray
<1>2. boxes[i] \in Cell /\ boxes[j] \in Cell
  BY <1>1, ElementOf
<1>3. boxes[i].x \in Int /\ boxes[j].x \in Int
  BY <1>2, CellType
<1>4. i <= j => boxes[i].x <= boxes[j].x
  <2>1. i <= j => i \in 1..j
    OBVIOUS
  <2> QED BY <1>1, <2>1, Zenon DEF Settled
<1>5. j <= i => boxes[j].x <= boxes[i].x
  <2>1. j <= i => j \in 1..i
    OBVIOUS
  <2> QED BY <1>1, <2>1, Zenon DEF Settled
<1>6. boxes[i].x < boxes[j].x => i < j
  <2> SUFFICES ASSUME boxes[i].x < boxes[j].x, ~(i < j) PROVE FALSE
    OBVIOUS
  <2>1. j <= i
    OBVIOUS
  <2> QED BY <1>3, <1>5, <2>1
<1> QED BY <1>2, <1>3, <1>4, <1>6

LEMMA AcceptedRight ==
  ASSUME picture \in Seq(Box), OnePlate, NEW v \in Accepted
  PROVE  v \in Cell /\ v.x \in Int /\ v.y \in Int /\ v.x > 100
<1>1. v \in Cell /\ v.x \in Int /\ v.y \in Int
  BY AcceptedType, CellType
<1>2. PICK a \in Outer : \E dx, dy \in 0..2 : At(v, a, dx, dy)
  BY Strokes
<1>3. a.x > 100 /\ a.x \in Int
  BY OutersAre, CellType DEF OuterType
<1>4. v.x > 100
  BY <1>2, <1>3 DEF At
<1> QED BY <1>1, <1>4

LEMMA LaterAccepted ==
  ASSUME OnArray, OnePlate, NEW i \in 1..Len(boxes), NEW j \in 1..Len(boxes), i <= j,
         boxes[i] \in Accepted
  PROVE  boxes[j] \in Accepted
<1>1. boxes[i].x > 100 /\ boxes[i].x \in Int
  BY AcceptedRight DEF OnArray
<1>2. boxes[i].x <= boxes[j].x /\ boxes[j].x \in Int
  BY InOrder
<1>3. boxes[j] # Empty
  BY <1>1, <1>2 DEF Empty
<1> QED BY <1>3, InArray

LEMMA OuterInside ==
  ASSUME OnArray, OnePlate, NEW a \in Outer
  PROVE  \E i \in 1..Size(boxes) : boxes[i] = a
<1>1. PICK c \in Accepted : Twin(a, c)
  BY DEF Outer
<1>2. a \in Accepted
  BY Zenon DEF Outer
<1>3. PICK i \in 1..Len(boxes) : boxes[i] = a
  BY <1>2, InArray
<1>4. PICK k \in 1..Len(boxes) : boxes[k] = c
  BY InArray
<1>5. i < k
  <2>1. boxes[i].x < boxes[k].x
    BY <1>1, <1>3, <1>4 DEF Twin
  <2> QED BY <2>1, InOrder
<1>6. Len(boxes) \in Nat
  BY DEF OnArray
<1>7. i \in 1..Size(boxes)
  BY <1>5, <1>6 DEF Size
<1> QED BY <1>3, <1>7

-----------------------------------------------------------------------------
LEMMA FriendsFinite ==
  ASSUME boxes \in Seq(Cell), NEW i \in 1..Size(boxes)
  PROVE  /\ IsFiniteSet(FriendsOf(i)) /\ Cardinality(FriendsOf(i)) \in Nat
         /\ FriendsOf(i) \in SUBSET (1..Size(boxes)) /\ i \notin FriendsOf(i)
<1>1. Size(boxes) \in Nat \/ Size(boxes) = -1
  BY DEF Size
<1>2. \A j \in FriendsOf(i) : j \in (i + 1)..Size(boxes)
  BY Zenon DEF FriendsOf
<1>3. FriendsOf(i) \in SUBSET (1..Size(boxes)) /\ i \notin FriendsOf(i)
  BY <1>1, <1>2
<1>4. IsFiniteSet(1..Size(boxes))
  BY <1>1, FS_Interval
<1>5. IsFiniteSet(FriendsOf(i))
  BY <1>3, <1>4, FS_Subset
<1> QED BY <1>3, <1>5, FS_CardinalityType

Gated == program.reach = 200 /\ program.slope = 15

(***************************************************************************)
(* A contour of another character than the first has fewer friends than the *)
(* same contour of the first one: its friends and itself are friends of     *)
(* that.                                                                    *)
(***************************************************************************)
LEMMA FirstHasMore ==
  ASSUME OnArray, OnePlate, Gated, NEW f \in Outer, \A o \in Outer : f.x <= o.x,
         NEW s \in 1..Size(boxes), NEW a \in Outer, a # f, NEW dx \in 0..2, NEW dy \in 0..2,
         At(boxes[s], a, dx, dy), boxes[s] \in Accepted,
         \A o \in Outer : \E u \in Accepted : At(u, o, dx, dy)
  PROVE  \E t \in 1..Size(boxes) : Cardinality(FriendsOf(s)) < Cardinality(FriendsOf(t))
<1>1. picture \in Seq(Box) /\ boxes \in Seq(Cell) /\ Len(boxes) \in Nat
  BY DEF OnArray
<1>2. Size(boxes) = Len(boxes) - 1 /\ s \in 1..Len(boxes)
  BY <1>1 DEF Size
<1>3. PICK u \in Accepted : At(u, f, dx, dy)
  OBVIOUS
<1>4. PICK t \in 1..Len(boxes) : boxes[t] = u
  BY InArray
<1> DEFINE fx == f.x
           fy == f.y
           ax == a.x
           ay == a.y
<1>5. /\ fx \in Int /\ fy \in Int /\ ax \in Int /\ ay \in Int
      /\ ax - fx \in 23..198 /\ 100 * (ay - fy) < 14 * (ax - fx) /\ 100 * (fy - ay) < 14 * (ax - fx)
  <2>1. f \in Cell /\ a \in Cell
    BY <1>1, OutersAre DEF OuterType
  <2>2. f.x \in Int /\ f.y \in Int /\ a.x \in Int /\ a.y \in Int
    BY <2>1, CellType
  <2>3. f.x # a.x /\ f.x <= a.x
    BY <1>1, OutersApart
  <2>4. f.x < a.x
    BY <2>2, <2>3
  <2> QED BY <1>1, <2>2, <2>4, OutersApart
<1> DEFINE tx == boxes[t].x
           ty == boxes[t].y
           sx == boxes[s].x
           sy == boxes[s].y
<1>6. tx = fx + dx /\ ty = fy + dy /\ sx = ax + dx /\ sy = ay + dy
  BY <1>3, <1>4 DEF At
<1>7. boxes[t] \in Cell /\ boxes[s] \in Cell /\ boxes[t] \in Accepted
  BY <1>1, <1>2, <1>4, ElementOf
<1>8. /\ tx \in Int /\ ty \in Int /\ sx \in Int /\ sy \in Int
      /\ sx - tx \in 23..198 /\ 100 * (sy - ty) < 14 * (sx - tx) /\ 100 * (ty - sy) < 14 * (sx - tx)
  <2> HIDE DEF fx, fy, ax, ay, tx, ty, sx, sy
  <2> QED BY <1>5, <1>6
<1>9. t < s /\ t \in 1..Size(boxes)
  <2>1. tx < sx
    <3> HIDE DEF tx, sx
    <3> QED BY <1>8
  <2>2. t < s
    BY <1>2, <2>1, InOrder
  <2> QED BY <1>2, <2>2
<1>10. s \in FriendsOf(t)
  <2>1. DeltaX(boxes[t], boxes[s]) = sx - tx
        /\ (OnLine(boxes[t], boxes[s], 15) <=> /\ 100 < 15 * (sx - tx)
                                               /\ 100 * (sy - ty) < 15 * (sx - tx)
                                               /\ 100 * (ty - sy) < 15 * (sx - tx))
    <3>1. boxes[t].x < boxes[s].x
      <4>1. tx < sx
        <5> HIDE DEF tx, sx
        <5> QED BY <1>8
      <4> QED BY <4>1
    <3> QED BY <1>7, <3>1, LineAhead
  <2>2. DeltaX(boxes[t], boxes[s]) <= 200 /\ OnLine(boxes[t], boxes[s], 15)
    <3> HIDE DEF tx, ty, sx, sy
    <3> QED BY <1>8, <2>1
  <2>3. s \in (t + 1)..Size(boxes)
    BY <1>2, <1>9
  <2> QED BY <2>2, <2>3 DEF FriendsOf, Gated
<1>11. ASSUME NEW j \in FriendsOf(s) PROVE j \in FriendsOf(t)
  <2>1. /\ j \in (s + 1)..Size(boxes) /\ DeltaX(boxes[s], boxes[j]) <= 200
        /\ OnLine(boxes[s], boxes[j], 15)
    BY <1>11, Zenon DEF FriendsOf, Gated
  <2>2. j \in 1..Len(boxes) /\ s < j /\ s <= j
    BY <1>2, <2>1
  <2> DEFINE jx == boxes[j].x
             jy == boxes[j].y
  <2>3. boxes[j] \in Cell /\ jx \in Int /\ jy \in Int /\ boxes[j] \in Accepted
    <3>1. boxes[j] \in Cell
      BY <1>1, <2>2, ElementOf
    <3>2. boxes[j] \in Accepted
      BY <1>2, <2>2, LaterAccepted
    <3> QED BY <3>1, <3>2, CellType
  <2>4. sx < jx
    <3>1. boxes[s].x <= boxes[j].x
      BY <1>2, <2>2, InOrder
    <3>2. boxes[s].x # boxes[j].x
      <4>1. 15 \in 0..100
        OBVIOUS
      <4> QED BY <1>7, <2>1, <2>3, <4>1, LineAbove
    <3>3. sx <= jx /\ sx # jx
      BY <3>1, <3>2
    <3> HIDE DEF sx, jx
    <3> QED BY <1>8, <2>3, <3>3
  <2>5. /\ 100 < 15 * (jx - sx) /\ 100 * (jy - sy) < 15 * (jx - sx) /\ 100 * (sy - jy) < 15 * (jx - sx)
    BY <1>7, <2>1, <2>3, <2>4, LineAhead
  <2>6. jx - tx <= 200
    <3>1. PICK o \in Outer : \E ex, ey \in 0..2 : At(boxes[j], o, ex, ey)
      BY <1>1, <2>3, Strokes
    <3> DEFINE ox == o.x
    <3>2. PICK ex \in 0..2 : jx = ox + ex
      BY <3>1 DEF At
    <3>3. ox \in Int
      BY <1>1, OutersAre, CellType DEF OuterType
    <3>4. fx <= ox
      OBVIOUS
    <3>5. fx < ox => ox - fx \in 23..198
      BY <1>1, OutersApart
    <3> HIDE DEF ox, fx, tx, jx, fy, ax, ay, ty, sx, sy
    <3>6. ox - fx <= 198
      BY <1>5, <3>3, <3>4, <3>5
    <3>7. tx = fx + dx
      BY <1>6
    <3>8. \A p, q, d, e \in Int : p - q <= 198 /\ d \in 0..2 /\ e \in 0..2 => (p + d) - (q + e) <= 200
      OBVIOUS
    <3>9. ex \in Int /\ dx \in Int /\ fx \in Int
      BY <1>5
    <3> QED BY <3>2, <3>3, <3>6, <3>7, <3>8, <3>9
  <2>7. /\ tx < jx /\ 100 < 15 * (jx - tx)
        /\ 100 * (jy - ty) < 15 * (jx - tx) /\ 100 * (ty - jy) < 15 * (jx - tx)
    <3> HIDE DEF tx, ty, sx, sy, jx, jy
    <3> QED BY <1>8, <2>3, <2>4, <2>5
  <2>8. OnLine(boxes[t], boxes[j], 15) /\ DeltaX(boxes[t], boxes[j]) = jx - tx
    BY <1>7, <2>3, <2>7, LineAhead
  <2>9. DeltaX(boxes[t], boxes[j]) <= 200
    <3> HIDE DEF tx, jx
    <3> QED BY <1>8, <2>3, <2>6, <2>8
  <2>10. j \in (t + 1)..Size(boxes)
    BY <1>2, <1>9, <2>1
  <2> QED BY <2>8, <2>9, <2>10 DEF FriendsOf, Gated
<1>12. Cardinality(FriendsOf(s)) < Cardinality(FriendsOf(t))
  <2> DEFINE S == FriendsOf(s)
             T == FriendsOf(t)
  <2>1. IsFiniteSet(S) /\ Cardinality(S) \in Nat /\ s \notin S /\ IsFiniteSet(T) /\ Cardinality(T) \in Nat
    BY <1>1, <1>9, FriendsFinite
  <2>2. S \cup {s} \in SUBSET T
    BY <1>10, <1>11
  <2> HIDE DEF S, T
  <2>3. Cardinality(S \cup {s}) = Cardinality(S) + 1
    BY <2>1, FS_AddElement
  <2>4. Cardinality(S \cup {s}) <= Cardinality(T)
    BY <2>1, <2>2, FS_Subset
  <2>5. Cardinality(S) < Cardinality(T)
    BY <2>1, <2>3, <2>4
  <2> QED BY <2>5 DEF S, T
<1> QED BY <1>9, <1>12

\* The empty rectangle has no friend on the plate.
LEMMA CornerHasNone ==
  ASSUME OnArray, OnePlate, Gated, NEW s \in 1..Size(boxes), boxes[s] = Empty
  PROVE  FriendsOf(s) = {}
<1>1. picture \in Seq(Box) /\ boxes \in Seq(Cell) /\ Len(boxes) \in Nat
  BY DEF OnArray
<1> SUFFICES ASSUME NEW j \in FriendsOf(s) PROVE FALSE
  OBVIOUS
<1>2. j \in (s + 1)..Size(boxes) /\ OnLine(Empty, boxes[j], 15)
  BY Zenon DEF FriendsOf, Gated
<1>3. s \in 1..Len(boxes) /\ j \in 1..Len(boxes) /\ s # j
  BY <1>1, <1>2 DEF Size
<1>4. boxes[j] \in Accepted
  BY <1>3, InArray
<1>5. PICK a \in Outer : \E dx, dy \in 0..2 : At(boxes[j], a, dx, dy)
  BY <1>1, <1>4, Strokes
<1> DEFINE ax == a.x
           ay == a.y
           jx == boxes[j].x
           jy == boxes[j].y
<1>6. a \in Cell /\ ax \in Int /\ ay \in Int /\ ax > 100 /\ ~OnLine(Empty, a, 25)
  BY <1>1, OutersAre, CellType DEF OuterType
<1>7. boxes[j] \in Cell /\ jx \in Int /\ jy \in Int /\ jx > 100
  BY <1>1, <1>4, AcceptedRight
<1>8. jx - ax \in 0..2 /\ jy - ay \in 0..2
  BY <1>5, <1>6 DEF At
<1>9. Empty \in Cell /\ Empty.x = 0 /\ Empty.y = 0
  BY EmptyIsNoBox DEF Empty
<1>10. ~(100 < 25 * (ax - 0) /\ 100 * (ay - 0) < 25 * (ax - 0) /\ 100 * (0 - ay) < 25 * (ax - 0))
  BY <1>6, <1>9, LineAhead
<1>11. 100 < 15 * (jx - 0) /\ 100 * (jy - 0) < 15 * (jx - 0) /\ 100 * (0 - jy) < 15 * (jx - 0)
  BY <1>2, <1>7, <1>9, LineAhead
<1> HIDE DEF ax, ay, jx, jy
<1> QED BY <1>6, <1>7, <1>8, <1>10, <1>11

\* A rectangle of the plate has a friend.
LEMMA SomeHaveFriends ==
  ASSUME OnArray, OnePlate, Gated
  PROVE  \E t \in 1..Size(boxes) : FriendsOf(t) # {} /\ Cardinality(FriendsOf(t)) > 0
<1>1. picture \in Seq(Box) /\ boxes \in Seq(Cell) /\ Len(boxes) \in Nat
  BY DEF OnArray
<1>2. PICK f, l \in Outer : l.x - f.x >= 46
  BY <1>1, Ends
<1>3. f \in Cell /\ l \in Cell
  BY <1>1, OutersAre DEF OuterType
<1>4. f.x < l.x
  BY <1>2, <1>3, CellType
<1>5. /\ l.x - f.x \in 23..198 /\ 100 * (l.y - f.y) < 14 * (l.x - f.x) /\ 100 * (f.y - l.y) < 14 * (l.x - f.x)
  BY <1>1, <1>4, OutersApart
<1>6. DeltaX(f, l) <= 200 /\ OnLine(f, l, 15)
  <2> DEFINE fx == f.x
             fy == f.y
             lx == l.x
             ly == l.y
  <2>1. fx \in Int /\ fy \in Int /\ lx \in Int /\ ly \in Int
    BY <1>3, CellType
  <2>2. lx - fx \in 23..198 /\ 100 * (ly - fy) < 14 * (lx - fx) /\ 100 * (fy - ly) < 14 * (lx - fx)
    BY <1>5
  <2>3. DeltaX(f, l) = lx - fx
        /\ (OnLine(f, l, 15) <=> /\ 100 < 15 * (lx - fx)
                                /\ 100 * (ly - fy) < 15 * (lx - fx)
                                /\ 100 * (fy - ly) < 15 * (lx - fx))
    BY <1>3, <1>4, LineAhead
  <2> HIDE DEF fx, fy, lx, ly
  <2> QED BY <2>1, <2>2, <2>3
<1>7. PICK t \in 1..Size(boxes) : boxes[t] = f
  BY OuterInside
<1>8. PICK j \in 1..Size(boxes) : boxes[j] = l
  BY OuterInside
<1>9. t < j
  <2>1. t \in 1..Len(boxes) /\ j \in 1..Len(boxes)
    BY <1>1 DEF Size
  <2> QED BY <1>4, <1>7, <1>8, <2>1, InOrder
<1>10. j \in (t + 1)..Size(boxes)
  BY <1>9
<1>11. j \in FriendsOf(t)
  BY <1>6, <1>7, <1>8, <1>10 DEF FriendsOf, Gated
<1>12. FriendsOf(t) # {} /\ IsFiniteSet(FriendsOf(t)) /\ Cardinality(FriendsOf(t)) \in Nat
  BY <1>1, <1>11, FriendsFinite
<1>13. Cardinality(FriendsOf(t)) # 0
  BY <1>12, FS_EmptySet
<1> QED BY <1>12, <1>13

\* The snake that is chosen starts at the first character.
LEMMA StartsAtFirst ==
  ASSUME OnArray, OnePlate, Gated, stage = "collect", FullestIsChosen, select \in 0..Size(boxes),
         NEW f \in Outer, \A o \in Outer : f.x <= o.x
  PROVE  /\ select \in 1..Size(boxes) /\ boxes[select] \in Accepted
         /\ \E dx, dy \in 0..2 : At(boxes[select], f, dx, dy)
<1>1. picture \in Seq(Box) /\ boxes \in Seq(Cell) /\ Len(boxes) \in Nat
  BY DEF OnArray
<1>2. PICK t \in 1..Size(boxes) : FriendsOf(t) # {} /\ Cardinality(FriendsOf(t)) > 0
  BY SomeHaveFriends
<1>3. select # Unset
  BY <1>2 DEF FullestIsChosen
<1>4. select \in 1..Size(boxes) /\ select \in 1..Len(boxes)
  BY <1>1, <1>3 DEF Unset, Size
<1>5. \A i \in 1..Size(boxes) : Cardinality(FriendsOf(i)) <= Cardinality(FriendsOf(select))
  BY <1>3, Zenon DEF FullestIsChosen
<1>6. \A i \in 1..Size(boxes) : Cardinality(FriendsOf(i)) \in Nat
  BY <1>1, FriendsFinite
<1>7. boxes[select] # Empty
  <2> SUFFICES ASSUME boxes[select] = Empty PROVE FALSE
    OBVIOUS
  <2>1. FriendsOf(select) = {}
    BY <1>4, CornerHasNone
  <2>2. Cardinality(FriendsOf(select)) = 0
    BY <2>1, FS_EmptySet
  <2> QED BY <1>2, <1>4, <1>5, <1>6, <2>2
<1>8. boxes[select] \in Accepted
  BY <1>4, <1>7, InArray
<1>9. PICK a \in Outer : \E dx, dy \in 0..2 :
        At(boxes[select], a, dx, dy) /\ \A o \in Outer : \E u \in Accepted : At(u, o, dx, dy)
  BY <1>1, <1>8, Strokes
<1>10. a = f
  <2> SUFFICES ASSUME a # f PROVE FALSE
    OBVIOUS
  <2>1. \E i \in 1..Size(boxes) : Cardinality(FriendsOf(select)) < Cardinality(FriendsOf(i))
    BY <1>4, <1>8, <1>9, FirstHasMore
  <2> QED BY <1>4, <1>5, <1>6, <2>1
<1> QED BY <1>4, <1>8, <1>9, <1>10

-----------------------------------------------------------------------------
(***************************************************************************)
(* How far carNumber has come with the rectangles up to k: it stands on a   *)
(* contour of the plate, and no character up to k begins to its right.      *)
(***************************************************************************)
Reaches(row, k) ==
  /\ row \in Seq(1..Len(boxes)) /\ row # <<>> /\ row[1] = select
  /\ boxes[row[Len(row)]] \in Accepted
  /\ \A i \in 1..k : boxes[i] \in Outer => boxes[i].x <= boxes[row[Len(row)]].x

\* From a contour of one character the next character is near and on the line.
LEMMA NextIsJoined ==
  ASSUME OnArray, OnePlate, NEW k \in 1..Size(boxes), NEW p \in 1..Len(boxes),
         boxes[p] \in Accepted, boxes[k] \in Outer, boxes[p].x < boxes[k].x,
         \A i \in 1..(k - 1) : boxes[i] \in Outer => boxes[i].x <= boxes[p].x
  PROVE  DeltaX(boxes[p], boxes[k]) <= 100 /\ OnLine(boxes[p], boxes[k], 25)
<1>1. picture \in Seq(Box) /\ boxes \in Seq(Cell) /\ Len(boxes) \in Nat
  BY DEF OnArray
<1>2. k \in 1..Len(boxes) /\ k \in Nat
  BY <1>1 DEF Size
<1>3. PICK o \in Outer : \E dx, dy \in 0..2 : At(boxes[p], o, dx, dy)
  BY <1>1, Strokes
<1> DEFINE ox == o.x
           oy == o.y
           px == boxes[p].x
           py == boxes[p].y
           kx == boxes[k].x
           ky == boxes[k].y
<1>4. PICK dx \in 0..2, dy \in 0..2 : px = ox + dx /\ py = oy + dy
  BY <1>3 DEF At
<1>5. o \in Cell /\ ox \in Int /\ oy \in Int
  BY <1>1, OutersAre, CellType DEF OuterType
<1>6. boxes[p] \in Cell /\ px \in Int /\ py \in Int
  BY <1>1, AcceptedRight
<1>7. boxes[k] \in Cell /\ kx \in Int /\ ky \in Int
  BY <1>1, OutersAre, CellType DEF OuterType
<1>8. px < kx
  OBVIOUS
<1>9. ox < kx
  <2> HIDE DEF ox, px, kx, oy, py, ky
  <2> QED BY <1>4, <1>5, <1>6, <1>7, <1>8
<1>10. /\ kx - ox \in 23..198
       /\ 100 * (ky - oy) < 14 * (kx - ox) /\ 100 * (oy - ky) < 14 * (kx - ox)
  BY <1>1, <1>9, OutersApart
<1>11. PICK c \in Outer : o.x < c.x /\ c.x <= o.x + 100
  BY <1>9 DEF OnePlate
<1> DEFINE cx == c.x
<1>12. cx \in Int /\ cx - ox \in 23..198 /\ cx <= ox + 100
  <2>1. c.x \in Int
    BY <1>1, OutersAre, CellType DEF OuterType
  <2>2. c.x - o.x \in 23..198
    BY <1>1, <1>11, OutersApart
  <2> QED BY <1>11, <2>1, <2>2
<1>13. kx <= cx
  <2>1. ASSUME cx < kx PROVE cx <= px
    <3>1. PICK i \in 1..Size(boxes) : boxes[i] = c
      BY OuterInside
    <3>2. i \in 1..Len(boxes) /\ boxes[i].x < boxes[k].x
      BY <1>1, <2>1, <3>1 DEF Size
    <3>3. i < k
      BY <1>2, <3>2, InOrder
    <3>4. i \in 1..(k - 1)
      BY <1>2, <3>2, <3>3
    <3> QED BY <3>1, <3>4
  <2> HIDE DEF ox, px, kx, oy, py, ky, cx
  <2> QED BY <1>4, <1>5, <1>6, <1>7, <1>12, <2>1
<1>14. /\ DeltaX(boxes[p], boxes[k]) = kx - px
       /\ OnLine(boxes[p], boxes[k], 25) <=> /\ 100 < 25 * (kx - px)
                                             /\ 100 * (ky - py) < 25 * (kx - px)
                                             /\ 100 * (py - ky) < 25 * (kx - px)
  BY <1>6, <1>7, <1>8, LineAhead
<1> HIDE DEF ox, px, kx, oy, py, ky, cx
<1>15. kx - px <= 100
  <2>1. ox \in Int /\ px \in Int /\ kx \in Int /\ cx \in Int
    BY <1>5, <1>6, <1>7, <1>12
  <2>2. ox <= px
    BY <1>4, <2>1
  <2>3. kx <= cx /\ cx <= ox + 100
    BY <1>12, <1>13
  <2> QED BY <2>1, <2>2, <2>3
<1>16. 100 < 25 * (kx - px) /\ 100 * (ky - py) < 25 * (kx - px) /\ 100 * (py - ky) < 25 * (kx - px)
  BY <1>4, <1>5, <1>7, <1>10
<1> QED BY <1>14, <1>15, <1>16

LEMMA JoinReaches ==
  ASSUME OnArray, OnePlate, NEW k \in 1..Size(boxes), NEW row, Reaches(row, k - 1)
  PROVE  Reaches(Join(boxes, row, k), k)
<1> DEFINE p == row[Len(row)]
<1>1. picture \in Seq(Box) /\ boxes \in Seq(Cell) /\ Len(boxes) \in Nat
  BY DEF OnArray
<1>2. k \in 1..Len(boxes) /\ k \in Nat
  BY <1>1 DEF Size
<1>3. row \in Seq(1..Len(boxes)) /\ row # <<>> /\ row[1] = select /\ p \in 1..Len(boxes)
  BY DEF Reaches
<1>4. /\ boxes[p] \in Accepted
      /\ \A i \in 1..(k - 1) : boxes[i] \in Outer => boxes[i].x <= boxes[p].x
  BY DEF Reaches
<1> DEFINE joins == /\ boxes[p].x <= boxes[k].x /\ DeltaX(boxes[p], boxes[k]) <= 100
                    /\ OnLine(boxes[p], boxes[k], 25)
<1>5. Join(boxes, row, k) = IF joins THEN Append(row, k) ELSE row
  BY Zenon DEF Join
<1>6. boxes[p] \in Cell /\ boxes[p].x \in Int /\ boxes[k] \in Cell /\ boxes[k].x \in Int
  BY <1>2, <1>3, InOrder
<1>7. CASE joins
  <2>1. boxes[p].x # boxes[k].x
    <3>1. 25 \in 0..100
      OBVIOUS
    <3> QED BY <1>6, <1>7, <3>1, LineAbove
  <2>2. boxes[p].x < boxes[k].x
    <3> DEFINE px == boxes[p].x
               kx == boxes[k].x
    <3>1. px <= kx /\ px # kx /\ px \in Int /\ kx \in Int
      BY <1>6, <1>7, <2>1
    <3> HIDE DEF px, kx
    <3>2. px < kx
      BY <3>1
    <3> QED BY <3>2 DEF px, kx
  <2>3. p < k
    BY <1>2, <1>3, <2>2, InOrder
  <2>4. boxes[k] \in Accepted
    <3>1. p <= k
      BY <1>2, <1>3, <2>3
    <3> QED BY <1>2, <1>3, <1>4, <3>1, LaterAccepted
  <2>5. \A i \in 1..k : boxes[i].x <= boxes[k].x
    <3> SUFFICES ASSUME NEW i \in 1..k PROVE boxes[i].x <= boxes[k].x
      OBVIOUS
    <3>1. i \in 1..Len(boxes) /\ i <= k
      BY <1>1, <1>2
    <3> QED BY <1>2, <3>1, InOrder
  <2> DEFINE new == Append(row, k)
  <2>6. new \in Seq(1..Len(boxes)) /\ new # <<>> /\ new[1] = select /\ new[Len(new)] = k
    BY <1>2, <1>3
  <2>7. Join(boxes, row, k) = new
    BY <1>5, <1>7
  <2> HIDE DEF new
  <2> QED BY <2>4, <2>5, <2>6, <2>7 DEF Reaches
<1>8. CASE ~joins
  <2>1. boxes[k] \in Outer => boxes[k].x <= boxes[p].x
    <3> SUFFICES ASSUME boxes[k] \in Outer, ~(boxes[k].x <= boxes[p].x) PROVE FALSE
      OBVIOUS
    <3> DEFINE px == boxes[p].x
               kx == boxes[k].x
    <3>1. px < kx /\ px <= kx
      <4>1. px \in Int /\ kx \in Int /\ ~(kx <= px)
        BY <1>6
      <4> HIDE DEF px, kx
      <4> QED BY <4>1
    <3>2. DeltaX(boxes[p], boxes[k]) <= 100 /\ OnLine(boxes[p], boxes[k], 25)
      BY <1>3, <1>4, <3>1, NextIsJoined
    <3> QED BY <1>8, <3>1, <3>2
  <2>2. \A i \in 1..k : i \in 1..(k - 1) \/ i = k
    BY <1>2
  <2>3. \A i \in 1..k : boxes[i] \in Outer => boxes[i].x <= boxes[p].x
    BY <1>4, <2>1, <2>2
  <2> QED BY <1>3, <1>4, <1>5, <1>8, <2>3 DEF Reaches
<1> QED BY <1>7, <1>8

\* carNumber ends on the last character.
LEMMA EndsAtLast ==
  ASSUME OnArray, OnePlate, select \in 1..Len(boxes), boxes[select] \in Accepted,
         NEW l \in Outer, \A o \in Outer : o.x <= l.x
  PROVE  LET path == Follow(boxes, select)
         IN  /\ path \in Seq(1..Len(boxes)) /\ path # <<>> /\ path[1] = select
             /\ \E dx, dy \in 0..2 : At(boxes[path[Len(path)]], l, dx, dy)
<1>1. picture \in Seq(Box) /\ boxes \in Seq(Cell) /\ Len(boxes) \in Nat /\ boxes # <<>>
  BY DEF OnArray
<1> DEFINE last == Size(boxes)
<1>2. last \in Nat
  BY <1>1 DEF Size
<1>3. PICK r : /\ r[0] = <<select>> /\ Follow(boxes, select) = r[last]
               /\ \A k \in 1..last : r[k] = Join(boxes, r[k - 1], k)
  BY <1>1, FollowLoop
<1> DEFINE S == {k \in Nat : k <= last => Reaches(r[k], k)}
<1> HIDE DEF last
<1>4. 0 \in S
  <2> DEFINE row == <<select>>
  <2>1. row \in Seq(1..Len(boxes)) /\ row # <<>> /\ row[1] = select /\ row[Len(row)] = select
    OBVIOUS
  <2>2. 1..0 = {}
    OBVIOUS
  <2> HIDE DEF row
  <2>3. Reaches(row, 0)
    BY <2>1, <2>2 DEF Reaches
  <2> QED BY <1>3, <2>3 DEF row
<1>5. ASSUME NEW k \in S PROVE k + 1 \in S
  <2> SUFFICES ASSUME k + 1 <= last PROVE Reaches(r[k + 1], k + 1)
    OBVIOUS
  <2>1. k \in Nat /\ k <= last /\ k + 1 \in 1..last /\ (k + 1) - 1 = k
    BY <1>2
  <2>2. Reaches(r[k], k) /\ r[k + 1] = Join(boxes, r[k], k + 1)
    BY <1>3, <2>1
  <2> QED BY <2>1, <2>2, JoinReaches DEF last
<1>6. S = Nat
  <2>1. S \in SUBSET Nat
    OBVIOUS
  <2> HIDE DEF S
  <2> QED BY <1>4, <1>5, <2>1, Induct
<1> DEFINE path == Follow(boxes, select)
           p == path[Len(path)]
<1>7. Reaches(path, last)
  <2>1. last \in S
    <3> HIDE DEF S
    <3> QED BY <1>2, <1>6
  <2> QED BY <1>2, <1>3, <2>1
<1> HIDE DEF path
<1>8. path \in Seq(1..Len(boxes)) /\ path # <<>> /\ path[1] = select /\ boxes[p] \in Accepted
  BY <1>7 DEF Reaches
<1>9. PICK o \in Outer : \E dx, dy \in 0..2 : At(boxes[p], o, dx, dy)
  BY <1>1, <1>8, Strokes
<1>10. l.x <= boxes[p].x
  <2>1. PICK i \in 1..Size(boxes) : boxes[i] = l
    BY OuterInside
  <2> QED BY <1>7, <2>1 DEF Reaches, last
<1>11. o = l
  <2> DEFINE ox == o.x
             lx == l.x
             px == boxes[p].x
  <2>1. ox \in Int /\ lx \in Int
    BY <1>1, OutersAre, CellType DEF OuterType
  <2>2. PICK dx \in 0..2 : px = ox + dx
    BY <1>9 DEF At
  <2>3. ox < lx => lx - ox \in 23..198
    BY <1>1, OutersApart
  <2>4. ox <= lx /\ lx <= px
    BY <1>10
  <2>5. ox = lx
    <3> HIDE DEF ox, lx, px
    <3> QED BY <2>1, <2>2, <2>3, <2>4
  <2> QED BY <1>1, <2>5, OutersApart
<1> QED BY <1>8, <1>9, <1>11 DEF path

-----------------------------------------------------------------------------
\* The middle of a contour is that of its character.
LEMMA CentreOfStroke ==
  ASSUME NEW v, NEW a, NEW dx \in 0..2, NEW dy \in 0..2, At(v, a, dx, dy), a.x \in Int, a.w \in Int
  PROVE  CentreX(v) = (2 * a.x + a.w) \div 2
<1> DEFINE ax == a.x
           aw == a.w
<1>1. v.x = ax + dx /\ v.w = aw - 2 * dx /\ ax \in Int /\ aw \in Int
  BY DEF At
<1> HIDE DEF ax, aw
<1>2. 2 * v.x + v.w = 2 * ax + aw
  BY <1>1
<1> QED BY <1>2 DEF CentreX, ax, aw

\* The columns that are cut out around a row from x to x + d whose first character
\* is w wide and whose last one, met at its contour e, is v wide.
LEMMA Widened ==
  ASSUME NEW x \in Int, NEW d \in Int, NEW w \in Int, NEW v \in Int, NEW e \in 0..2,
         d >= 46, w <= d, v - 2 * e >= 1
  PROVE  LET width == ((((2 * (x + d) + v) \div 2) - ((2 * x + w) \div 2) + (v - 2 * e)) * 105) \div 100
             mid == (((2 * x + w) \div 2) + ((2 * (x + d) + v) \div 2)) \div 2
             left == mid - width \div 2
         IN  (left <= x + 2 \/ 2 * (left - x - 2) <= w - v) /\ x + d + v <= left + width + 2
<1> DEFINE h == w \div 2
           g == v \div 2
           m == (x + d + g) - (x + h) + (v - 2 * e)
           width == (m * 105) \div 100
           q == width \div 2
           s == (x + h) + (x + d + g)
           mid == s \div 2
<1>1. /\ h \in Int /\ 2 * h <= w /\ w <= 2 * h + 1
      /\ g \in Int /\ 2 * g <= v /\ v <= 2 * g + 1
  OBVIOUS
<1>2. (2 * x + w) \div 2 = x + h /\ (2 * (x + d) + v) \div 2 = x + d + g
  OBVIOUS
<1>3. m \in Int /\ m >= 20 /\ m = d + g - h + v - 2 * e
  <2> HIDE DEF h, g
  <2> QED BY <1>1
<1>4. width \in Int /\ width >= m + 1
  <2> HIDE DEF m
  <2> QED BY <1>3
<1>5. q \in Int /\ 2 * q <= width /\ width <= 2 * q + 1
  <2> HIDE DEF width
  <2> QED BY <1>4
<1>6. s \in Int /\ s = 2 * x + h + d + g
  <2> HIDE DEF h, g
  <2> QED BY <1>1
<1>7. mid \in Int /\ 2 * mid <= s /\ s <= 2 * mid + 1
  <2> HIDE DEF s
  <2> QED BY <1>6
<1>8. (mid - q <= x + 2 \/ 2 * (mid - q - x - 2) <= w - v) /\ x + d + v <= mid - q + width + 2
  <2> HIDE DEF h, g, m, width, q, s, mid
  <2>1. 2 * (mid - q) <= 2 * x + (w - v) + 4
    BY <1>1, <1>3, <1>4, <1>5, <1>6, <1>7
  <2>2. 2 * (x + d + v) <= 2 * (mid - q + width) + 5
    BY <1>1, <1>3, <1>4, <1>5, <1>6, <1>7
  <2> QED BY <1>4, <1>5, <1>7, <2>1, <2>2
<1> QED BY <1>2, <1>8

-----------------------------------------------------------------------------
LEMMA GateIsGated == \A p \in Programs : ~p.framed => p.reach = 200 /\ p.slope = 15
BY DEF Programs, Gate, July20, July20Socket, July21, July21Socket, July22, July22Socket, July22InOut,
       July24, July24Socket, July24InOut, FindVehicle, FindVehicleFiltered, Histogram, Histogram2,
       Histogram3, TotalCamera, Morphology

\* The row that carNumber hands over is cut out, the first character perhaps in part.
Kept(c, a, l) ==
  /\ a.x + a.w <= c.right + 2
  /\ c.left <= a.x + 2 \/ (IsFirst(a) /\ 2 * (c.left - a.x - 2) <= a.w - l.w)

LEMMA CropKeepsPlate ==
  ASSUME OnArray, OnePlate, Gated, stage = "collect", FullestIsChosen, select \in 0..Size(boxes),
         NEW path, path = Follow(boxes, select), NEW a \in Outer, NEW l \in Outer, IsLast(l)
  PROVE  select # Unset /\ Kept(RowCrop([i \in 1..Len(path) |-> boxes[path[i]]]), a, l)
<1>1. picture \in Seq(Box) /\ boxes \in Seq(Cell) /\ Len(boxes) \in Nat
  BY DEF OnArray
<1>2. PICK f \in Outer : \A o \in Outer : f.x <= o.x /\ o.x <= l.x /\ l.x - f.x >= 46
  <2>1. PICK p \in Outer, r \in Outer : /\ \A o \in Outer : p.x <= o.x /\ o.x <= r.x
                                        /\ r.x - p.x >= 46
    BY <1>1, Ends
  <2>2. p.x \in Int /\ r.x \in Int /\ l.x \in Int
    BY <1>1, OutersAre, CellType DEF OuterType
  <2>3. r.x = l.x
    BY <2>1, <2>2 DEF IsLast
  <2> QED BY <2>1, <2>3
<1>3. /\ select \in 1..Size(boxes) /\ boxes[select] \in Accepted
      /\ \E dx, dy \in 0..2 : At(boxes[select], f, dx, dy)
  BY <1>2, StartsAtFirst
<1>4. select \in 1..Len(boxes) /\ select # Unset
  BY <1>1, <1>3 DEF Size, Unset
<1>5. /\ path \in Seq(1..Len(boxes)) /\ path # <<>> /\ path[1] = select
      /\ \E dx, dy \in 0..2 : At(boxes[path[Len(path)]], l, dx, dy)
  BY <1>2, <1>3, <1>4, EndsAtLast
<1> DEFINE row == [i \in 1..Len(path) |-> boxes[path[i]]]
           first == row[1]
           last == row[Len(row)]
           height == ((FoldLeft(LAMBDA s, b : s + b.h, 0, row) \div Len(row)) * 12) \div 10
           x == f.x
           d == l.x - f.x
           w == f.w
           v == l.w
<1>6. Len(path) \in Nat \ {0} /\ Len(row) = Len(path) /\ first = boxes[select] /\ last = boxes[path[Len(path)]]
  BY <1>5
<1>7. \A o \in Outer : o.x \in Int /\ o.w \in Int /\ o.w >= 0
  BY <1>1, OutersAre, CellType DEF OuterType
<1>8. PICK sx \in 0..2, sy \in 0..2 : At(first, f, sx, sy)
  BY <1>3, <1>6
<1>9. PICK e \in 0..2, ey \in 0..2 : At(last, l, e, ey)
  BY <1>5, <1>6
<1>10. last.w >= 1
  <2>1. path[Len(path)] \in 1..Len(boxes)
    BY <1>5, <1>6
  <2>2. boxes[path[Len(path)]].x > 100
    <3> DEFINE lx == l.x
               px == boxes[path[Len(path)]].x
    <3>1. px = lx + e /\ lx \in Int /\ lx > 100
      BY <1>1, <1>6, <1>9, OutersAre, <1>7 DEF At, OuterType
    <3> HIDE DEF lx, px
    <3>2. px > 100
      BY <3>1
    <3> QED BY <3>2 DEF px
  <2>3. boxes[path[Len(path)]] # Empty
    BY <2>2 DEF Empty
  <2>4. last \in Box
    BY <1>1, <1>6, <2>1, <2>3, ElementOf DEF Cell
  <2> HIDE DEF last
  <2> QED BY <2>4 DEF Box
<1>11. x \in Int /\ d \in Int /\ w \in Int /\ v \in Int /\ d >= 46 /\ l.x = x + d /\ w <= d /\ w >= 0
  <2>1. f.x < l.x /\ f.x \in Int /\ l.x \in Int
    BY <1>2, <1>7
  <2>2. f.x + f.w <= l.x
    BY <1>1, <2>1, OutersApart
  <2> QED BY <1>2, <1>7, <2>2
<1>12. last.w = v - 2 * e /\ v - 2 * e >= 1
  BY <1>9, <1>10, <1>11 DEF At
<1>13. CentreX(first) = (2 * x + w) \div 2
  BY <1>7, <1>8, CentreOfStroke
<1>14. CentreX(last) = (2 * (x + d) + v) \div 2
  <2>1. CentreX(last) = (2 * l.x + l.w) \div 2
    BY <1>7, <1>9, CentreOfStroke
  <2> HIDE DEF x, d, last
  <2> QED BY <1>11, <2>1
<1> DEFINE width == ((((2 * (x + d) + v) \div 2) - ((2 * x + w) \div 2) + (v - 2 * e)) * 105) \div 100
           mid == (((2 * x + w) \div 2) + ((2 * (x + d) + v) \div 2)) \div 2
<1>15. RowCrop(row).left = mid - width \div 2 /\ RowCrop(row).right = mid - width \div 2 + width
  <2> HIDE DEF x, d, w, v
  <2> DEFINE wide == ((CentreX(last) - CentreX(first) + last.w) * 105) \div 100
             xx == (CentreX(first) + CentreX(last)) \div 2
             yy == (CentreY(first) + CentreY(last)) \div 2
  <2>1. RowCrop(row) = [left |-> xx - wide \div 2, right |-> xx - wide \div 2 + wide,
                        top |-> yy - height \div 2, bottom |-> yy - height \div 2 + height]
    BY Zenon DEF RowCrop
  <2>2. wide = width /\ xx = mid
    BY <1>12, <1>13, <1>14, Zenon
  <2> HIDE DEF wide, xx, yy, height, row, width, mid
  <2> QED BY <2>1, <2>2
<1> DEFINE left == mid - width \div 2
           right == mid - width \div 2 + width
<1>16. (left <= x + 2 \/ 2 * (left - x - 2) <= w - v) /\ x + d + v <= right + 2
  <2> HIDE DEF x, d, w, v
  <2> QED BY <1>11, <1>12, Widened
<1>17. left \in Int /\ right \in Int
  <2>1. \A p, q, r \in Int : ((p - q + r) * 105) \div 100 \in Int /\ (p + q) \div 2 \in Int /\ p \div 2 \in Int
    OBVIOUS
  <2>2. 2 * x + w \in Int /\ 2 * (x + d) + v \in Int /\ v - 2 * e \in Int
    <3> HIDE DEF x, d, w, v
    <3> QED BY <1>11
  <2> HIDE DEF x, d, w, v
  <2>3. (2 * x + w) \div 2 \in Int /\ (2 * (x + d) + v) \div 2 \in Int
    BY <2>1, <2>2, Zenon
  <2>4. width \in Int /\ mid \in Int
    BY <2>1, <2>2, <2>3, Zenon
  <2>5. width \div 2 \in Int
    <3> HIDE DEF width
    <3> QED BY <2>4
  <2> HIDE DEF width, mid
  <2> QED BY <2>4, <2>5
\* What is left of the last one ends before it; what is right of the first one begins behind it.
<1>18. a.x + a.w <= right + 2
  <2>1. CASE a.x = l.x
    <3>1. a = l
      BY <1>1, <2>1, OutersApart
    <3> HIDE DEF right, d, x
    <3> QED BY <1>11, <1>16, <1>17, <3>1
  <2>2. CASE a.x # l.x
    <3>1. a.x < l.x
      BY <1>2, <1>7, <2>2
    <3>2. a.x + a.w <= l.x
      BY <1>1, <3>1, OutersApart
    <3>3. v >= 0
      BY <1>7
    <3> DEFINE end == a.x + a.w
    <3>4. end \in Int /\ end <= l.x
      BY <1>7, <3>2
    <3> HIDE DEF right, d, x, v, end
    <3>5. end <= right + 2
      BY <1>11, <1>16, <1>17, <3>3, <3>4
    <3> QED BY <3>5 DEF end
  <2> QED BY <2>1, <2>2
<1>19. left <= a.x + 2 \/ (IsFirst(a) /\ 2 * (left - a.x - 2) <= a.w - l.w)
  <2>1. CASE a.x = f.x
    <3>1. a = f
      BY <1>1, <2>1, OutersApart
    <3>2. IsFirst(a)
      BY <1>2, <3>1 DEF IsFirst
    <3> HIDE DEF left
    <3> QED BY <1>16, <3>1, <3>2
  <2>2. CASE a.x # f.x
    <3>1. f.x < a.x
      BY <1>2, <1>7, <2>2
    <3>2. f.x + f.w <= a.x
      BY <1>1, <3>1, OutersApart
    <3> DEFINE ax == a.x
    <3>3. ax \in Int /\ x + w <= ax /\ v >= 0
      BY <1>7, <3>2
    <3> HIDE DEF left, d, x, v, w, ax
    <3>4. left <= ax + 2
      BY <1>11, <1>16, <1>17, <3>3
    <3> QED BY <3>4 DEF ax
  <2> QED BY <2>1, <2>2
<1>20. Kept(RowCrop(row), a, l)
  <2> HIDE DEF left, right, row
  <2>1. RowCrop(row).left = left /\ RowCrop(row).right = right
    BY <1>15 DEF left, right
  <2> QED BY <1>18, <1>19, <2>1 DEF Kept
<1> QED BY <1>4, <1>20

LEMMA KeptCollect ==
  ASSUME Cut, Collect
  PROVE  PlateIsKept'
<1>1. /\ stage = "collect" /\ ~program.framed /\ program \in Programs
      /\ UNCHANGED <<program, picture, boxes>>
  BY DEF Collect, Cut, Chosen, TypeOK
<1>2. Accepted' = Accepted /\ Outer' = Outer /\ OnePlate' = OnePlate
  BY <1>1 DEF Accepted, Outer, Inner, OnePlate
<1> SUFFICES ASSUME stage' = "read", OnePlate, NEW a \in Outer, NEW l \in Outer, IsLast(l)
             PROVE  Kept(crop', a, l)
  BY <1>2 DEF PlateIsKept, Kept, IsFirst, IsLast
<1>3. OnArray
  <2>1. picture \in Pictures /\ Holds(boxes, picture) /\ Settled(boxes, 1) /\ boxes \in Seq(Cell)
    BY <1>1 DEF Cut, TypeOK, Scanned, Filled, Sorting, Sorted, Cell
  <2> QED BY <2>1, PictureAssumption DEF OnArray
<1>4. Gated
  BY <1>1, GateIsGated DEF Gated
<1>5. FullestIsChosen /\ select \in 0..Size(boxes)
  BY <1>1 DEF Cut, Chosen
<1>6. select # Unset
  BY <1>1, <1>3, <1>4, <1>5, CropKeepsPlate
<1>7. crop' = RowCrop([i \in 1..Len(Follow(boxes, select)) |-> boxes[Follow(boxes, select)[i]]])
  BY <1>6, Zenon DEF Collect
<1> DEFINE path == Follow(boxes, select)
<1>8. Kept(RowCrop([i \in 1..Len(path) |-> boxes[path[i]]]), a, l)
  <2>1. path = Follow(boxes, select)
    OBVIOUS
  <2> HIDE DEF path
  <2> QED BY <1>1, <1>3, <1>4, <1>5, <2>1, CropKeepsPlate
<1> QED BY <1>7, <1>8, Zenon

LEMMA KeptNext == Cut /\ PlateIsKept /\ [Next]_vars => PlateIsKept'
<1> SUFFICES ASSUME Cut, PlateIsKept, [Next]_vars PROVE PlateIsKept'
  OBVIOUS
<1>1. CASE stage' # "read"
  BY <1>1 DEF PlateIsKept
<1>2. CASE Collect
  BY <1>2, KeptCollect
<1>3. CASE Frame
  BY <1>3 DEF Frame, Cut, Chosen, PlateIsKept
<1>4. CASE UNCHANGED vars
  <2>1. UNCHANGED <<stage, program, picture, crop>>
    BY <1>4 DEF vars, scan
  <2>2. Accepted' = Accepted /\ Outer' = Outer /\ OnePlate' = OnePlate
    BY <2>1 DEF Accepted, Outer, Inner, OnePlate
  <2> QED BY <2>1, <2>2 DEF PlateIsKept, IsFirst, IsLast
<1>5. Next => Collect \/ Frame \/ stage' # "read"
  BY DEF Next, StepCallback, TakePicture, Filter, Sort, Snake, ReadText, Restart, Return
<1> QED BY <1>1, <1>2, <1>3, <1>4, <1>5

(***************************************************************************)
(* A plate alone in any picture, of any characters side by side that are    *)
(* neither too close nor too far (OnePlate), is cut out by the gate from its *)
(* first to its last character, although one cell of its array is lost      *)
(* (Blocking_Raspberry.cpp:172-291): the snake that is chosen starts on the *)
(* first character, carNumber goes from each to the next and ends on the    *)
(* last one, and the five per cent that are added make up for a row that    *)
(* ends on an inner contour.  Of a first character that is wider than the   *)
(* last one at most half the difference is lost.                            *)
(***************************************************************************)
THEOREM ThePlateIsKept == Spec => []PlateIsKept
<1>1. Init => PlateIsKept
  BY DEF Init, PlateIsKept
<1> QED BY <1>1, CutAlways, KeptNext, PTL DEF Spec
=============================================================================
