----------------------------- MODULE SpotProofs -----------------------------
(***************************************************************************)
(* Theorems about Spot, for any number of visits, of other messages, of     *)
(* lost servers and of charge levels.                                       *)
(***************************************************************************)
EXTENDS Spot, TLAPS

\* No start that is on its way or published is for the visit n or a later one.
Newer(n) == /\ \A k \in DOMAIN published : published[k] < n
            /\ \A k \in DOMAIN toJet : toJet[k].kind = "start" => toJet[k].n < n

\* What SPOT1 can still read of the gate is newer than all it has told and
\* is in the order of the visits.
Gate(q, i) == i \in DOMAIN q /\ q[i].kind = "in"
InsNew == \A i \in DOMAIN toSpot :
  Gate(toSpot, i) => info < toSpot[i].n /\ toSpot[i].n <= visit /\ Newer(toSpot[i].n)
Sorted(q) == \A i, j \in DOMAIN q :
  i < j /\ q[i].kind = "in" /\ q[j].kind = "in" => q[i].n < q[j].n
InsSorted == Sorted(toSpot)

\* A car that SPOT1 waits for or sees has not been told yet.
InfoInv == /\ info <= visit
           /\ pc \in {"wait", "move"} => 0 < info /\ Newer(info)
           /\ pc = "move" => info <= parked

ParkInv == /\ parked <= visit
           /\ car = "parked" => parked = visit
           /\ Newer(parked + 1)

\* The bridge has starts to read that are newer than what it has published.
JetInv == \A k \in DOMAIN toJet : toJet[k].kind = "start" =>
  /\ 0 < toJet[k].n
  /\ \A l \in DOMAIN published : published[l] < toJet[k].n
  /\ \A l \in DOMAIN toJet : k < l /\ toJet[l].kind = "start" => toJet[k].n < toJet[l].n

SpotInv == TypeOK /\ InsNew /\ InsSorted /\ InfoInv /\ ParkInv /\ JetInv /\ StartsInOrder
-----------------------------------------------------------------------------
\* The gate's messages in r are those of q from some place on.
From(r, q) == \E s \in Int : \A i \in DOMAIN r : r[i].kind = "in" => i + s \in DOMAIN q /\ r[i] = q[i + s]

LEMMA Dropped ==
  ASSUME NEW S, NEW q \in Seq(S), NEW k \in 1..Len(q)
  PROVE  /\ Drop(q, k) \in Seq(S) /\ Len(Drop(q, k)) = Len(q) - k
         /\ \A i \in 1..(Len(q) - k) : Drop(q, k)[i] = q[i + k]
BY DEF Drop

LEMMA Appended == \A S : \A q \in Seq(S), e \in S : Append(q, e) \in Seq(S)
OBVIOUS

LEMMA Popped == \A S : \A q \in Seq(S) : q # <<>> => Tail(q) \in Seq(S) /\ Head(q) \in S
OBVIOUS

LEMMA Numbered ==
  ASSUME TypeOK
  PROVE  /\ visit \in Nat /\ parked \in Nat /\ info \in Nat
         /\ \A k \in DOMAIN published : published[k] \in Nat
         /\ \A k \in DOMAIN toJet : toJet[k].n \in Nat
<1>1. visit \in Nat /\ parked \in Nat /\ info \in Nat
  BY SpotAssumption DEF TypeOK
<1>2. \A k \in DOMAIN published : published[k] \in Nat
  BY SpotAssumption DEF TypeOK, Visits
<1>3. \A k \in DOMAIN toJet : toJet[k].n \in Nat
  <2>1. \A k \in DOMAIN toJet : toJet[k] \in Starts
    BY DEF TypeOK
  <2> QED BY <2>1, SpotAssumption DEF Starts
<1> QED BY <1>1, <1>2, <1>3

LEMMA DropKeeps ==
  ASSUME NEW q \in Seq(ToSpot), NEW k \in 1..Len(q)
  PROVE  From(Drop(q, k), q)
<1>1. \A i \in DOMAIN Drop(q, k) : i + k \in DOMAIN q /\ Drop(q, k)[i] = q[i + k]
  BY DEF Drop
<1> QED BY <1>1 DEF From

LEMMA ReplaceKeeps ==
  ASSUME NEW q \in Seq(ToSpot), q # <<>>, NEW p \in Seq(ToSpot),
         p = <<>> \/ \E m \in ToSpot : p = <<m>> /\ m.kind # "in"
  PROVE  p \o Tail(q) \in Seq(ToSpot) /\ From(p \o Tail(q), q)
<1>1. CASE p = <<>>
  <2>1. p \o Tail(q) = Tail(q)
    BY <1>1
  <2>2. \A i \in DOMAIN Tail(q) : i + 1 \in DOMAIN q /\ Tail(q)[i] = q[i + 1]
    OBVIOUS
  <2>3. Tail(q) \in Seq(ToSpot)
    OBVIOUS
  <2>4. From(Tail(q), q)
    <3> HIDE DEF ToSpot
    <3> QED BY <2>2 DEF From
  <2> QED BY <2>1, <2>3, <2>4
<1>2. CASE \E m \in ToSpot : p = <<m>> /\ m.kind # "in"
  <2>1. PICK m \in ToSpot : p = <<m>> /\ m.kind # "in"
    BY <1>2
  <2> DEFINE r == <<m>> \o Tail(q)
  <2>2. r \in Seq(ToSpot) /\ Len(r) = Len(q) /\ r[1] = m
    OBVIOUS
  <2>3. \A i \in 2..Len(q) : r[i] = q[i]
    OBVIOUS
  <2>4. \A i \in DOMAIN r : r[i].kind = "in" => i + 0 \in DOMAIN q /\ r[i] = q[i + 0]
    BY <2>1, <2>2, <2>3
  <2>5. From(r, q)
    <3> HIDE DEF r
    <3> QED BY <2>4 DEF From
  <2>6. p \o Tail(q) = r
    BY <2>1
  <2> HIDE DEF r
  <2> QED BY <2>2, <2>5, <2>6
<1> QED BY <1>1, <1>2

LEMMA SortedFrom ==
  ASSUME NEW q \in Seq(ToSpot), NEW r \in Seq(ToSpot), From(r, q), Sorted(q)
  PROVE  Sorted(r)
<1>1. PICK s \in Int : \A i \in DOMAIN r : r[i].kind = "in" => i + s \in DOMAIN q /\ r[i] = q[i + s]
  BY DEF From
<1> QED BY <1>1 DEF Sorted

LEMMA Messages ==
  /\ NewLine \in ToSpot /\ NewLine.kind = "newline"
  /\ [kind |-> "other", n |-> 0] \in ToSpot
  /\ Hello \in Starts /\ Hello.kind = "hello"
  /\ \A k \in 0..MaxVisit : /\ [kind |-> "in", n |-> k] \in ToSpot
                           /\ [kind |-> "out", n |-> k] \in ToSpot
                           /\ [kind |-> "start", n |-> k, text |-> <<Space, "1">>] \in Starts
<1>1. 0 \in 0..MaxVisit
  BY SpotAssumption
<1>2. Hello \in Starts /\ Hello.kind = "hello"
  BY <1>1 DEF Hello, Starts, Texts
<1>3. \A k \in 0..MaxVisit : [kind |-> "start", n |-> k, text |-> <<Space, "1">>] \in Starts
  BY DEF Starts, Texts
<1> QED BY <1>1, <1>2, <1>3 DEF NewLine, ToSpot

LEMMA EatenIs ==
  ASSUME NEW m \in ToSpot
  PROVE  /\ Eaten(m) \in Seq(ToSpot)
         /\ Eaten(m) = <<>> \/ \E e \in ToSpot : Eaten(m) = <<e>> /\ e.kind # "in"
<1>1. \A k \in {"tail", "end"} : [m EXCEPT !.kind = k] \in ToSpot /\ [m EXCEPT !.kind = k].kind = k
  BY DEF ToSpot
<1>2. \A e \in ToSpot : <<e>> \in Seq(ToSpot)
  OBVIOUS
<1>3. NewLine \in ToSpot /\ NewLine.kind # "in"
  BY Messages
<1>4. CASE m.kind \in {"in", "out", "other"}
  BY <1>1, <1>2, <1>4 DEF Eaten
<1>5. CASE m.kind = "tail"
  BY <1>1, <1>2, <1>5 DEF Eaten
<1>6. CASE m.kind = "end"
  BY <1>2, <1>3, <1>6 DEF Eaten
<1>7. CASE m.kind = "newline"
  BY <1>7 DEF Eaten
<1> QED BY <1>4, <1>5, <1>6, <1>7 DEF ToSpot

\* Whatever SPOT1 reads, what it leaves is from what there was.
LEMMA ReadKeeps ==
  ASSUME TypeOK, ReadIn \/ ReadOut \/ ReadOther \/ Charge
  PROVE  toSpot' \in Seq(ToSpot) /\ From(toSpot', toSpot)
<1>1. CASE ReadIn \/ ReadOut
  <2>1. <<NewLine>> \in Seq(ToSpot)
    BY Messages
  <2>2. NewLine \in ToSpot /\ NewLine.kind # "in"
    BY Messages
  <2>3. toSpot' = <<NewLine>> \o Tail(toSpot) /\ toSpot # <<>>
    BY <1>1 DEF ReadIn, ReadOut
  <2> QED BY <2>1, <2>2, <2>3, ReplaceKeeps DEF TypeOK
<1>2. CASE ReadOther
  <2>1. PICK k \in 1..Len(toSpot) : toSpot' = Drop(toSpot, k)
    BY <1>2 DEF ReadOther
  <2> QED BY <2>1, Dropped, DropKeeps DEF TypeOK
<1>3. CASE Charge
  <2>1. CASE toSpot = <<>>
    <3>1. \A i \in DOMAIN toSpot' : FALSE
      BY <1>3, <2>1 DEF Charge, ChargeTurn
    <3> QED BY <1>3, <2>1, <3>1 DEF Charge, ChargeTurn, From, TypeOK
  <2>2. CASE toSpot # <<>>
    <3>1. Head(toSpot) \in ToSpot
      BY <2>2 DEF TypeOK
    <3>2. toSpot' = Eaten(Head(toSpot)) \o Tail(toSpot)
      BY <1>3, <2>2 DEF Charge, ChargeTurn
    <3> QED BY <2>2, <3>1, <3>2, EatenIs, ReplaceKeeps DEF TypeOK
  <2> QED BY <2>1, <2>2
<1> QED BY <1>1, <1>2, <1>3

\* What the bridge publishes is the first of what it reads.
LEMMA PublishTakes ==
  ASSUME TypeOK, Publish
  PROVE  \E k \in 1..Len(toJet) :
           /\ toJet' \in Seq(Starts) /\ Len(toJet') = Len(toJet) - k
           /\ \A i \in DOMAIN toJet' : i + k \in DOMAIN toJet /\ toJet'[i] = toJet[i + k]
<1>1. PICK k \in 1..Len(toJet) : toJet' = Drop(toJet, k)
  BY DEF Publish
<1>2. toJet \in Seq(Starts)
  BY DEF TypeOK
<1> DEFINE r == Drop(toJet, k)
<1>3. /\ r \in Seq(Starts) /\ Len(r) = Len(toJet) - k
      /\ \A i \in 1..(Len(toJet) - k) : r[i] = toJet[i + k]
  BY <1>2, Dropped
<1> HIDE DEF r
<1>4. \A i \in DOMAIN r : i + k \in DOMAIN toJet /\ r[i] = toJet[i + k]
  BY <1>2, <1>3
<1>5. toJet' = r
  BY <1>1 DEF r
<1> QED BY <1>3, <1>4, <1>5

LEMMA Publishes ==
  ASSUME TypeOK, JetInv, Publish
  PROVE  /\ published' \in Seq(Visits) /\ 1 \in DOMAIN toJet
         /\ \/ published' = published
            \/ /\ toJet[1].kind = "start" /\ published' = Append(published, toJet[1].n)
<1>1. 1 \in DOMAIN toJet /\ Head(toJet) = toJet[1] /\ toJet[1] \in Starts
  BY DEF Publish, TypeOK
<1>2. CASE toJet[1].kind = "start"
  <2>1. toJet[1].n \in Visits
    BY <1>1, <1>2, SpotAssumption DEF JetInv, Starts, Visits
  <2>2. published' = published \o <<toJet[1].n>>
    BY <1>1, <1>2 DEF Publish, Numbers
  <2> QED BY <1>1, <1>2, <2>1, <2>2 DEF TypeOK
<1>3. CASE toJet[1].kind # "start"
  BY <1>1, <1>3 DEF Publish, Numbers, TypeOK
<1> QED BY <1>2, <1>3

LEMMA TypeStep == ASSUME TypeOK, JetInv, InfoInv, [Next]_vars PROVE TypeOK'
<1>1. CASE Announce
  <2>1. visit + 1 \in 0..MaxVisit
    BY <1>1, SpotAssumption DEF Announce, TypeOK
  <2>2. [kind |-> "in", n |-> visit + 1] \in ToSpot
    BY <2>1, Messages
  <2>3. toSpot' \in Seq(ToSpot)
    BY <1>1, <2>2, Appended DEF Announce, Lost, Arrives, TypeOK
  <2> QED BY <1>1, <2>1, <2>3 DEF Announce, TypeOK, spot, jetson
<1>2. CASE Park
  BY <1>2 DEF Park, TypeOK, spot, jetson
<1>3. CASE Depart \/ ParkElsewhere
  <2>1. [kind |-> "out", n |-> visit] \in ToSpot
    BY Messages DEF TypeOK
  <2>2. toSpot' \in Seq(ToSpot)
    BY <1>3, <2>1, Appended, Zenon DEF Depart, ParkElsewhere, Lost, Arrives, TypeOK
  <2> QED BY <1>3, <2>2 DEF Depart, ParkElsewhere, TypeOK, spot, jetson
<1>4. CASE Rise
  <2>1. level' \in 0..Full
    BY <1>4, SpotAssumption DEF Rise, TypeOK
  <2> QED BY <1>4, <2>1 DEF Rise, TypeOK, spot, jetson, world
<1>5. CASE Other
  <2>1. toSpot' \in Seq(ToSpot)
    BY <1>5, Messages, Appended, Zenon DEF Other, Arrives, TypeOK
  <2>2. others' \in 0..MaxOther
    BY <1>5, SpotAssumption DEF Other, TypeOK
  <2> QED BY <1>5, <2>1, <2>2 DEF Other, TypeOK, spot, jetson, world
<1>6. CASE Connect
  <2>1. <<[kind |-> "other", n |-> 0]>> \in Seq(ToSpot)
    BY Messages
  <2>2. toSpot' \in Seq(ToSpot)
    BY <1>6, <2>1 DEF Connect
  <2> QED BY <1>6, <2>2 DEF Connect, TypeOK, jetson, world
<1>7. CASE ReadIn
  <2>1. Head(toSpot) \in ToSpot
    BY <1>7 DEF ReadIn, TypeOK
  <2>2. info' \in 0..MaxVisit
    BY <1>7, <2>1 DEF ReadIn, ToSpot
  <2> QED BY <1>7, <2>2, ReadKeeps DEF ReadIn, TypeOK, jetson, world
<1>8. CASE ReadOut
  BY <1>8, ReadKeeps DEF ReadOut, TypeOK, spot, jetson, world
<1>9. CASE ReadOther
  BY <1>9, ReadKeeps DEF ReadOther, TypeOK, spot, jetson, world
<1>10. CASE Reboot
  <2>1. toSpot' = <<>> /\ <<>> \in Seq(ToSpot) /\ 0 \in 0..MaxVisit /\ 0 \in 0..Full
    BY <1>10, SpotAssumption DEF Reboot
  <2> QED BY <1>10, <2>1 DEF Reboot, TypeOK, jetson, world
<1>11. CASE SeeCar
  BY <1>11 DEF SeeCar, TypeOK, jetson, world
<1>12. CASE TellJetson
  <2>1. Start \in Starts
    BY Messages DEF Start, TypeOK
  <2>2. toJet' \in Seq(Starts)
    BY <1>12, <2>1, Appended, Zenon DEF TellJetson, TypeOK
  <2> QED BY <1>12, <2>2 DEF TellJetson, TypeOK, jetson, world
<1>13. CASE Charge
  BY <1>13, ReadKeeps DEF Charge, ChargeTurn, TypeOK, jetson, world
<1>14. CASE BridgeStart
  <2>1. <<Hello>> \in Seq(Starts)
    <3>1. Hello \in Starts
      BY Messages
    <3> QED BY <3>1
  <2>2. toJet' \in Seq(Starts)
    BY <1>14, <2>1, Zenon DEF BridgeStart, TypeOK
  <2> QED BY <1>14, <2>2 DEF BridgeStart, TypeOK, spot, world
<1>15. CASE Publish
  <2>1. Head(toJet) \in Starts
    BY <1>15 DEF Publish, TypeOK
  <2>2. topic' \in Seq(Starts)
    BY <1>15, <2>1, Appended, Zenon DEF Publish, TypeOK
  <2> QED BY <1>15, <2>2, Publishes, PublishTakes DEF Publish, TypeOK, spot, jetson, world
<1>16. CASE BridgeEnd \/ Shutdown
  <2>1. ends' \in 0..MaxEnd
    <3>1. CASE BridgeEnd
      BY <3>1, SpotAssumption DEF BridgeEnd, TypeOK
    <3>2. CASE Shutdown
      BY <3>2 DEF Shutdown, TypeOK
    <3> QED BY <1>16, <3>1, <3>2
  <2>2. bridge' \in {"mute", "ended"} /\ toJet' = <<>>
    BY <1>16 DEF BridgeEnd, Shutdown
  <2> QED BY <1>16, <2>1, <2>2 DEF BridgeEnd, Shutdown, TypeOK, spot, world
<1>17. CASE Hear
  <2>1. topic' \in Seq(Starts)
    BY <1>17, Popped, Zenon DEF Hear, TypeOK
  <2> QED BY <1>17, <2>1 DEF Hear, TypeOK, spot, world
<1>18. CASE UNCHANGED vars
  BY <1>18 DEF vars, TypeOK, spot, jetson, world
<1> QED BY <1>1, <1>2, <1>3, <1>4, <1>5, <1>6, <1>7, <1>8, <1>9, <1>10, <1>11, <1>12,
           <1>13, <1>14, <1>15, <1>16, <1>17, <1>18 DEF Next, Environment, SPOT1, Jetson
-----------------------------------------------------------------------------
\* Each part of the invariant is kept by the steps that leave what it is about alone.
LEMMA InsFrame ==
  ASSUME TypeOK, InsNew, InsSorted, toSpot' \in Seq(ToSpot), From(toSpot', toSpot),
         UNCHANGED <<info, visit, published, toJet>>
  PROVE  InsNew' /\ InsSorted'
<1>1. PICK s \in Int : \A i \in DOMAIN toSpot' :
        toSpot'[i].kind = "in" => i + s \in DOMAIN toSpot /\ toSpot'[i] = toSpot[i + s]
  BY DEF From
<1>2. InsNew'
  BY <1>1 DEF InsNew, Gate, Newer
<1>3. InsSorted'
  <2>1. toSpot \in Seq(ToSpot)
    BY DEF TypeOK
  <2> DEFINE r == toSpot'
  <2>2. r \in Seq(ToSpot) /\ From(r, toSpot)
    OBVIOUS
  <2>3. Sorted(r)
    <3> HIDE DEF r
    <3> QED BY <2>1, <2>2, SortedFrom DEF InsSorted
  <2> QED BY <2>3 DEF InsSorted, Sorted
<1> QED BY <1>2, <1>3

\* A message behind the others that is the gate's only for a new visit.
LEMMA InsAppend ==
  ASSUME TypeOK, InsNew, InsSorted, NEW m \in ToSpot,
         toSpot' = toSpot \/ toSpot' = Append(toSpot, m),
         UNCHANGED <<info, published, toJet>>, visit' \in Nat, visit <= visit',
         m.kind = "in" => /\ visit < m.n /\ m.n <= visit' /\ info < m.n /\ Newer(m.n)
  PROVE  InsNew' /\ InsSorted'
<1>1. toSpot \in Seq(ToSpot) /\ toSpot' \in Seq(ToSpot) /\ visit \in Nat
  <2>1. toSpot \in Seq(ToSpot) /\ visit \in Nat
    BY SpotAssumption DEF TypeOK
  <2> QED BY <2>1, Appended, Zenon
<1>2. \A i \in DOMAIN toSpot' : \/ i \in DOMAIN toSpot /\ toSpot'[i] = toSpot[i]
                                \/ i = Len(toSpot) + 1 /\ toSpot'[i] = m
  BY <1>1
<1>3. \A i \in DOMAIN toSpot : toSpot[i] \in ToSpot
  BY <1>1
<1>4. \A e \in ToSpot : e.n \in Nat
  BY SpotAssumption DEF ToSpot
<1>5. InsNew'
  <2> SUFFICES ASSUME NEW i \in DOMAIN toSpot', toSpot'[i].kind = "in"
               PROVE  /\ info < toSpot'[i].n /\ toSpot'[i].n <= visit'
                      /\ \A k \in DOMAIN published : published[k] < toSpot'[i].n
                      /\ \A k \in DOMAIN toJet : toJet[k].kind = "start" => toJet[k].n < toSpot'[i].n
    BY DEF InsNew, Gate, Newer
  <2>1. CASE i \in DOMAIN toSpot /\ toSpot'[i] = toSpot[i]
    BY <2>1, <1>1, <1>3, <1>4 DEF InsNew, Gate, Newer
  <2>2. CASE toSpot'[i] = m
    BY <2>2, <1>1, <1>4 DEF Newer
  <2> QED BY <2>1, <2>2, <1>2
<1>6. InsSorted'
  <2> SUFFICES ASSUME NEW i \in DOMAIN toSpot', NEW j \in DOMAIN toSpot', i < j,
                      toSpot'[i].kind = "in", toSpot'[j].kind = "in"
               PROVE  toSpot'[i].n < toSpot'[j].n
    BY DEF InsSorted, Sorted
  <2>1. i \in DOMAIN toSpot /\ toSpot'[i] = toSpot[i]
    BY <1>1, <1>2
  <2>2. CASE j \in DOMAIN toSpot /\ toSpot'[j] = toSpot[j]
    BY <2>1, <2>2 DEF InsSorted, Sorted
  <2>3. CASE toSpot'[j] = m
    <3>1. toSpot[i].n <= visit /\ visit < m.n
      BY <2>1, <2>3 DEF InsNew, Gate
    <3> QED BY <2>1, <2>3, <3>1, <1>1, <1>3, <1>4
  <2> QED BY <2>2, <2>3, <1>2
<1> QED BY <1>5, <1>6

LEMMA StartsFrame ==
  ASSUME UNCHANGED <<published, toJet>>
  PROVE  /\ JetInv => JetInv'
         /\ StartsInOrder => StartsInOrder'
         /\ ParkInv /\ UNCHANGED <<visit, car, parked>> => ParkInv'
         /\ InfoInv /\ UNCHANGED <<info, pc, visit, parked>> => InfoInv'
BY DEF JetInv, StartsInOrder, ParkInv, InfoInv, Newer

\* Unchanged messages are from themselves.
LEMMA Same ==
  ASSUME TypeOK, UNCHANGED toSpot
  PROVE  From(toSpot', toSpot)
<1>1. \A i \in DOMAIN toSpot' : toSpot'[i].kind = "in" => i + 0 \in DOMAIN toSpot /\ toSpot'[i] = toSpot[i + 0]
  <2>1. \A i \in DOMAIN toSpot : toSpot[i].kind = "in" => i + 0 \in DOMAIN toSpot /\ toSpot[i] = toSpot[i + 0]
    BY DEF TypeOK
  <2> QED BY <2>1
<1> QED BY <1>1 DEF From

Parts == InsNew /\ InsSorted /\ InfoInv /\ ParkInv /\ JetInv /\ StartsInOrder

\* Cars and what is sent to SPOT1.
LEMMA WorldStep == ASSUME SpotInv, Environment PROVE Parts'
<1> USE DEF SpotInv
<1>1. CASE Announce
  <2> DEFINE m == [kind |-> "in", n |-> visit + 1]
  <2>0. visit + 1 \in 0..MaxVisit
    BY <1>1, SpotAssumption DEF Announce, TypeOK
  <2>1. m \in ToSpot /\ visit \in Nat /\ parked \in Nat /\ info \in Nat
    BY <2>0, Messages, Numbered
  <2>2. m.kind = "in" => visit < m.n /\ m.n <= visit' /\ info < m.n /\ Newer(m.n)
    BY <1>1, <2>1, Numbered DEF Announce, ParkInv, InfoInv, Newer
  <2>3. toSpot' = toSpot \/ toSpot' = Append(toSpot, m)
    BY <1>1 DEF Announce, Lost, Arrives
  <2>4. InsNew' /\ InsSorted'
    <3>1. UNCHANGED <<info, published, toJet>> /\ visit' \in Nat /\ visit <= visit'
      BY <1>1, <2>1 DEF Announce, spot
    <3> HIDE DEF m
    <3> QED BY <2>1, <2>2, <2>3, <3>1, InsAppend
  <2>5. InfoInv' /\ ParkInv'
    BY <1>1, <2>1 DEF Announce, InfoInv, ParkInv, Newer, spot
  <2> QED BY <1>1, <2>4, <2>5, StartsFrame DEF Announce, Parts
<1>2. CASE Park
  <2>1. toSpot' \in Seq(ToSpot) /\ From(toSpot', toSpot)
    BY <1>2, Same DEF Park, TypeOK
  <2>2. InsNew' /\ InsSorted'
    BY <1>2, <2>1, InsFrame DEF Park, spot
  <2>3. visit \in Nat /\ parked \in Nat /\ info \in Nat
    BY SpotAssumption DEF TypeOK
  <2>4. InfoInv'
    BY <1>2, <2>3 DEF Park, InfoInv, ParkInv, Newer, spot
  <2>5. ParkInv'
    BY <1>2, <2>3, Numbered DEF Park, ParkInv, Newer
  <2> QED BY <1>2, <2>2, <2>4, <2>5, StartsFrame DEF Park, Parts
<1>3. CASE Depart \/ ParkElsewhere
  <2> DEFINE m == [kind |-> "out", n |-> visit]
  <2>0. visit \in 0..MaxVisit
    BY DEF TypeOK
  <2>1. m \in ToSpot /\ visit \in Nat
    BY <2>0, Messages, Numbered
  <2>2. toSpot' = toSpot \/ toSpot' = Append(toSpot, m)
    BY <1>3 DEF Depart, ParkElsewhere, Lost, Arrives
  <2>3. InsNew' /\ InsSorted'
    <3>1. UNCHANGED <<info, published, toJet>> /\ visit' \in Nat /\ visit <= visit' /\ m.kind # "in"
      BY <1>3, <2>1 DEF Depart, ParkElsewhere, spot
    <3> HIDE DEF m
    <3> QED BY <2>1, <2>2, <3>1, InsAppend
  <2>4. ParkInv'
    BY <1>3 DEF Depart, ParkElsewhere, ParkInv, Newer
  <2> QED BY <1>3, <2>3, <2>4, StartsFrame DEF Depart, ParkElsewhere, Parts, spot
<1>4. CASE Rise
  <2>1. toSpot' \in Seq(ToSpot) /\ From(toSpot', toSpot)
    BY <1>4, Same DEF Rise, TypeOK
  <2> QED BY <1>4, <2>1, InsFrame, StartsFrame DEF Rise, Parts, spot, world
<1>5. CASE Other
  <2> DEFINE m == [kind |-> "other", n |-> 0]
  <2>1. m \in ToSpot /\ visit \in Nat
    BY Messages, SpotAssumption DEF TypeOK
  <2>2. toSpot' = toSpot \/ toSpot' = Append(toSpot, m)
    BY <1>5 DEF Other, Arrives
  <2>3. InsNew' /\ InsSorted'
    <3>1. UNCHANGED <<info, published, toJet>> /\ visit' \in Nat /\ visit <= visit' /\ m.kind # "in"
      BY <1>5, <2>1 DEF Other, spot, world
    <3> HIDE DEF m
    <3> QED BY <2>1, <2>2, <3>1, InsAppend
  <2> QED BY <1>5, <2>3, StartsFrame DEF Other, Parts, spot, world
<1> QED BY <1>1, <1>2, <1>3, <1>4, <1>5 DEF Environment

\* SPOT1.
LEMMA SpotStep == ASSUME SpotInv, SPOT1 PROVE Parts'
<1> USE DEF SpotInv
<1>1. CASE Connect
  <2>1. \A i \in DOMAIN toSpot' : toSpot'[i].kind # "in"
    BY <1>1 DEF Connect
  <2>2. InsNew' /\ InsSorted'
    BY <2>1 DEF InsNew, InsSorted, Sorted, Gate
  <2>3. InfoInv' /\ ParkInv'
    BY <1>1 DEF Connect, InfoInv, ParkInv, Newer, world
  <2> QED BY <1>1, <2>2, <2>3, StartsFrame DEF Connect, Parts
<1>2. CASE ReadIn
  <2>1. toSpot \in Seq(ToSpot) /\ Len(toSpot) \in Nat /\ 1 \in DOMAIN toSpot /\ Gate(toSpot, 1) /\ info' = toSpot[1].n
    BY <1>2 DEF ReadIn, TypeOK, Gate
  <2>2. toSpot' = <<NewLine>> \o Tail(toSpot)
    BY <1>2 DEF ReadIn
  <2>3. \A i \in DOMAIN toSpot' : toSpot'[i].kind = "in" => i \in 2..Len(toSpot) /\ toSpot'[i] = toSpot[i]
    BY <2>1, <2>2, Messages
  <2>4. InsNew'
    BY <1>2, <2>1, <2>3 DEF ReadIn, InsNew, InsSorted, Sorted, Gate, Newer, world
  <2>5. InsSorted'
    BY <2>1, <2>3 DEF InsSorted, Sorted
  <2>6. InfoInv'
    <3>1. toSpot[1] \in ToSpot
      BY <2>1
    <3>2. toSpot[1].n \in Nat /\ info \in Nat
      BY <3>1, SpotAssumption DEF TypeOK, ToSpot
    <3> QED BY <1>2, <2>1, <3>2 DEF ReadIn, InfoInv, InsNew, Newer, world
  <2>7. ParkInv'
    BY <1>2 DEF ReadIn, ParkInv, Newer, world
  <2> QED BY <1>2, <2>4, <2>5, <2>6, <2>7, StartsFrame DEF ReadIn, Parts
<1>3. CASE ReadOut
  BY <1>3, ReadKeeps, InsFrame, StartsFrame DEF ReadOut, Parts, spot, world
<1>4. CASE ReadOther
  BY <1>4, ReadKeeps, InsFrame, StartsFrame DEF ReadOther, Parts, spot, world
<1>5. CASE Reboot
  <2>1. InsNew' /\ InsSorted'
    BY <1>5 DEF Reboot, InsNew, InsSorted, Sorted, Gate
  <2>2. InfoInv' /\ ParkInv'
    BY <1>5, SpotAssumption DEF Reboot, InfoInv, ParkInv, Newer, world, TypeOK
  <2> QED BY <1>5, <2>1, <2>2, StartsFrame DEF Reboot, Parts
<1>6. CASE SeeCar
  <2>1. toSpot' \in Seq(ToSpot) /\ From(toSpot', toSpot)
    BY <1>6, Same DEF SeeCar, TypeOK
  <2>2. InfoInv' /\ ParkInv'
    BY <1>6 DEF SeeCar, InfoInv, ParkInv, Newer, world
  <2> QED BY <1>6, <2>1, <2>2, InsFrame, StartsFrame DEF SeeCar, Parts, world
<1>7. CASE TellJetson
  <2>1. info \in Nat /\ visit \in Nat /\ parked \in Nat /\ toJet \in Seq(Starts) /\ toSpot \in Seq(ToSpot)
    BY SpotAssumption DEF TypeOK
  <2>2. \A k \in DOMAIN toJet' : \/ k \in DOMAIN toJet /\ toJet'[k] = toJet[k]
                                 \/ k = Len(toJet) + 1 /\ toJet'[k] = Start
    BY <1>7, <2>1 DEF TellJetson
  <2>3. Start.n = info /\ Start.kind = "start"
    BY DEF Start
  <2>4. \A e \in Starts : e.n \in Nat
    BY SpotAssumption DEF Starts
  <2>5. \A k \in DOMAIN toJet : toJet[k].n \in Nat
    BY <2>1, <2>4
  <2>6. pc = "move" /\ 0 < info /\ info <= parked /\ Newer(info)
    BY <1>7 DEF TellJetson, InfoInv
  <2>7. UNCHANGED <<published, info, toSpot, visit, parked, car>> /\ pc' = "charge"
    BY <1>7 DEF TellJetson, world
  <2>8. InsNew' /\ InsSorted'
    BY <2>2, <2>3, <2>7 DEF InsNew, InsSorted, Sorted, Gate, Newer
  <2>9. InfoInv'
    BY <2>7 DEF InfoInv
  <2>10. ParkInv'
    BY <2>1, <2>2, <2>3, <2>6, <2>7 DEF ParkInv, Newer
  <2>11. JetInv'
    <3> SUFFICES ASSUME NEW k \in DOMAIN toJet', toJet'[k].kind = "start"
                 PROVE  /\ 0 < toJet'[k].n
                        /\ \A l \in DOMAIN published : published[l] < toJet'[k].n
                        /\ \A l \in DOMAIN toJet' :
                             k < l /\ toJet'[l].kind = "start" => toJet'[k].n < toJet'[l].n
      BY <2>7 DEF JetInv
    <3>1. CASE k \in DOMAIN toJet /\ toJet'[k] = toJet[k]
      BY <3>1, <2>2, <2>3, <2>6 DEF JetInv, Newer
    <3>2. CASE k = Len(toJet) + 1 /\ toJet'[k] = Start
      <4>1. \A l \in DOMAIN toJet' : ~(k < l)
        BY <3>2, <2>1, <2>2
      <4> QED BY <3>2, <4>1, <2>3, <2>6 DEF Newer
    <3> QED BY <3>1, <3>2, <2>2
  <2> QED BY <2>7, <2>8, <2>9, <2>10, <2>11 DEF Parts, StartsInOrder
<1>8. CASE Charge
  <2>1. InfoInv' /\ ParkInv'
    BY <1>8 DEF Charge, ChargeTurn, InfoInv, ParkInv, Newer, world
  <2> QED BY <1>8, <2>1, ReadKeeps, InsFrame, StartsFrame DEF Charge, ChargeTurn, Parts, world
<1> QED BY <1>1, <1>2, <1>3, <1>4, <1>5, <1>6, <1>7, <1>8 DEF SPOT1

\* The bridge and the selector.
LEMMA JetsonStep == ASSUME SpotInv, Jetson PROVE Parts'
<1> USE DEF SpotInv
<1>1. CASE BridgeStart
  <2>1. toSpot' \in Seq(ToSpot) /\ From(toSpot', toSpot)
    BY <1>1, Same DEF BridgeStart, TypeOK
  <2>2. toJet' = toJet \/ \A k \in DOMAIN toJet' : toJet'[k].kind # "start"
    BY <1>1, Messages DEF BridgeStart
  <2>3. UNCHANGED <<published, info, visit, parked, car, pc, toSpot>>
    BY <1>1 DEF BridgeStart, spot, world
  <2> QED BY <2>2, <2>3 DEF Parts, InsNew, InsSorted, Sorted, Gate, Newer, InfoInv, ParkInv, JetInv, StartsInOrder
<1>2. CASE Publish
  <2>1. PICK k \in 1..Len(toJet) :
           /\ toJet' \in Seq(Starts) /\ Len(toJet') = Len(toJet) - k
           /\ \A i \in DOMAIN toJet' : i + k \in DOMAIN toJet /\ toJet'[i] = toJet[i + k]
    BY <1>2, PublishTakes
  <2>2. /\ published \in Seq(Visits) /\ 1 \in DOMAIN toJet
        /\ \/ published' = published
           \/ /\ toJet[1].kind = "start" /\ published' = Append(published, toJet[1].n)
    BY <1>2, Publishes DEF TypeOK
  <2>3. UNCHANGED <<info, visit, parked, car, pc, toSpot>>
    BY <1>2 DEF Publish, spot, world
  <2>4. \A l \in DOMAIN published' :
          \/ l \in DOMAIN published /\ published'[l] = published[l]
          \/ l = Len(published) + 1 /\ published'[l] = toJet[1].n /\ toJet[1].kind = "start"
    BY <2>2
  \* What is older than n stays so: nothing is added to both queues together.
  <2>5. ASSUME NEW n, Newer(n)
        PROVE  /\ \A l \in DOMAIN published' : published'[l] < n
               /\ \A l \in DOMAIN toJet' : toJet'[l].kind = "start" => toJet'[l].n < n
    BY <2>1, <2>2, <2>4, <2>5 DEF Newer
  <2>6. InsNew' /\ InsSorted'
    BY <2>3, <2>5 DEF InsNew, InsSorted, Sorted, Gate, Newer
  <2>7. InfoInv' /\ ParkInv'
    BY <2>3, <2>5 DEF InfoInv, ParkInv, Newer
  <2>8. JetInv'
    <3> SUFFICES ASSUME NEW i \in DOMAIN toJet', toJet'[i].kind = "start"
                 PROVE  /\ 0 < toJet'[i].n
                        /\ \A l \in DOMAIN published' : published'[l] < toJet'[i].n
                        /\ \A l \in DOMAIN toJet' :
                             i < l /\ toJet'[l].kind = "start" => toJet'[i].n < toJet'[l].n
      BY DEF JetInv
    <3>1. i \in Nat /\ i + k \in DOMAIN toJet /\ toJet'[i] = toJet[i + k] /\ 1 < i + k
      BY <2>1
    <3>2. 0 < toJet'[i].n /\ \A l \in DOMAIN published : published[l] < toJet'[i].n
      BY <3>1 DEF JetInv
    <3>3. toJet[1].kind = "start" => toJet[1].n < toJet'[i].n
      BY <2>2, <3>1 DEF JetInv
    <3>4. ASSUME NEW l \in DOMAIN toJet', i < l, toJet'[l].kind = "start"
          PROVE  toJet'[i].n < toJet'[l].n
      <4>1. l + k \in DOMAIN toJet /\ toJet'[l] = toJet[l + k] /\ i + k < l + k
        BY <2>1, <3>1, <3>4
      <4> QED BY <3>1, <3>4, <4>1 DEF JetInv
    <3> QED BY <3>2, <3>3, <3>4, <2>4
  <2>9. StartsInOrder'
    <3> SUFFICES ASSUME NEW i \in DOMAIN published', NEW l \in DOMAIN published', i < l
                 PROVE  published'[i] < published'[l]
      BY DEF StartsInOrder
    <3>1. i \in DOMAIN published /\ published'[i] = published[i]
      BY <2>2, <2>4
    <3>2. CASE l \in DOMAIN published /\ published'[l] = published[l]
      BY <3>1, <3>2 DEF StartsInOrder
    <3>3. CASE published'[l] = toJet[1].n /\ toJet[1].kind = "start"
      BY <3>1, <3>3, <2>2 DEF JetInv
    <3> QED BY <3>2, <3>3, <2>4
  <2> QED BY <2>6, <2>7, <2>8, <2>9 DEF Parts
<1>3. CASE BridgeEnd \/ Shutdown
  <2>1. toJet' = <<>> /\ UNCHANGED <<published, info, visit, parked, car, pc, toSpot>>
    BY <1>3 DEF BridgeEnd, Shutdown, spot, world
  <2> QED BY <2>1 DEF Parts, InsNew, InsSorted, Sorted, Gate, Newer, InfoInv, ParkInv, JetInv, StartsInOrder
<1>4. CASE Hear
  <2>1. UNCHANGED <<published, toJet, info, visit, parked, car, pc, toSpot>>
    BY <1>4 DEF Hear, spot, world
  <2> QED BY <2>1 DEF Parts, InsNew, InsSorted, Sorted, Gate, Newer, InfoInv, ParkInv, JetInv, StartsInOrder
<1> QED BY <1>1, <1>2, <1>3, <1>4 DEF Jetson

LEMMA SpotInvInit == Init => SpotInv
<1> SUFFICES ASSUME Init PROVE SpotInv
  OBVIOUS
<1>1. TypeOK
  <2>1. 0 \in 0..MaxVisit /\ 0 \in 0..Full /\ 0 \in 0..MaxOther /\ 0 \in 0..MaxEnd
    BY SpotAssumption
  <2>2. <<>> \in Seq(ToSpot) /\ <<>> \in Seq(Starts) /\ <<>> \in Seq(Visits)
    OBVIOUS
  <2> QED BY <2>1, <2>2 DEF Init, TypeOK
<1> QED BY <1>1 DEF Init, SpotInv, InsNew, InsSorted, Sorted, Gate, Newer, InfoInv, ParkInv, JetInv, StartsInOrder

LEMMA SpotInvStep == SpotInv /\ [Next]_vars => SpotInv'
<1> SUFFICES ASSUME SpotInv, [Next]_vars PROVE SpotInv'
  OBVIOUS
<1>1. TypeOK'
  BY TypeStep DEF SpotInv
<1>2. CASE UNCHANGED vars
  <2>1. UNCHANGED <<published, toJet, info, visit, parked, car, pc, toSpot>>
    BY <1>2 DEF vars, spot, world
  <2> QED BY <1>1, <2>1 DEF SpotInv, InsNew, InsSorted, Sorted, Gate, Newer, InfoInv, ParkInv, JetInv, StartsInOrder
<1> QED BY <1>1, <1>2, WorldStep, SpotStep, JetsonStep DEF Next, Parts, SpotInv

LEMMA AlwaysSpotInv == Spec => []SpotInv
BY SpotInvInit, SpotInvStep, PTL DEF Spec
-----------------------------------------------------------------------------
(* Every variable keeps its range (0725_ing1.ino, Bridge_ros_socket_for_Jetson1.cpp). *)
THEOREM SpotTypes == Spec => []TypeOK
<1>1. SpotInv => TypeOK
  BY DEF SpotInv
<1> QED BY <1>1, AlwaysSpotInv, PTL

(* However many announcements are lost, swallowed or torn, and whatever read()  *)
(* returns together, starts are published at most once for a visit and in the   *)
(* order of the visits (0725_ing1.ino:68-170, Bridge...cpp:93-115).             *)
THEOREM StartsStayInOrder == Spec => []StartsInOrder
<1>1. SpotInv => StartsInOrder
  BY DEF SpotInv
<1> QED BY <1>1, AlwaysSpotInv, PTL

(* No start is published for a car that has not parked yet                      *)
(* (0725_ing1.ino:118-148).                                                     *)
THEOREM NoStartOnTheWay == Spec => []StartAfterParking
<1>1. SpotInv => StartAfterParking
  BY Numbered DEF SpotInv, ParkInv, Newer, StartAfterParking
<1> QED BY <1>1, AlwaysSpotInv, PTL
-----------------------------------------------------------------------------
\* Admin was shown 100 when SPOT1 read it, and before setup() nothing has been read.
ShownInv ==
  /\ linked /\ pre_charging = Full => admin = Full
  /\ pc = "setup" => pre_charging = 0

LEMMA ShownStep == ShownInv /\ [Next]_vars => ShownInv'
<1> SUFFICES ASSUME ShownInv, [Next]_vars PROVE ShownInv'
  OBVIOUS
<1>1. CASE Environment
  BY <1>1 DEF Environment, Announce, Park, Depart, ParkElsewhere, Rise, Other, spot, ShownInv
<1>2. CASE Connect
  BY <1>2, SpotAssumption DEF Connect, ShownInv
<1>3. CASE ReadIn \/ ReadOut \/ ReadOther
  BY <1>3 DEF ReadIn, ReadOut, ReadOther, spot, ShownInv
<1>4. CASE Reboot
  BY <1>4 DEF Reboot, ShownInv
<1>5. CASE SeeCar \/ TellJetson
  BY <1>5 DEF SeeCar, TellJetson, ShownInv
<1>6. CASE Charge
  BY <1>6 DEF Charge, ChargeTurn, ShownInv
<1>7. CASE Jetson
  BY <1>7 DEF Jetson, BridgeStart, Publish, BridgeEnd, Shutdown, Hear, spot, ShownInv
<1>8. CASE UNCHANGED vars
  BY <1>8 DEF vars, spot, ShownInv
<1> QED BY <1>1, <1>2, <1>3, <1>4, <1>5, <1>6, <1>7, <1>8 DEF Next, SPOT1

(* A charge that ends at 100 leaves admin with 100, over visits, resets and     *)
(* lost connections, although a level is told only when it differs from the one *)
(* read last (0725_ing1.ino:178-188, 226-228).                                  *)
THEOREM FullIsShown == Spec => AdminSeesFull
<1>1. Init => ShownInv
  BY DEF Init, ShownInv
<1>2. ShownInv /\ [Next]_vars =>
        [pc = "charge" /\ pc' = "loop" /\ linked /\ level = Full => admin' = Full]_vars
  <2> SUFFICES ASSUME ShownInv, Next, pc = "charge", pc' = "loop", linked, level = Full
               PROVE  admin' = Full
    OBVIOUS
  <2>1. Charge
    BY DEF Next, Environment, Announce, Park, Depart, ParkElsewhere, Rise, Other, SPOT1, Connect, ReadIn, ReadOut,
       ReadOther, Reboot, SeeCar, TellJetson, Jetson, BridgeStart, Publish, BridgeEnd, Shutdown, Hear, spot
  <2> QED BY <2>1 DEF Charge, ChargeTurn, ShownInv
<1> QED BY <1>1, <1>2, ShownStep, PTL DEF Spec, AdminSeesFull
=============================================================================
