--------------------------- MODULE IotClientProofs ---------------------------
(***************************************************************************)
(* Theorems about IotClient, for any lines and any number of messages.      *)
(***************************************************************************)
EXTENDS IotClient, WellFoundedInduction, TLAPS

(***************************************************************************)
(* A reader that has ended has told the sender, unless its descriptor is a  *)
(* copy; the sender never takes that back.                                  *)
(***************************************************************************)
Told == ~program.copies /\ rcvPc = "ended" => sock = "none"

LEMMA ToldInit == Init => Told
BY DEF Init, Told

LEMMA ToldNext == Told /\ [Next]_vars => Told'
<1> SUFFICES ASSUME Told, [Next]_vars PROVE Told'
  OBVIOUS
<1> USE DEF Told
<1>1. CASE User
  BY <1>1 DEF User, Type, CloseTerminal, Interrupt, reader
<1>2. CASE Server
  BY <1>2 DEF Server, ServerSays, ServerEnds, reader
<1>3. CASE Start
  BY <1>3 DEF Start
<1>4. CASE CreateSender \/ Join
  BY <1>4 DEF CreateSender, Join, reader
<1>5. CASE SendMsg
  BY <1>5 DEF SendMsg, Select, Fgets, Load, Write, Check, reader
<1>6. CASE Read \/ ReadEnds
  BY <1>6 DEF Read, ReadEnds, EndReader
<1>7. ASSUME NEW n \in 1..MaxSaid, ReadReturns(n) PROVE Told'
  BY <1>7 DEF ReadReturns
<1>8. CASE RosInit \/ Publish \/ Sleep
  BY <1>8 DEF RosInit, Publish, Sleep
<1>9. CASE UNCHANGED vars
  BY <1>9 DEF vars, reader
<1> QED BY <1>1, <1>2, <1>3, <1>4, <1>5, <1>6, <1>7, <1>8, <1>9 DEF Next, Main, RecvMsg

(***************************************************************************)
(* Once the reader has seen the server go, the sender begins no write       *)
(* (iot_client.c:92, :124), in every behaviour of a client whose threads    *)
(* share the descriptor.                                                    *)
(***************************************************************************)
THEOREM WritesEnd == Spec => NoLateWrite
<1> DEFINE Late == ~program.copies /\ rcvPc = "ended" /\ sndPc # "write" => sndPc' # "write"
<1>1. Told /\ [Next]_vars => [Late]_vars
  <2> SUFFICES ASSUME Told, [Next]_vars, ~program.copies, rcvPc = "ended", sndPc # "write"
               PROVE  sndPc' # "write"
    OBVIOUS
  <2>1. sock = "none"
    BY DEF Told
  <2>2. CASE SendMsg
    BY <2>1, <2>2 DEF SendMsg, Select, Fgets, Load, Write, Check
  <2>3. CASE User \/ Server
    BY <2>3 DEF User, Type, CloseTerminal, Interrupt, Server, ServerSays, ServerEnds, sender
  <2>4. CASE Main
    BY <2>4 DEF Main, Start, CreateSender, Join, sender
  <2>5. CASE RecvMsg
    BY <2>5 DEF RecvMsg, RosInit, Read, ReadReturns, ReadEnds, Publish, Sleep, sender
  <2>6. CASE UNCHANGED vars
    BY <2>6 DEF vars, sender
  <2> QED BY <2>2, <2>3, <2>4, <2>5, <2>6 DEF Next
<1> QED BY <1>1, ToldInit, ToldNext, PTL DEF Spec, NoLateWrite

-----------------------------------------------------------------------------
(* The types, in three parts *)

TypeControl ==
  /\ program \in Programs /\ life \in {"new", "running", "exited", "killed", "broken"}
  /\ sock \in {"open", "none"} /\ conn \in {"open", "shut", "closed", "reset"}
  /\ sndPc \in {"created", "select", "fgets", "load", "write", "check", "ended"}
  /\ rcvPc \in {"created", "init", "read", "blocked", "publish", "sleep", "ended"}
  /\ ok \in BOOLEAN
TypeInput ==
  /\ part \in Parts \cup {Nothing} /\ typed \in Seq(Parts) /\ tty \in Seq(Seq(Parts) \ {<<>>})
  /\ stdio \in Seq(Parts) /\ eof \in BOOLEAN /\ sent \in Seq(Messages)
TypeOutput ==
  /\ batch \in Seq(1..MaxSaid) /\ fromServer \in Seq(1..MaxSaid) /\ said \in 0..MaxSaid
  /\ heard \in Seq(1..MaxSaid) /\ published \in Seq(Seq(1..MaxSaid))

LEMMA TypeParts == TypeOK <=> TypeControl /\ TypeInput /\ TypeOutput
BY DEF TypeOK, TypeControl, TypeInput, TypeOutput

LEMMA HeadAndTail ==
  ASSUME NEW S, NEW q \in Seq(S), q # <<>>
  PROVE  Head(q) \in S /\ Tail(q) \in Seq(S)
OBVIOUS

\* A stretch of a sequence, and what comes behind it.
LEMMA Cut ==
  ASSUME NEW S, NEW q \in Seq(S), NEW n \in 1..Len(q)
  PROVE  SubSeq(q, 1, n) \in Seq(S) /\ SubSeq(q, n + 1, Len(q)) \in Seq(S)
<1>1. Len(q) \in Nat /\ \A k \in 1..Len(q) : q[k] \in S
  OBVIOUS
<1>2. \A k \in 1..n : q[k] \in S
  BY <1>1
<1>3. SubSeq(q, 1, n) \in Seq(S)
  BY <1>1, <1>2
<1>4. SubSeq(q, n + 1, Len(q)) \in Seq(S)
  BY <1>1
<1> QED BY <1>3, <1>4

\* A line that is typed gets the next number.
LEMMA LineTyped ==
  ASSUME TypeInput, NEW l \in Lines, LastLine < MaxTyped
  PROVE  [i \in 1..Len(l) |-> [line |-> LastLine + 1, kind |-> l[i]]] \in Seq(Parts) \ {<<>>}
<1> DEFINE parts == [i \in 1..Len(l) |-> [line |-> LastLine + 1, kind |-> l[i]]]
<1>1. l \in Seq(Kinds) /\ Len(l) \in Nat /\ \A i \in 1..Len(l) : l[i] \in Kinds
  BY ClientAssumption
<1>2. LastLine + 1 \in 1..MaxTyped
  <2>1. CASE typed = <<>>
    BY <2>1, ClientAssumption DEF LastLine
  <2>2. CASE typed # <<>>
    <3>1. typed \in Seq(Parts) /\ Len(typed) \in Nat \ {0}
      BY <2>2 DEF TypeInput
    <3>2. typed[Len(typed)] \in Parts
      BY <3>1
    <3>3. LastLine = typed[Len(typed)].line
      BY <2>2 DEF LastLine, Last
    <3>4. LastLine \in 1..MaxTyped
      BY <3>2, <3>3 DEF Parts
    <3> QED BY <3>4, ClientAssumption
  <2> QED BY <2>1, <2>2
<1>3. \A i \in 1..Len(l) : [line |-> LastLine + 1, kind |-> l[i]] \in Parts
  BY <1>1, <1>2 DEF Parts
<1>4. parts \in Seq(Parts)
  BY <1>1, <1>3
<1>5. Len(parts) > 0
  <2>1. Len(l) > 0
    BY ClientAssumption
  <2> QED BY <1>1, <2>1
<1> QED BY <1>4, <1>5

LEMMA TypeInit == Init => TypeOK
<1> SUFFICES ASSUME Init PROVE TypeControl /\ TypeInput /\ TypeOutput
  BY TypeParts
<1>1. TypeControl
  BY DEF Init, TypeControl
<1>2. TypeInput
  <2>1. \A S : <<>> \in Seq(S)
    OBVIOUS
  <2> QED BY <2>1, Zenon DEF Init, TypeInput
<1>3. TypeOutput
  BY ClientAssumption DEF Init, TypeOutput
<1> QED BY <1>1, <1>2, <1>3

LEMMA TypeNext == TypeOK /\ [Next]_vars => TypeOK'
<1> SUFFICES ASSUME TypeOK, [Next]_vars PROVE TypeOK'
  OBVIOUS
<1>0. TypeControl /\ TypeInput /\ TypeOutput
  BY TypeParts
<1>T. TypeControl' /\ TypeInput' /\ TypeOutput' => TypeOK'
  BY DEF TypeOK, TypeControl, TypeInput, TypeOutput
<1> USE <1>0
<1> USE DEF input, output, toClient, sender, reader
<1>1. ASSUME NEW l \in Lines, Type(l) PROVE TypeOK'
  <2> DEFINE parts == [i \in 1..Len(l) |-> [line |-> LastLine + 1, kind |-> l[i]]]
  <2>1. tty' = Append(tty, parts) /\ typed' = typed \o parts /\ LastLine < MaxTyped
    BY <1>1 DEF Type
  <2>2. parts \in Seq(Parts) \ {<<>>}
    BY <2>1, LineTyped
  <2> HIDE DEF parts
  <2>3. tty' \in Seq(Seq(Parts) \ {<<>>}) /\ typed' \in Seq(Parts)
    BY <2>1, <2>2 DEF TypeInput
  <2> QED BY <1>1, <1>T, <2>3 DEF Type, TypeControl, TypeInput, TypeOutput
<1>2. CASE CloseTerminal \/ Interrupt
  BY <1>2, <1>T DEF CloseTerminal, Interrupt, TypeControl, TypeInput, TypeOutput
<1>3. CASE ServerSays
  <2>1. said' \in 1..MaxSaid
    BY <1>3, ClientAssumption DEF ServerSays, TypeOutput
  <2>2. TypeOutput'
    BY <1>3, <2>1 DEF ServerSays, TypeOutput
  <2> QED BY <1>3, <1>T, <2>2 DEF ServerSays, TypeControl, TypeInput
<1>4. CASE ServerEnds
  BY <1>4, <1>T DEF ServerEnds, TypeControl, TypeInput, TypeOutput
<1>5. CASE Start
  <2>1. TypeControl'
    BY <1>5 DEF Start, TypeControl
  <2>2. TypeInput'
    <3>1. <<Login>> \in Seq(Messages)
      BY DEF Login, Messages
    <3> QED BY <1>5, <3>1 DEF Start, TypeInput
  <2> QED BY <1>5, <1>T, <2>1, <2>2 DEF Start, TypeOutput
<1>6. CASE CreateSender \/ Join
  BY <1>6, <1>T DEF CreateSender, Join, TypeControl, TypeInput, TypeOutput
<1>7. CASE Select \/ Load \/ Check
  BY <1>7, <1>T DEF Select, Load, Check, TypeControl, TypeInput, TypeOutput
<1>8. CASE Fgets
  <2>1. TypeControl'
    BY <1>8 DEF Fgets, TypeControl
  <2>2. part' \in Parts \cup {Nothing} /\ stdio' \in Seq(Parts)
       /\ tty' \in Seq(Seq(Parts) \ {<<>>})
    <3>1. CASE stdio # <<>> /\ part' = Head(stdio) /\ stdio' = Tail(stdio) /\ UNCHANGED tty
      BY <3>1, HeadAndTail DEF TypeInput
    <3>2. CASE tty # <<>> /\ part' = Head(Head(tty)) /\ stdio' = Tail(Head(tty)) /\ tty' = Tail(tty)
      <4>1. Head(tty) \in Seq(Parts) \ {<<>>} /\ tty' \in Seq(Seq(Parts) \ {<<>>})
        BY <3>2, HeadAndTail DEF TypeInput
      <4> QED BY <3>2, <4>1, HeadAndTail
    <3>3. CASE part' = Nothing /\ UNCHANGED <<stdio, tty>>
      BY <3>3 DEF TypeInput
    <3> QED BY <1>8, <3>1, <3>2, <3>3 DEF Fgets, NextPart
  <2> QED BY <1>8, <1>T, <2>1, <2>2 DEF Fgets, TypeInput, TypeOutput
<1>9. CASE Write
  <2>1. TypeControl'
    BY <1>9 DEF Write, TypeControl
  <2>2. TypeInput'
    <3>1. Addressed(part) \in Messages
      BY DEF Addressed, Messages, TypeInput
    <3>2. Append(sent, Addressed(part)) \in Seq(Messages)
      BY <3>1 DEF TypeInput
    <3>3. sent' \in {sent, Append(sent, Addressed(part))}
      BY <1>9, Zenon DEF Write
    <3>4. sent' \in Seq(Messages)
      BY <3>2, <3>3 DEF TypeInput
    <3> QED BY <1>9, <3>4 DEF Write, TypeInput
  <2> QED BY <1>9, <1>T, <2>1, <2>2 DEF Write, TypeOutput
<1>10. CASE RosInit \/ Read \/ ReadEnds \/ Sleep
  BY <1>10, <1>T DEF RosInit, Read, ReadEnds, EndReader, Sleep, TypeControl, TypeInput, TypeOutput
<1>11. ASSUME NEW n \in 1..MaxSaid, ReadReturns(n) PROVE TypeOK'
  <2>1. TypeControl'
    BY <1>11 DEF ReadReturns, TypeControl
  <2>2. batch' \in Seq(1..MaxSaid) /\ fromServer' \in Seq(1..MaxSaid)
    BY <1>11, Cut DEF ReadReturns, TypeOutput
  <2>3. heard' \in Seq(1..MaxSaid)
    BY <1>11, <2>2 DEF ReadReturns, TypeOutput
  <2> QED BY <1>11, <1>T, <2>1, <2>2, <2>3 DEF ReadReturns, TypeInput, TypeOutput
<1>12. CASE Publish
  <2>1. TypeControl'
    BY <1>12 DEF Publish, TypeControl
  <2>2. published' \in Seq(Seq(1..MaxSaid))
    <3>1. Append(published, batch) \in Seq(Seq(1..MaxSaid))
      BY DEF TypeOutput
    <3>2. published' \in {published, Append(published, batch)}
      BY <1>12, Zenon DEF Publish
    <3> QED BY <3>1, <3>2, Zenon DEF TypeOutput
  <2> QED BY <1>12, <1>T, <2>1, <2>2 DEF Publish, TypeInput, TypeOutput
<1>13. CASE UNCHANGED vars
  BY <1>13, <1>T DEF vars, TypeControl, TypeInput, TypeOutput
<1> QED BY <1>1, <1>2, <1>3, <1>4, <1>5, <1>6, <1>7, <1>8, <1>9, <1>10, <1>11, <1>12, <1>13
        DEF Next, User, Server, Main, SendMsg, RecvMsg

\* The types of IotClient.tla hold in every behaviour.
THEOREM TypeCorrect == Spec => []TypeOK
BY TypeInit, TypeNext, PTL DEF Spec

-----------------------------------------------------------------------------
(***************************************************************************)
(* FlattenSeq is a recursive function, so what it returns for a longer      *)
(* sequence is shown by induction.  The induction theorems of the library   *)
(* take a predicate as a parameter; this one takes the set of the numbers   *)
(* for which it holds.                                                      *)
(***************************************************************************)
LEMMA Induct ==
  ASSUME NEW S \in SUBSET Nat, 0 \in S, \A n \in S : n + 1 \in S
  PROVE  S = Nat
<1> DEFINE Below == {nn \in Nat \X Nat : nn[1] < nn[2]}
           Rest == Nat \ S
<1> SUFFICES ASSUME Rest # {} PROVE FALSE
  OBVIOUS
<1>1. IsWellFoundedOn(Below, Nat)
  BY NatLessThanWellFounded DEF OpToRel
<1>2. \E m \in Rest : \A n \in Rest : ~(<<n, m>> \in Below)
  <2> HIDE DEF Below
  <2> QED BY <1>1, WFMin, Zenon
<1>3. PICK m \in Rest : \A n \in Rest : ~(<<n, m>> \in Below)
  BY <1>2
<1>4. m # 0 /\ m - 1 \in Nat /\ m \in Nat /\ m \notin S
  OBVIOUS
<1>5. <<m - 1, m>> \in Below
  BY <1>4
<1>6. m - 1 \in S
  BY <1>3, <1>4, <1>5
<1>7. (m - 1) + 1 \in S
  BY <1>6
<1> QED BY <1>4, <1>7

\* The first n sequences of s put together one after the other.
IsFlat(f, s, n) == f = [i \in 1..n |-> IF i = 1 THEN s[i] ELSE f[i - 1] \o s[i]]

LEMMA FlatExists ==
  ASSUME NEW s
  PROVE  \A n \in Nat : \E f : IsFlat(f, s, n)
<1> DEFINE S == {n \in Nat : \E f : IsFlat(f, s, n)}
<1>1. 0 \in S
  <2> DEFINE g == [i \in 1..0 |-> 0]
  <2>1. IsFlat(g, s, 0)
    BY DEF IsFlat
  <2> QED BY <2>1
<1>2. ASSUME NEW n \in S PROVE n + 1 \in S
  <2>1. PICK f : IsFlat(f, s, n)
    OBVIOUS
  <2> DEFINE e(i) == IF i = 1 THEN s[i] ELSE f[i - 1] \o s[i]
             g == [i \in 1..(n + 1) |-> e(i)]
  <2>2. \A i \in 1..n : f[i] = e(i)
    BY <2>1 DEF IsFlat
  <2>3. \A i \in 1..(n + 1) : i # 1 => i - 1 \in 1..n /\ i - 1 \in 1..(n + 1)
    OBVIOUS
  <2>4. \A i \in 1..(n + 1) : i # 1 => g[i - 1] = f[i - 1]
    <3> HIDE DEF e
    <3> QED BY <2>2, <2>3
  <2>5. \A i \in 1..(n + 1) : e(i) = IF i = 1 THEN s[i] ELSE g[i - 1] \o s[i]
    <3> HIDE DEF g
    <3> QED BY <2>4
  <2>6. IsFlat(g, s, n + 1)
    <3> HIDE DEF e
    <3> QED BY <2>5, Zenon DEF IsFlat
  <2> QED BY <2>6
<1> HIDE DEF S
<1>3. S = Nat
  <2>1. S \in SUBSET Nat
    BY DEF S
  <2> QED BY <1>1, <1>2, <2>1, Induct
<1> QED BY <1>3 DEF S

Flat(s) == CHOOSE f : IsFlat(f, s, Len(s))

LEMMA FlattenIsFlat ==
  ASSUME NEW s, Len(s) \in Nat
  PROVE  /\ IsFlat(Flat(s), s, Len(s))
         /\ FlattenSeq(s) = IF Len(s) = 0 THEN s ELSE Flat(s)[Len(s)]
<1>1. IsFlat(Flat(s), s, Len(s))
  BY FlatExists DEF Flat
<1>2. FlattenSeq(s) = IF Len(s) = 0 THEN s ELSE Flat(s)[Len(s)]
  BY Zenon DEF FlattenSeq, Flat, IsFlat
<1> QED BY <1>1, <1>2

\* What is put together depends on no sequence behind it.
LEMMA FlatAgree ==
  ASSUME NEW s, NEW t, NEW m \in Nat, NEW n \in Nat, NEW f, NEW g, IsFlat(f, s, m), IsFlat(g, t, n),
         NEW k \in Nat, k <= m, k <= n, \A i \in 1..k : s[i] = t[i]
  PROVE  \A i \in 1..k : f[i] = g[i]
<1> DEFINE S == {j \in Nat : j \in 1..k => f[j] = g[j]}
<1>1. 0 \in S
  OBVIOUS
<1>2. ASSUME NEW j \in S PROVE j + 1 \in S
  <2> SUFFICES ASSUME j + 1 \in 1..k PROVE f[j + 1] = g[j + 1]
    OBVIOUS
  <2>1. j + 1 \in 1..m /\ j + 1 \in 1..n /\ (j + 1) - 1 = j
    OBVIOUS
  <2>2. f[j + 1] = IF j + 1 = 1 THEN s[j + 1] ELSE f[j] \o s[j + 1]
    BY <2>1 DEF IsFlat
  <2>3. g[j + 1] = IF j + 1 = 1 THEN t[j + 1] ELSE g[j] \o t[j + 1]
    BY <2>1 DEF IsFlat
  <2>4. j + 1 # 1 => f[j] = g[j]
    OBVIOUS
  <2> QED BY <2>2, <2>3, <2>4
<1> HIDE DEF S
<1>3. S = Nat
  <2>1. S \in SUBSET Nat
    BY DEF S
  <2> QED BY <1>1, <1>2, <2>1, Induct
<1> QED BY <1>3 DEF S

LEMMA FlatType ==
  ASSUME NEW T, NEW s \in Seq(Seq(T)), NEW f, IsFlat(f, s, Len(s))
  PROVE  \A i \in 1..Len(s) : f[i] \in Seq(T)
<1> DEFINE S == {j \in Nat : j \in 1..Len(s) => f[j] \in Seq(T)}
<1>1. 0 \in S
  OBVIOUS
<1>2. ASSUME NEW j \in S PROVE j + 1 \in S
  <2> SUFFICES ASSUME j + 1 \in 1..Len(s) PROVE f[j + 1] \in Seq(T)
    OBVIOUS
  <2>1. (j + 1) - 1 = j /\ Len(s) \in Nat
    OBVIOUS
  <2>2. f[j + 1] = IF j + 1 = 1 THEN s[j + 1] ELSE f[j] \o s[j + 1]
    BY <2>1 DEF IsFlat
  <2>3. j + 1 # 1 => f[j] \in Seq(T)
    BY <2>1
  <2>4. s[j + 1] \in Seq(T)
    OBVIOUS
  <2> QED BY <2>2, <2>3, <2>4
<1> HIDE DEF S
<1>3. S = Nat
  <2>1. S \in SUBSET Nat
    BY DEF S
  <2> QED BY <1>1, <1>2, <2>1, Induct
<1> QED BY <1>3 DEF S

LEMMA FlattenType ==
  ASSUME NEW T, NEW s \in Seq(Seq(T))
  PROVE  FlattenSeq(s) \in Seq(T)
<1>1. Len(s) \in Nat
  OBVIOUS
<1>2. \A i \in 1..Len(s) : Flat(s)[i] \in Seq(T)
  BY <1>1, FlattenIsFlat, FlatType
<1>3. CASE Len(s) = 0
  <2>1. FlattenSeq(s) = s
    BY <1>3, FlattenIsFlat
  <2> QED BY <1>3, <2>1
<1>4. CASE Len(s) # 0
  BY <1>1, <1>2, <1>4, FlattenIsFlat
<1> QED BY <1>3, <1>4

\* One sequence more at the end.
LEMMA FlattenLonger ==
  ASSUME NEW s, NEW t, NEW n \in Nat, Len(s) = n, Len(t) = n + 1, \A i \in 1..n : s[i] = t[i]
  PROVE  FlattenSeq(t) = IF n = 0 THEN t[1] ELSE FlattenSeq(s) \o t[n + 1]
<1>1. IsFlat(Flat(s), s, n) /\ (n # 0 => FlattenSeq(s) = Flat(s)[n])
  BY FlattenIsFlat
<1>2. IsFlat(Flat(t), t, n + 1) /\ FlattenSeq(t) = Flat(t)[n + 1]
  BY FlattenIsFlat
<1> DEFINE f == Flat(s)
           g == Flat(t)
<1>3. IsFlat(f, s, n) /\ IsFlat(g, t, n + 1)
  BY <1>1, <1>2
<1> HIDE DEF f, g
<1>4. \A i \in 1..n : f[i] = g[i]
  <2>1. n + 1 \in Nat /\ n <= n /\ n <= n + 1
    OBVIOUS
  <2> QED BY <1>3, <2>1, FlatAgree
<1>5. g[n + 1] = IF n + 1 = 1 THEN t[n + 1] ELSE g[n] \o t[n + 1]
  <2>1. n + 1 \in 1..(n + 1) /\ (n + 1) - 1 = n
    OBVIOUS
  <2> QED BY <1>3, <2>1 DEF IsFlat
<1>6. n # 0 => f[n] = g[n]
  BY <1>4
<1> QED BY <1>1, <1>2, <1>5, <1>6 DEF f, g

LEMMA FlattenAppend ==
  ASSUME NEW T, NEW s \in Seq(Seq(T)), NEW e \in Seq(T)
  PROVE  FlattenSeq(Append(s, e)) = FlattenSeq(s) \o e
<1>1. /\ Len(s) \in Nat /\ Len(Append(s, e)) = Len(s) + 1 /\ Append(s, e)[Len(s) + 1] = e
      /\ \A i \in 1..Len(s) : s[i] = Append(s, e)[i]
  OBVIOUS
<1>2. FlattenSeq(Append(s, e)) = IF Len(s) = 0 THEN Append(s, e)[1] ELSE FlattenSeq(s) \o e
  <2> DEFINE t == Append(s, e)
  <2>1. Len(t) = Len(s) + 1 /\ t[Len(s) + 1] = e /\ \A i \in 1..Len(s) : s[i] = t[i]
    BY <1>1
  <2> HIDE DEF t
  <2>2. FlattenSeq(t) = IF Len(s) = 0 THEN t[1] ELSE FlattenSeq(s) \o e
    <3>1. FlattenSeq(t) = IF Len(s) = 0 THEN t[1] ELSE FlattenSeq(s) \o t[Len(s) + 1]
      <4> DEFINE n == Len(s)
      <4>1. n \in Nat /\ Len(s) = n /\ Len(t) = n + 1 /\ \A i \in 1..n : s[i] = t[i]
        BY <1>1, <2>1
      <4> HIDE DEF n
      <4>2. FlattenSeq(t) = IF n = 0 THEN t[1] ELSE FlattenSeq(s) \o t[n + 1]
        BY <4>1, FlattenLonger
      <4> QED BY <4>2 DEF n
    <3> QED BY <2>1, <3>1
  <2> QED BY <2>2 DEF t
<1>3. CASE Len(s) = 0
  <2>1. s = <<>>
    BY <1>3
  <2>2. FlattenSeq(s) = <<>>
    BY <1>1, <1>3, <2>1, FlattenIsFlat
  <2>3. Append(s, e)[1] = e /\ <<>> \o e = e
    BY <1>1, <1>3
  <2> QED BY <1>2, <1>3, <2>2, <2>3
<1>4. CASE Len(s) # 0
  BY <1>2, <1>4
<1> QED BY <1>3, <1>4

\* Concatenation under a name, for steps that do not look into it.
Cat(p, q) == p \o q

LEMMA CatAssociates ==
  ASSUME NEW T, NEW p \in Seq(T), NEW q \in Seq(T), NEW r \in Seq(T)
  PROVE  Cat(Cat(p, q), r) = Cat(p, Cat(q, r))
BY DEF Cat

\* t is s without its first sequence.
Shifted(s, t, n) == \A i \in 1..n : t[i] = s[i + 1]

LEMMA FlatShifted ==
  ASSUME NEW T, NEW s, NEW t \in Seq(Seq(T)), NEW n \in Nat, NEW f, NEW g,
         Len(t) = n, Shifted(s, t, n), s[1] \in Seq(T),
         IsFlat(f, s, n + 1), IsFlat(g, t, n)
  PROVE  \A i \in 1..n : f[i + 1] = Cat(s[1], g[i])
<1> DEFINE S == {j \in Nat : j \in 1..n => f[j + 1] = Cat(s[1], g[j])}
<1>1. 0 \in S
  OBVIOUS
<1>2. ASSUME NEW j \in S PROVE j + 1 \in S
  <2>0. j \in Nat /\ (j \in 1..n => f[j + 1] = s[1] \o g[j])
    BY DEF Cat
  <2> HIDE DEF S
  <2> SUFFICES ASSUME j + 1 \in 1..n PROVE f[j + 2] = s[1] \o g[j + 1]
    <3>1. (j + 1) + 1 = j + 2 /\ j + 1 \in Nat
      BY <2>0
    <3> QED BY <3>1 DEF S, Cat
  <2>1. f[j + 2] = f[j + 1] \o s[j + 2]
    <3>1. j + 2 \in 1..(n + 1) /\ j + 2 # 1 /\ (j + 2) - 1 = j + 1
      BY <2>0
    <3> QED BY <3>1 DEF IsFlat
  <2>2. g[j + 1] = IF j + 1 = 1 THEN t[j + 1] ELSE g[j] \o t[j + 1]
    <3>1. (j + 1) - 1 = j
      BY <2>0
    <3> QED BY <3>1 DEF IsFlat
  <2>3. t[j + 1] = s[j + 2] /\ t[j + 1] \in Seq(T)
    <3>1. (j + 1) + 1 = j + 2
      BY <2>0
    <3>2. t[j + 1] = s[(j + 1) + 1]
      BY DEF Shifted
    <3>3. t[j + 1] \in Seq(T)
      OBVIOUS
    <3> QED BY <3>1, <3>2, <3>3
  <2>4. CASE j = 0
    <3>1. f[1] = s[1]
      <4>1. 1 \in 1..(n + 1)
        OBVIOUS
      <4> QED BY <4>1 DEF IsFlat
    <3>2. j + 1 = 1 /\ j + 2 = 2
      BY <2>4
    <3> QED BY <2>1, <2>2, <2>3, <3>1, <3>2
  <2>5. CASE j # 0
    <3>1. j \in 1..n /\ j + 1 # 1
      BY <2>0, <2>5
    <3>2. f[j + 1] = s[1] \o g[j] /\ g[j] \in Seq(T)
      BY <2>0, <3>1, FlatType
    <3>3. Cat(Cat(s[1], g[j]), t[j + 1]) = Cat(s[1], Cat(g[j], t[j + 1]))
      BY <2>3, <3>2, CatAssociates
    <3> QED BY <2>1, <2>2, <2>3, <3>1, <3>2, <3>3, Zenon DEF Cat
  <2> QED BY <2>4, <2>5
<1> HIDE DEF S
<1>3. S = Nat
  <2>1. S \in SUBSET Nat
    BY DEF S
  <2> QED BY <1>1, <1>2, <2>1, Induct
<1>4. \A j \in Nat : j \in 1..n => f[j + 1] = Cat(s[1], g[j])
  BY <1>3, Zenon DEF S
<1>5. \A i \in 1..n : i \in Nat
  OBVIOUS
<1> QED BY <1>4, <1>5, Zenon

\* The first sequence taken off.
LEMMA FlattenHead ==
  ASSUME NEW T, NEW s \in Seq(Seq(T)), s # <<>>
  PROVE  FlattenSeq(s) = Head(s) \o FlattenSeq(Tail(s))
<1>1. /\ Tail(s) \in Seq(Seq(T)) /\ Len(Tail(s)) \in Nat /\ Len(s) = Len(Tail(s)) + 1
      /\ \A i \in 1..Len(Tail(s)) : Tail(s)[i] = s[i + 1]
  OBVIOUS
<1>2. PICK t \in Seq(Seq(T)), n \in Nat :
        /\ t = Tail(s) /\ Len(t) = n /\ Len(s) = n + 1 /\ \A i \in 1..n : t[i] = s[i + 1]
  BY <1>1, Zenon
<1>3. Head(s) = s[1] /\ s[1] \in Seq(T)
  BY <1>1
<1>4. IsFlat(Flat(s), s, n + 1) /\ FlattenSeq(s) = Flat(s)[n + 1]
  BY <1>2, FlattenIsFlat
<1>5. IsFlat(Flat(t), t, n) /\ FlattenSeq(t) = IF n = 0 THEN t ELSE Flat(t)[n]
  BY <1>2, FlattenIsFlat
<1>6. \A i \in 1..n : Flat(s)[i + 1] = s[1] \o Flat(t)[i]
  <2> DEFINE f == Flat(s)
             g == Flat(t)
  <2>1. IsFlat(f, s, n + 1) /\ IsFlat(g, t, n)
    BY <1>4, <1>5
  <2> HIDE DEF f, g
  <2>2. \A i \in 1..n : f[i + 1] = Cat(s[1], g[i])
    <3>1. Len(t) = n /\ s[1] \in Seq(T)
      BY <1>2, <1>3
    <3>2. Shifted(s, t, n)
      BY <1>2 DEF Shifted
    <3> QED BY <2>1, <3>1, <3>2, FlatShifted
  <2> QED BY <2>2, Zenon DEF f, g, Cat
<1>7. CASE n = 0
  <2>1. t = <<>>
    <3>1. \A u \in Seq(Seq(T)) : Len(u) = 0 => u = <<>>
      OBVIOUS
    <3> QED BY <1>2, <1>7, <3>1, Zenon
  <2>2. Flat(s)[1] = s[1]
    <3>1. 1 \in 1..(n + 1)
      BY <1>7
    <3> QED BY <1>4, <3>1 DEF IsFlat
  <2>3. s[1] \o <<>> = s[1]
    BY <1>3
  <2>4. FlattenSeq(s) = s[1] /\ FlattenSeq(t) = <<>>
    <3>1. n + 1 = 1
      BY <1>7
    <3> QED BY <1>4, <1>5, <1>7, <2>1, <2>2, <3>1, Zenon
  <2> QED BY <1>2, <1>3, <2>3, <2>4, Zenon
<1>8. CASE n # 0
  <2>1. n \in 1..n
    BY <1>8
  <2>2. Flat(s)[n + 1] = s[1] \o Flat(t)[n]
    BY <1>6, <2>1
  <2> QED BY <1>2, <1>3, <1>4, <1>5, <1>8, <2>2, Zenon
<1> QED BY <1>7, <1>8

-----------------------------------------------------------------------------
(* Concatenation and prefixes *)

LEMMA CatType ==
  ASSUME NEW T, NEW p \in Seq(T), NEW q \in Seq(T)
  PROVE  Cat(p, q) \in Seq(T)
BY DEF Cat
LEMMA CatEmpty ==
  ASSUME NEW T, NEW p \in Seq(T)
  PROVE  Cat(p, <<>>) = p /\ Cat(<<>>, p) = p
BY DEF Cat
LEMMA CatHead ==
  ASSUME NEW T, NEW p \in Seq(T), NEW q \in Seq(T), q # <<>>
  PROVE  Cat(Cat(p, <<Head(q)>>), Tail(q)) = Cat(p, q)
<1> DEFINE first == <<Head(q)>>
           rest == Tail(q)
<1>1. first \in Seq(T) /\ rest \in Seq(T)
  OBVIOUS
<1>2. Cat(first, rest) = q
  BY DEF Cat
<1> HIDE DEF first, rest
<1>3. Cat(Cat(p, first), rest) = Cat(p, Cat(first, rest))
  BY <1>1, CatAssociates
<1> QED BY <1>2, <1>3 DEF first, rest

LEMMA CatCut ==
  ASSUME NEW T, NEW p \in Seq(T), NEW n \in 1..Len(p)
  PROVE  Cat(SubSeq(p, 1, n), SubSeq(p, n + 1, Len(p))) = p
BY DEF Cat
LEMMA CatAppend ==
  ASSUME NEW T, NEW p \in Seq(T), NEW q \in Seq(T), NEW e \in T
  PROVE  Cat(p, Append(q, e)) = Append(Cat(p, q), e)
BY DEF Cat
LEMMA IsOwnPrefix ==
  ASSUME NEW T, NEW p \in Seq(T)
  PROVE  IsPrefix(p, p)
BY DEF IsPrefix
LEMMA PrefixOfLonger ==
  ASSUME NEW T, NEW p \in Seq(T), NEW q \in Seq(T), NEW r \in Seq(T), IsPrefix(p, q)
  PROVE  IsPrefix(p, Cat(q, r))
BY DEF IsPrefix, Cat

-----------------------------------------------------------------------------
(***************************************************************************)
(* What has been typed is in one of four places (iot_client.c:77-97).  The  *)
(* invariant adds what it takes for msg to be free when fgets() fills it.   *)
(***************************************************************************)
MsgIsFree == sndPc \in {"created", "select", "fgets", "check"} => part = Nothing
NothingYet == life = "new" => typed = <<>> /\ tty = <<>> /\ stdio = <<>> /\ part = Nothing
LoginIsSent == Running => sent # <<>>
Conserved == TypeOK /\ MsgIsFree /\ NothingYet /\ LoginIsSent /\ NoPartLost

\* The four places in one sequence.
Places == Cat(Cat(Cat(Delivered, InHand), stdio), FlattenSeq(tty))

LEMMA PlacesAre ==
  NoPartLost <=> (Running /\ conn \in {"open", "shut"} => typed = Places)
BY DEF NoPartLost, Places, Cat

LEMMA NothingIsNoPart == Nothing \notin Parts /\ Nothing.kind = "plain"
BY DEF Nothing, Parts

Held == Parts \cup {Nothing}

LEMMA PlacesTyped ==
  ASSUME TypeOK
  PROVE  /\ InHand \in Seq(Held) /\ stdio \in Seq(Held) /\ tty \in Seq(Seq(Held))
         /\ FlattenSeq(tty) \in Seq(Held) /\ typed \in Seq(Held) /\ sent \in Seq(Messages)
         /\ sent # <<>> => Delivered \in Seq(Held)
<1>1. /\ part \in Held /\ typed \in Seq(Parts) /\ tty \in Seq(Seq(Parts) \ {<<>>}) /\ stdio \in Seq(Parts)
      /\ sent \in Seq(Messages)
  BY DEF TypeOK, Held
<1>2. \A q \in Seq(Parts) : q \in Seq(Held)
  BY DEF Held
<1>3. tty \in Seq(Seq(Held))
  BY <1>1, <1>2
<1>4. FlattenSeq(tty) \in Seq(Held)
  BY <1>3, FlattenType
<1>5. InHand \in Seq(Held)
  BY <1>1 DEF InHand
<1>6. sent # <<>> => Delivered \in Seq(Held)
  <2> SUFFICES ASSUME sent # <<>> PROVE Delivered \in Seq(Held)
    OBVIOUS
  <2>1. Len(sent) - 1 \in Nat /\ \A i \in 1..(Len(sent) - 1) : sent[i + 1] \in Messages
    BY <1>1
  <2>2. \A m \in Messages : m.part \in Held
    BY DEF Messages, Held
  <2>3. \A i \in 1..(Len(sent) - 1) : sent[i + 1].part \in Held
    BY <2>1, <2>2
  <2> HIDE DEF Held
  <2> QED BY <2>1, <2>3 DEF Delivered
<1> QED BY <1>1, <1>2, <1>3, <1>4, <1>5, <1>6

LEMMA ConservedInit == Init => Conserved
<1> SUFFICES ASSUME Init PROVE Conserved
  OBVIOUS
<1>1. TypeOK
  BY TypeInit
<1> QED BY <1>1 DEF Init, Conserved, MsgIsFree, NothingYet, LoginIsSent, NoPartLost, Running

\* A step that moves no part.
LEMMA PartsStay ==
  ASSUME Conserved, TypeOK', UNCHANGED <<typed, tty, stdio, sent, part>>,
         life' \in {life, "running", "exited", "killed", "broken"}, Running' => Running,
         conn' \in {"open", "shut"} => conn \in {"open", "shut"}, MsgIsFree'
  PROVE  Conserved'
<1>1. Places' = Places
  BY DEF Places, Delivered, InHand
<1>2. NoPartLost'
  BY <1>1, PlacesAre DEF Conserved, NoPartLost, Places, Cat
<1>3. NothingYet' /\ LoginIsSent'
  BY DEF Conserved, NothingYet, LoginIsSent
<1> QED BY <1>2, <1>3 DEF Conserved

LEMMA ConservedNext == Conserved /\ [Next]_vars => Conserved'
<1> SUFFICES ASSUME Conserved, [Next]_vars PROVE Conserved'
  OBVIOUS
<1>0. TypeOK /\ MsgIsFree /\ NothingYet /\ LoginIsSent /\ NoPartLost
  BY DEF Conserved
<1>T. TypeOK'
  BY <1>0, TypeNext
<1>P. /\ InHand \in Seq(Held) /\ stdio \in Seq(Held) /\ tty \in Seq(Seq(Held))
      /\ FlattenSeq(tty) \in Seq(Held) /\ typed \in Seq(Held) /\ sent \in Seq(Messages)
      /\ sent # <<>> => Delivered \in Seq(Held)
  BY <1>0, PlacesTyped
<1>I. NoPartLost' <=> (Running' /\ conn' \in {"open", "shut"} => typed' = Places')
  BY DEF NoPartLost, Places, Cat
<1> USE DEF input, output, toClient, sender, reader
<1>1. ASSUME NEW l \in Lines, Type(l) PROVE Conserved'
  <2> DEFINE parts == [i \in 1..Len(l) |-> [line |-> LastLine + 1, kind |-> l[i]]]
  <2>1. /\ tty' = Append(tty, parts) /\ typed' = Cat(typed, parts) /\ Running
        /\ UNCHANGED <<life, conn, sndPc, part, stdio, sent>> /\ parts \in Seq(Parts) \ {<<>>}
    BY <1>0, <1>1, LineTyped DEF Type, Cat, TypeOK, TypeInput
  <2>2. parts \in Seq(Held)
    BY <2>1 DEF Held
  <2> HIDE DEF parts
  <2>3. FlattenSeq(tty') = Cat(FlattenSeq(tty), parts)
    BY <1>P, <2>1, <2>2, FlattenAppend DEF Cat
  <2>4. ASSUME conn \in {"open", "shut"} PROVE typed' = Places'
    <3> DEFINE front == Cat(Cat(Delivered, InHand), stdio)
    <3>1. typed = Cat(front, FlattenSeq(tty)) /\ sent # <<>>
      BY <1>0, <2>1, <2>4, PlacesAre DEF Places, LoginIsSent
    <3>2. front \in Seq(Held)
      BY <1>P, <3>1, CatType
    <3>3. Places' = Cat(front, FlattenSeq(tty'))
      BY <2>1 DEF Places, Delivered, InHand
    <3> HIDE DEF front
    <3>4. Cat(Cat(front, FlattenSeq(tty)), parts) = Cat(front, Cat(FlattenSeq(tty), parts))
      BY <1>P, <2>2, <3>2, CatAssociates
    <3> QED BY <2>1, <2>3, <3>1, <3>3, <3>4
  <2> QED BY <1>0, <1>T, <1>I, <2>1, <2>4 DEF Conserved, MsgIsFree, NothingYet, LoginIsSent, Running
<1>2. CASE CloseTerminal \/ Interrupt
  BY <1>0, <1>2, <1>T, PartsStay DEF CloseTerminal, Interrupt, Running, MsgIsFree
<1>3. CASE ServerSays \/ ServerEnds
  BY <1>0, <1>3, <1>T, PartsStay DEF ServerSays, ServerEnds, Running, MsgIsFree
<1>4. CASE Start
  <2>1. /\ typed = <<>> /\ tty = <<>> /\ stdio = <<>> /\ part = Nothing
        /\ UNCHANGED <<typed, tty, stdio, part, sndPc>>
    BY <1>0, <1>4 DEF Start, NothingYet
  <2>2. Running' => sent' = <<Login>>
    BY <1>4 DEF Start, Running
  <2>3. NoPartLost'
    <3> SUFFICES ASSUME Running' PROVE typed' = Delivered' \o InHand' \o stdio' \o FlattenSeq(tty')
      BY DEF NoPartLost
    <3>1. Delivered' = <<>>
      <4>1. Len(sent') - 1 = 0
        BY <2>2
      <4>2. Delivered' = [i \in 1..(Len(sent') - 1) |-> sent'[i + 1].part]
        BY DEF Delivered
      <4>3. Delivered' = [i \in 1..0 |-> sent'[i + 1].part]
        BY <4>1, <4>2
      <4> QED BY <4>3
    <3>2. InHand' = <<>> /\ stdio' = <<>> /\ tty' = <<>> /\ typed' = <<>>
      BY <2>1 DEF InHand
    <3>3. FlattenSeq(tty') = <<>>
      BY <3>2 DEF FlattenSeq
    <3> QED BY <3>1, <3>2, <3>3
  <2> QED BY <1>0, <1>T, <1>4, <2>1, <2>2, <2>3 DEF Start, Conserved, MsgIsFree, NothingYet, LoginIsSent
<1>5. CASE CreateSender \/ Join
  BY <1>0, <1>5, <1>T, PartsStay DEF CreateSender, Join, Running, MsgIsFree
<1>6. CASE Select \/ Load \/ Check
  BY <1>0, <1>6, <1>T, PartsStay DEF Select, Load, Check, Running, MsgIsFree
<1>7. CASE Fgets
  <2>1. /\ Running /\ part = Nothing /\ sent # <<>> /\ UNCHANGED <<life, conn, typed, sent>>
        /\ sndPc' \in {"load", "ended"}
    BY <1>0, <1>7 DEF Fgets, MsgIsFree, LoginIsSent
  <2> DEFINE D == Delivered
  <2>2. D \in Seq(Held) /\ InHand = <<>> /\ Delivered' = D
    BY <1>P, <2>1 DEF InHand, Delivered
  <2> HIDE DEF D
  <2>3. ASSUME conn \in {"open", "shut"} PROVE typed' = Places'
    <3>1. typed = Cat(Cat(Cat(D, <<>>), stdio), FlattenSeq(tty))
      BY <1>0, <2>1, <2>2, <2>3, PlacesAre DEF Places, D
    <3>2. typed = Cat(Cat(D, stdio), FlattenSeq(tty))
      BY <2>2, <3>1, CatEmpty
    <3>3. Places' = Cat(Cat(Cat(D, InHand'), stdio'), FlattenSeq(tty'))
      BY <2>2 DEF Places
    <3>4. CASE stdio # <<>> /\ part' = Head(stdio) /\ stdio' = Tail(stdio) /\ UNCHANGED tty
      <4>1. Head(stdio) \in Parts
        BY <1>0, <3>4, HeadAndTail DEF TypeOK
      <4>2. InHand' = <<Head(stdio)>> /\ <<Head(stdio)>> \in Seq(Held) /\ Tail(stdio) \in Seq(Held)
        BY <1>P, <3>4, <4>1, NothingIsNoPart DEF InHand, Held
      <4>3. Cat(Cat(D, <<Head(stdio)>>), Tail(stdio)) = Cat(D, stdio)
        BY <1>P, <2>2, <3>4, CatHead
      <4> QED BY <2>1, <3>2, <3>3, <3>4, <4>2, <4>3
    <3>5. CASE stdio = <<>> /\ tty # <<>> /\ part' = Head(Head(tty)) /\ stdio' = Tail(Head(tty)) /\ tty' = Tail(tty)
      <4> DEFINE first == Head(tty)
      <4>1. first \in Seq(Parts) \ {<<>>}
        BY <1>0, <3>5, HeadAndTail DEF TypeOK
      <4>2. FlattenSeq(tty) = Cat(first, FlattenSeq(Tail(tty)))
        BY <1>P, <3>5, FlattenHead DEF Cat
      <4>3. Tail(tty) \in Seq(Seq(Held))
        BY <1>P, <3>5
      <4>4. FlattenSeq(Tail(tty)) \in Seq(Held)
        BY <4>3, FlattenType
      <4> HIDE DEF first
      <4>5. first \in Seq(Held) /\ first # <<>> /\ Head(first) \in Parts
        BY <4>1, HeadAndTail DEF Held
      <4>6. InHand' = <<Head(first)>> /\ <<Head(first)>> \in Seq(Held) /\ Tail(first) \in Seq(Held)
        BY <3>5, <4>5, NothingIsNoPart DEF InHand, Held, first
      <4>7. Cat(Cat(D, <<Head(first)>>), Tail(first)) = Cat(D, first)
        BY <2>2, <4>5, CatHead
      <4>8. Cat(Cat(D, first), FlattenSeq(Tail(tty))) = Cat(D, Cat(first, FlattenSeq(Tail(tty))))
        BY <2>2, <4>4, <4>5, CatAssociates
      <4>9. typed = Cat(D, FlattenSeq(tty))
        BY <2>2, <3>2, <3>5, CatEmpty
      <4>10. Places' = Cat(Cat(D, first), FlattenSeq(Tail(tty)))
        BY <3>3, <3>5, <4>6, <4>7 DEF first
      <4> QED BY <2>1, <4>2, <4>8, <4>9, <4>10
    <3>6. CASE part' = Nothing /\ UNCHANGED <<stdio, tty>>
      <4>1. InHand' = <<>>
        BY <3>6 DEF InHand
      <4> QED BY <2>1, <3>1, <3>3, <3>6, <4>1
    <3> QED BY <1>7, <3>4, <3>5, <3>6 DEF Fgets, NextPart
  <2> QED BY <1>0, <1>T, <1>I, <2>1, <2>3 DEF Conserved, MsgIsFree, NothingYet, LoginIsSent, Running
<1>8. CASE Write
  <2>1. /\ Running /\ sent # <<>> /\ UNCHANGED <<typed, stdio, tty>> /\ part' = Nothing
        /\ sndPc' \in {"select", "write", "ended"} /\ life' \in {life, "broken"}
        /\ sndPc' = "write" => life' = "broken"
    BY <1>0, <1>8 DEF Write, LoginIsSent
  <2>2. CASE conn \in {"open", "shut"} /\ sent' = (IF part = Nothing THEN sent ELSE Append(sent, Addressed(part)))
             /\ UNCHANGED <<life, conn>>
    <3>1. typed = Cat(Cat(Cat(Delivered, InHand), stdio), FlattenSeq(tty))
      BY <1>0, <2>1, <2>2, PlacesAre DEF Places
    <3>2. InHand' = <<>>
      BY <2>1 DEF InHand
    <3>3. Delivered \in Seq(Held)
      BY <1>P, <2>1
    <3>4. Delivered' = Cat(Delivered, InHand) /\ sent' # <<>>
      <4>1. CASE part = Nothing
        <5>1. InHand = <<>> /\ Delivered' = Delivered
          BY <2>2, <4>1 DEF InHand, Delivered
        <5> QED BY <2>1, <2>2, <3>3, <4>1, <5>1, CatEmpty
      <4>2. CASE part # Nothing
        <5>1. sent' = Append(sent, Addressed(part)) /\ InHand = <<part>> /\ Addressed(part).part = part
          BY <2>2, <4>2 DEF InHand, Addressed
        <5>2. sent \in Seq(Messages) /\ Len(sent) \in Nat \ {0} /\ Len(sent') = Len(sent) + 1
              /\ sent'[Len(sent) + 1] = Addressed(part) /\ \A i \in 1..Len(sent) : sent'[i] = sent[i]
          BY <1>P, <2>1, <5>1
        <5> DEFINE n == Len(sent) - 1
        <5>3. n \in Nat /\ Len(sent') - 1 = n + 1 /\ n + 1 = Len(sent)
          BY <5>2
        <5>4. \A i \in 1..n : sent'[i + 1] = sent[i + 1]
          BY <5>2, <5>3
        <5>5. Delivered' = [i \in 1..(n + 1) |-> sent'[i + 1].part] /\ Delivered = [i \in 1..n |-> sent[i + 1].part]
          BY <5>3 DEF Delivered
        <5>6. sent'[(n + 1) + 1].part = part
          BY <5>1, <5>2, <5>3
        <5> HIDE DEF n
        <5>7. Delivered' = Append(Delivered, part)
          BY <5>3, <5>4, <5>5, <5>6
        <5>8. Cat(Delivered, <<part>>) = Append(Delivered, part)
          BY <3>3 DEF Cat
        <5>9. sent' # <<>>
          BY <1>P, <5>1
        <5> QED BY <5>1, <5>7, <5>8, <5>9
      <4> QED BY <4>1, <4>2
    <3>5. Delivered' \in Seq(Held)
      BY <1>P, <3>3, <3>4, CatType
    <3>6. typed' = Places'
      <4>1. Cat(Delivered', InHand') = Delivered'
        BY <3>2, <3>5, CatEmpty
      <4> QED BY <2>1, <3>1, <3>4, <4>1 DEF Places
    <3> QED BY <1>0, <1>T, <1>I, <2>1, <2>2, <3>4, <3>6 DEF Conserved, MsgIsFree, NothingYet, LoginIsSent, Running
  <2>3. CASE conn' \notin {"open", "shut"} /\ UNCHANGED sent
    BY <1>0, <1>T, <2>1, <2>3 DEF Conserved, MsgIsFree, NothingYet, LoginIsSent, Running, NoPartLost
  <2> QED BY <1>8, <2>2, <2>3 DEF Write
<1>9. CASE RosInit \/ Read \/ ReadEnds \/ Publish \/ Sleep
  BY <1>0, <1>9, <1>T, PartsStay DEF RosInit, Read, ReadEnds, Publish, Sleep, Running, MsgIsFree
<1>10. ASSUME NEW n \in 1..MaxSaid, ReadReturns(n) PROVE Conserved'
  BY <1>0, <1>10, <1>T, PartsStay DEF ReadReturns, Running, MsgIsFree
<1>11. CASE UNCHANGED vars
  BY <1>0, <1>11, <1>T, PartsStay DEF vars, Running, MsgIsFree
<1> QED BY <1>1, <1>2, <1>3, <1>4, <1>5, <1>6, <1>7, <1>8, <1>9, <1>10, <1>11
        DEF Next, User, Server, Main, SendMsg, RecvMsg

(***************************************************************************)
(* While the server listens, each part of what was typed is sent, in msg,   *)
(* in stdio or in the terminal, in the order in which it was typed          *)
(* (iot_client.c:77-97): for any lines, however the threads take turns.     *)
(***************************************************************************)
THEOREM EveryPartIsKept == Spec => []NoPartLost
<1>1. Conserved => NoPartLost
  BY DEF Conserved
<1> QED BY <1>1, ConservedInit, ConservedNext, PTL DEF Spec

-----------------------------------------------------------------------------
(***************************************************************************)
(* What is published is what was heard (iot_client.cpp:149-158).  Between   *)
(* printing and publishing, batch is what the topic lacks.                  *)
(***************************************************************************)
Numbered == heard \o fromServer = [i \in 1..said |-> i]
Behind ==
  /\ IsPrefix(FlattenSeq(published), heard)
  /\ ok /\ program.publishes /\ rcvPc # "publish" => FlattenSeq(published) = heard
  /\ ok /\ rcvPc = "publish" => Cat(FlattenSeq(published), batch) = heard
Prepared ==
  /\ ok => program.publishes
  /\ life = "new" => rcvPc = "created"
  /\ rcvPc = "init" => program.publishes
  /\ rcvPc \in {"created", "init"} => ~ok /\ heard = <<>> /\ published = <<>>
Relayed == TypeOK /\ Numbered /\ Behind /\ Prepared

LEMMA RelayedSays == Relayed => PublishedAsHeard
BY DEF Relayed, Numbered, Behind, PublishedAsHeard

LEMMA RelayedInit == Init => Relayed
<1> SUFFICES ASSUME Init PROVE Relayed
  OBVIOUS
<1>1. TypeOK
  BY TypeInit
<1>2. heard = <<>> /\ fromServer = <<>> /\ published = <<>> /\ said = 0
  BY DEF Init
<1>3. FlattenSeq(published) = <<>>
  BY <1>2 DEF FlattenSeq
<1>4. IsPrefix(FlattenSeq(published), heard)
  <2>1. IsPrefix(<<>>, <<>>)
    BY DEF IsPrefix
  <2> QED BY <1>2, <1>3, <2>1
<1>5. Numbered
  BY <1>2 DEF Numbered
<1> QED BY <1>1, <1>3, <1>4, <1>5 DEF Init, Relayed, Behind, Prepared

LEMMA RelayedNext == Relayed /\ [Next]_vars => Relayed'
<1> SUFFICES ASSUME Relayed, [Next]_vars PROVE Relayed'
  OBVIOUS
<1>0. TypeOK /\ Numbered /\ Behind /\ Prepared
  BY DEF Relayed
<1>T. TypeOK'
  BY <1>0, TypeNext
<1> DEFINE M == 1..MaxSaid
<1>P. /\ heard \in Seq(M) /\ fromServer \in Seq(M) /\ batch \in Seq(M) /\ published \in Seq(Seq(M))
      /\ said \in 0..MaxSaid /\ MaxSaid \in Nat
  BY <1>0, ClientAssumption DEF TypeOK
<1>F. FlattenSeq(published) \in Seq(M)
  BY <1>P, FlattenType
<1> HIDE DEF M
<1> USE DEF input, output, toClient, sender, reader
<1>1. CASE User
  <2>1. UNCHANGED <<program, rcvPc, batch, fromServer, said, heard, published>> /\ (ok' => ok)
        /\ (life' = "new" => life = "new")
    BY <1>1 DEF User, Type, CloseTerminal, Interrupt, Running
  <2> QED BY <1>0, <1>T, <2>1 DEF Relayed, Numbered, Behind, Prepared
<1>2. CASE ServerSays
  <2>1. /\ UNCHANGED <<program, life, rcvPc, batch, ok, heard, published>> /\ said' = said + 1
        /\ fromServer' = Append(fromServer, said + 1) /\ said + 1 \in M
    BY <1>2, <1>P DEF ServerSays, M
  <2>2. Cat(heard, fromServer') = Append(Cat(heard, fromServer), said + 1)
    BY <1>P, <2>1, CatAppend
  <2>3. Cat(heard, fromServer) = [i \in 1..said |-> i]
    BY <1>0 DEF Numbered, Cat
  <2>4. Append([i \in 1..said |-> i], said + 1) = [i \in 1..(said + 1) |-> i]
    BY <1>P
  <2>5. Numbered'
    BY <2>1, <2>2, <2>3, <2>4 DEF Numbered, Cat
  <2> QED BY <1>0, <1>T, <2>1, <2>5 DEF Relayed, Behind, Prepared
<1>3. CASE ServerEnds
  BY <1>0, <1>T, <1>3 DEF ServerEnds, Relayed, Numbered, Behind, Prepared
<1>4. CASE Start
  <2>1. /\ UNCHANGED <<program, batch, fromServer, said, ok, heard, published>> /\ life' # "new"
        /\ rcvPc = "created" /\ rcvPc' \in {"created", "init", "read"} /\ (rcvPc' = "init" => program.publishes)
    BY <1>0, <1>4 DEF Start, Prepared
  <2> QED BY <1>0, <1>T, <2>1 DEF Relayed, Numbered, Behind, Prepared
<1>5. CASE CreateSender \/ Join \/ SendMsg
  <2>1. UNCHANGED <<program, rcvPc, batch, fromServer, said, ok, heard, published>> /\ life' # "new"
    BY <1>5 DEF CreateSender, Join, SendMsg, Select, Fgets, Load, Write, Check, Running
  <2> QED BY <1>0, <1>T, <2>1 DEF Relayed, Numbered, Behind, Prepared
<1>6. CASE RosInit
  <2>1. /\ UNCHANGED <<program, batch, fromServer, said, heard, published>> /\ life' # "new" /\ program.publishes
        /\ rcvPc' = "read" /\ heard = <<>> /\ published = <<>>
    BY <1>0, <1>6 DEF RosInit, Prepared, Running
  <2>2. FlattenSeq(published) = heard
    BY <2>1 DEF FlattenSeq
  <2> QED BY <1>0, <1>T, <2>1, <2>2 DEF Relayed, Numbered, Behind, Prepared
<1>7. CASE Read \/ ReadEnds \/ Sleep
  <2>1. /\ UNCHANGED <<program, batch, ok, fromServer, said, heard, published>> /\ life' # "new"
        /\ rcvPc \in {"read", "blocked", "sleep"} /\ rcvPc' \in {"read", "blocked", "ended"}
    BY <1>7 DEF Read, ReadEnds, EndReader, Sleep, Running
  <2> QED BY <1>0, <1>T, <2>1 DEF Relayed, Numbered, Behind, Prepared
<1>8. ASSUME NEW n \in 1..MaxSaid, ReadReturns(n) PROVE Relayed'
  <2> DEFINE b == SubSeq(fromServer, 1, n)
             r == SubSeq(fromServer, n + 1, Len(fromServer))
  <2>1. /\ batch' = b /\ fromServer' = r /\ heard' = Cat(heard, b) /\ n \in 1..Len(fromServer)
        /\ rcvPc = "blocked" /\ rcvPc' = (IF program.publishes /\ ok THEN "publish" ELSE "read")
        /\ UNCHANGED <<program, ok, said, published>> /\ life' # "new"
    BY <1>8 DEF ReadReturns, Cat, Running
  <2>2. b \in Seq(M) /\ r \in Seq(M)
    BY <1>P, <2>1, Cut
  <2>3. Cat(b, r) = fromServer
    BY <1>P, <2>1, CatCut
  <2> HIDE DEF b, r
  <2>4. Numbered'
    <3>1. Cat(Cat(heard, b), r) = Cat(heard, Cat(b, r))
      BY <1>P, <2>2, CatAssociates
    <3> QED BY <1>0, <2>1, <2>3, <3>1 DEF Numbered, Cat
  <2>5. IsPrefix(FlattenSeq(published), Cat(heard, b))
    BY <1>0, <1>F, <1>P, <2>2, PrefixOfLonger DEF Behind
  <2>6. Behind'
    <3>1. CASE ok
      <4>1. program.publishes /\ FlattenSeq(published) = heard /\ rcvPc' = "publish"
        BY <1>0, <2>1, <3>1 DEF Behind, Prepared
      <4> QED BY <2>1, <2>5, <4>1 DEF Behind
    <3>2. CASE ~ok
      BY <2>1, <2>5, <3>2 DEF Behind
    <3> QED BY <3>1, <3>2
  <2> QED BY <1>0, <1>T, <2>1, <2>4, <2>6 DEF Relayed, Prepared
<1>9. CASE Publish
  <2>1. /\ rcvPc = "publish" /\ rcvPc' = "sleep" /\ UNCHANGED <<program, batch, ok, fromServer, said, heard>>
        /\ published' = (IF ok THEN Append(published, batch) ELSE published) /\ life' # "new"
    BY <1>9 DEF Publish, Running
  <2>2. CASE ok
    <3>1. FlattenSeq(published') = Cat(FlattenSeq(published), batch)
      BY <1>P, <2>1, <2>2, FlattenAppend DEF Cat
    <3>2. FlattenSeq(published') = heard
      BY <1>0, <2>1, <2>2, <3>1 DEF Behind
    <3>3. IsPrefix(heard, heard)
      BY <1>P, IsOwnPrefix
    <3> QED BY <1>0, <1>T, <2>1, <3>2, <3>3 DEF Relayed, Numbered, Behind, Prepared
  <2>3. CASE ~ok
    BY <1>0, <1>T, <2>1, <2>3 DEF Relayed, Numbered, Behind, Prepared
  <2> QED BY <2>2, <2>3
<1>10. CASE UNCHANGED vars
  BY <1>0, <1>T, <1>10 DEF vars, Relayed, Numbered, Behind, Prepared
<1> QED BY <1>1, <1>2, <1>3, <1>4, <1>5, <1>6, <1>7, <1>8, <1>9, <1>10
        DEF Next, Server, Main, RecvMsg

(***************************************************************************)
(* What iot_client.cpp publishes is what it heard, in order and nothing     *)
(* twice, up to the last message unless Ctrl-C has come                     *)
(* (iot_client.cpp:149-158), for any number of messages.                    *)
(***************************************************************************)
THEOREM PublishesWhatItHeard == Spec => []PublishedAsHeard
BY RelayedInit, RelayedNext, RelayedSays, PTL DEF Spec
=============================================================================
