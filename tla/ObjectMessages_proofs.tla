----------------------- MODULE ObjectMessages_proofs ------------------------
(***************************************************************************)
(* Proofs that DBusType reads every value of a message for what it means,  *)
(* however deep variants, arrays, structures and dictionaries are nested,  *)
(* and that it so understands what bluez tells of any objects; and that    *)
(* dbus_message_append_dict writes what it is given.  A value is readable  *)
(* if it is read for its meaning wherever it stands in whatever message:   *)
(* basic values are, and what is built of readable values is.              *)
(***************************************************************************)
EXTENDS ObjectMessages, SequenceTheorems, FiniteSetTheorems, WellFoundedInduction, TLAPS

-----------------------------------------------------------------------------
(* Messages, and what stands in them.                                      *)

(* What a basic value of a message can be, and the marks of a message.     *)
Words == {"Adapter1", "Device1", "Address", "Other", "Properties", "uuid", "x", "Name",
          "obd-serial", "Service", "SPP", "Role", "client", "Channel", "AutoConnect", "Wide"}
Datum == Objects \cup Addresses \cup Words \cup Int \cup BOOLEAN \cup STRING
BasicTypes == {"y", "b", "n", "q", "i", "h", "u", "x", "t", "d", "s", "o"}
ContainerTypes == {"v", "a", "r", "e"}
Contents == {"", "{}"}
Mark == {Basic(type, of) : type \in BasicTypes, of \in Datum}
        \cup {Open(type, contents) : type \in ContainerTypes, contents \in Contents}
        \cup {Close}

(* The marks stand in the message from a position on; and the position     *)
(* behind them.                                                            *)
Stands(marks, msg, at) ==
    /\ at \in Nat /\ at >= 1 /\ at - 1 + Len(marks) <= Len(msg)
    /\ \A k \in 1..Len(marks) : msg[at - 1 + k] = marks[k]
After(at, marks) == at + Len(marks)

(* Marks are marks.                                                        *)
LEMMA MarkIs ==
  /\ \A type \in BasicTypes, of \in Datum : Basic(type, of) \in Mark
  /\ \A type \in ContainerTypes, contents \in Contents : Open(type, contents) \in Mark
  /\ Close \in Mark
BY DEF Mark

(* A sequence of one mark.                                                 *)
LEMMA OneMark == ASSUME NEW m \in Mark PROVE <<m>> \in Seq(Mark) /\ Len(<<m>>) = 1 /\ <<m>>[1] = m
OBVIOUS

(* Where two pieces stand one after the other, each of them stands.        *)
LEMMA StandsConcat ==
  ASSUME NEW msg \in Seq(Mark), NEW a \in Seq(Mark), NEW b \in Seq(Mark), NEW at,
         Stands(a \o b, msg, at)
  PROVE  /\ Stands(a, msg, at) /\ Stands(b, msg, After(at, a))
         /\ After(at, a \o b) = After(After(at, a), b)
<1>l. PICK l \in Nat : l = Len(msg)
  OBVIOUS
<1>m. PICK m \in Nat : m = Len(a)
  OBVIOUS
<1>n. PICK n \in Nat : n = Len(b)
  OBVIOUS
<1>c. PICK c \in Seq(Mark) : c = a \o b
  <2>1. a \o b \in Seq(Mark)
    BY ConcatProperties
  <2> QED
    BY <2>1
<1>0. \A i \in 1..(m + n) : c[i] = IF i <= m THEN a[i] ELSE b[i - m]
  <2>1. \A i \in 1..(Len(a) + Len(b)) : (a \o b)[i] = IF i <= Len(a) THEN a[i] ELSE b[i - Len(a)]
    BY ConcatProperties
  <2> QED
    BY <1>c, <1>m, <1>n, <2>1
<1>5. Len(c) = m + n
  BY <1>c, <1>m, <1>n, ConcatProperties
<1>3. \A k \in 1..m : c[k] = a[k]
  BY <1>0, m \in Nat, n \in Nat
<1>4. \A k \in 1..n : c[m + k] = b[k]
  <2>1. ASSUME NEW k \in 1..n PROVE c[m + k] = b[k]
    <3>i. PICK i : i = m + k
      OBVIOUS
    <3>1. i \in 1..(m + n) /\ ~(i <= m) /\ i - m = k
      BY <3>i
    <3>2. c[i] = b[i - m]
      BY <1>0, <3>1
    <3> QED
      BY <3>1, <3>2, <3>i
  <2> QED
    BY <2>1
<1>2. /\ at \in Nat /\ at >= 1 /\ at - 1 + (m + n) <= l
      /\ \A k \in 1..(m + n) : msg[at - 1 + k] = c[k]
  BY <1>5, <1>l, <1>c DEF Stands
<1>6. Stands(a, msg, at)
  <2>1. \A k \in 1..m : msg[at - 1 + k] = a[k]
    BY <1>2, <1>3
  <2>2. at - 1 + m <= l
    BY <1>2
  <2> QED
    BY <1>2, <1>m, <1>l, <2>1, <2>2 DEF Stands
<1>7. Stands(b, msg, at + m)
  <2>1. ASSUME NEW k \in 1..n PROVE msg[(at + m) - 1 + k] = b[k]
    <3>1. m + k \in 1..(m + n) /\ at - 1 + (m + k) = (at + m) - 1 + k
      BY <1>2
    <3> QED
      BY <1>2, <1>4, <3>1
  <2>2. at + m \in Nat /\ at + m >= 1 /\ (at + m) - 1 + n <= l
    BY <1>2
  <2> QED
    BY <1>n, <1>l, <2>1, <2>2 DEF Stands
<1>8. at + (m + n) = (at + m) + n
  BY <1>2
<1> QED
  BY <1>5, <1>6, <1>7, <1>8, <1>m, <1>n, <1>c DEF After

(* Where one mark stands.                                                  *)
LEMMA StandsOne ==
  ASSUME NEW msg \in Seq(Mark), NEW m \in Mark, NEW at, Stands(<<m>>, msg, at)
  PROVE  at \in 1..Len(msg) /\ msg[at] = m /\ After(at, <<m>>) = at + 1
<1>l. PICK l \in Nat : l = Len(msg)
  OBVIOUS
<1> DEFINE s == <<m>>
<1>1. Len(s) = 1 /\ s[1] = m
  OBVIOUS
<1>2. Stands(s, msg, at)
  OBVIOUS
<1> HIDE DEF s
<1>3. at \in Nat /\ at >= 1 /\ at - 1 + 1 <= l /\ \A k \in 1..1 : msg[at - 1 + k] = s[k]
  BY <1>1, <1>2, <1>l DEF Stands
<1>4. at \in 1..l /\ at - 1 + 1 = at /\ 1 \in 1..1
  BY <1>3
<1>5. msg[at] = m
  BY <1>1, <1>3, <1>4
<1>6. After(at, s) = at + 1
  BY <1>1 DEF After
<1> QED
  BY <1>4, <1>5, <1>6, <1>l DEF s

(* Where a container stands: it begins, holds what it holds, and ends.     *)
ContainerAt(msg, at, type, contents, marks) ==
    /\ at \in 1..Len(msg) /\ msg[at] = Open(type, contents)
    /\ Stands(marks, msg, at + 1)
    /\ After(at + 1, marks) \in 1..Len(msg) /\ msg[After(at + 1, marks)] = Close
    /\ After(at, Container(type, contents, marks)) = After(at + 1, marks) + 1

(* A container that stands somewhere stands there with what it holds.      *)
LEMMA StandsContainer ==
  ASSUME NEW msg \in Seq(Mark), NEW type \in ContainerTypes, NEW contents \in Contents,
         NEW marks \in Seq(Mark), NEW at, Stands(Container(type, contents, marks), msg, at)
  PROVE  ContainerAt(msg, at, type, contents, marks)
<1>o. PICK o \in Mark : o = Open(type, contents)
  <2>1. Open(type, contents) \in Mark
    BY MarkIs
  <2> QED
    BY <2>1
<1>c. PICK c \in Mark : c = Close
  <2>1. Close \in Mark
    BY MarkIs
  <2> QED
    BY <2>1
<1>p. PICK p \in Seq(Mark) : p = <<o>>
  <2>1. <<o>> \in Seq(Mark)
    BY OneMark
  <2> QED
    BY <2>1
<1>q. PICK q \in Seq(Mark) : q = <<c>>
  <2>1. <<c>> \in Seq(Mark)
    BY OneMark
  <2> QED
    BY <2>1
<1>r. PICK r \in Seq(Mark) : r = marks \o q
  <2>1. marks \o q \in Seq(Mark)
    BY ConcatProperties
  <2> QED
    BY <2>1
<1>1. Container(type, contents, marks) = p \o r
  <2>1. (p \o marks) \o q = p \o (marks \o q)
    BY ConcatAssociative, SMTT(60)
  <2>2. \/ Container(type, contents, marks) = (p \o marks) \o q
        \/ Container(type, contents, marks) = p \o (marks \o q)
    BY <1>o, <1>c, <1>p, <1>q DEF Container
  <2> QED
    BY <1>r, <2>1, <2>2
<1>2. Stands(p \o r, msg, at)
  BY <1>1
<1>3. /\ Stands(p, msg, at) /\ Stands(r, msg, After(at, p))
      /\ After(at, p \o r) = After(After(at, p), r)
  BY <1>2, StandsConcat
<1>4. at \in 1..Len(msg) /\ msg[at] = o /\ After(at, p) = at + 1
  BY <1>3, <1>p, StandsOne
<1>5. Stands(marks \o q, msg, at + 1)
  BY <1>3, <1>4, <1>r
<1>6. /\ Stands(marks, msg, at + 1) /\ Stands(q, msg, After(at + 1, marks))
      /\ After(at + 1, marks \o q) = After(After(at + 1, marks), q)
  BY <1>5, StandsConcat
<1>7. /\ After(at + 1, marks) \in 1..Len(msg) /\ msg[After(at + 1, marks)] = c
      /\ After(After(at + 1, marks), q) = After(at + 1, marks) + 1
  BY <1>6, <1>q, StandsOne
<1>8. After(at, p \o r) = After(at + 1, marks) + 1
  BY <1>3, <1>4, <1>6, <1>7, <1>r
<1> QED
  BY <1>1, <1>4, <1>6, <1>7, <1>8, <1>o, <1>c DEF ContainerAt

(* A container is two marks longer than what it holds.                     *)
LEMMA ContainerLength ==
  ASSUME NEW type \in ContainerTypes, NEW contents \in Contents, NEW marks \in Seq(Mark)
  PROVE  /\ Container(type, contents, marks) \in Seq(Mark)
         /\ Len(Container(type, contents, marks)) = Len(marks) + 2
         /\ Container(type, contents, marks)[1] = Open(type, contents)
<1>o. PICK o \in Mark : o = Open(type, contents)
  <2>1. Open(type, contents) \in Mark
    BY MarkIs
  <2> QED
    BY <2>1
<1>c. PICK c \in Mark : c = Close
  <2>1. Close \in Mark
    BY MarkIs
  <2> QED
    BY <2>1
<1>1. Container(type, contents, marks) = (<<o>> \o marks) \o <<c>>
  <2>1. (<<o>> \o marks) \o <<c>> = <<o>> \o (marks \o <<c>>)
    BY OneMark, ConcatAssociative
  <2> QED
    BY <2>1, <1>o, <1>c DEF Container
<1>2. (<<o>> \o marks) \o <<c>> \in Seq(Mark)
  OBVIOUS
<1>3. Len((<<o>> \o marks) \o <<c>>) = Len(marks) + 2
  OBVIOUS
<1>4. ((<<o>> \o marks) \o <<c>>)[1] = o
  OBVIOUS
<1> QED
  BY <1>1, <1>2, <1>3, <1>4, <1>o

-----------------------------------------------------------------------------
(* Induction, with a set in the place of a predicate; by it, the loops and *)
(* the readings exist and are followed turn by turn.                       *)

(* Every set of natural numbers that is not empty has a least element.     *)
LEMMA LeastElement ==
  ASSUME NEW T \in SUBSET Nat, T # {}
  PROVE  \E n \in T : \A m \in T : n <= m
<1> DEFINE R == OpToRel(<, Nat)
<1>1. IsWellFoundedOn(R, Nat)
  BY NatLessThanWellFounded
<1>2. \A m, n \in Nat : m < n => <<m, n>> \in R
  BY DEF OpToRel
<1> HIDE DEF R
<1>3. PICK n \in T : \A m \in T : ~(<<m, n>> \in R)
  BY <1>1, WFMin
<1>4. \A m \in T : ~(m < n) /\ m \in Nat /\ n \in Nat
  BY <1>2, <1>3
<1>5. \A m \in T : n <= m
  BY <1>4
<1> QED
  BY <1>5

(* A set that has 0, and with each number below N the next, has all of     *)
(* them up to N.                                                           *)
LEMMA UpTo ==
  ASSUME NEW N \in Nat, NEW S, 0 \in S, \A n \in 1..N : n - 1 \in S => n \in S
  PROVE  0..N \subseteq S
<1> DEFINE T == 0..N \ S
<1> SUFFICES ASSUME T # {} PROVE FALSE
  OBVIOUS
<1>0. T \in SUBSET Nat
  OBVIOUS
<1>1. PICK n \in T : \A m \in T : n <= m
  BY <1>0, LeastElement
<1>2. n \in 1..N
  BY <1>1
<1>3. n - 1 \in 0..N /\ n - 1 \notin T
  BY <1>1, <1>2
<1> QED
  BY <1>1, <1>2, <1>3

(* The turns of a loop, the first N of them.                               *)
IsTurns(f, N, msg, one) ==
    f = [n \in 0..N |-> IF n = 0 THEN <<>> ELSE Turn(msg, one, f[n - 1])]

(* A loop takes any number of turns.                                       *)
LEMMA TurnsExist == ASSUME NEW msg, NEW one, NEW N \in Nat PROVE \E f : IsTurns(f, N, msg, one)
<1> DEFINE S == {n \in 0..N : \E f : IsTurns(f, n, msg, one)}
<1>1. 0 \in S
  <2>1. IsTurns([n \in 0..0 |-> <<>>], 0, msg, one)
    BY DEF IsTurns
  <2> QED
    BY <2>1
<1>2. ASSUME NEW n \in 1..N, n - 1 \in S PROVE n \in S
  <2>1. PICK f : IsTurns(f, n - 1, msg, one)
    BY <1>2
  <2> DEFINE g == [m \in 0..n |-> IF m = n THEN Turn(msg, one, f[n - 1]) ELSE f[m]]
  <2>2. \A m \in 0..n - 1 : g[m] = f[m]
    OBVIOUS
  <2>3. \A m \in 0..n - 1 : f[m] = IF m = 0 THEN <<>> ELSE Turn(msg, one, f[m - 1])
    BY <2>1 DEF IsTurns
  <2>4. ASSUME NEW m \in 0..n PROVE g[m] = IF m = 0 THEN <<>> ELSE Turn(msg, one, g[m - 1])
    <3>1. CASE m = n
      <4>1. g[m] = Turn(msg, one, f[n - 1]) /\ m # 0 /\ n - 1 \in 0..n - 1
        BY <3>1
      <4>2. g[n - 1] = f[n - 1]
        BY <2>2, <4>1
      <4> QED
        BY <3>1, <4>1, <4>2
    <3>2. CASE m # n
      <4>1. m \in 0..n - 1 /\ (m # 0 => m - 1 \in 0..n - 1)
        BY <3>2
      <4>2. g[m] = f[m] /\ (m # 0 => g[m - 1] = f[m - 1])
        BY <2>2, <4>1
      <4> QED
        BY <2>3, <4>1, <4>2
    <3> QED
      BY <3>1, <3>2
  <2>5. g = [m \in 0..n |-> g[m]]
    OBVIOUS
  <2> HIDE DEF g
  <2>6. IsTurns(g, n, msg, one)
    BY <2>4, <2>5 DEF IsTurns
  <2> QED
    BY <2>6
<1>3. 0..N \subseteq S
  <2> HIDE DEF S
  <2> QED
    BY <1>1, <1>2, UpTo
<1> QED
  BY <1>3

(* The turns of the loop Parts, all of them.                               *)
LoopOf(f, N, msg, one) ==
    /\ \A n \in 1..N : f[n] = Turn(msg, one, f[n - 1])
    /\ \A at : Parts(msg, one, at) = f[N][at]

(* That loop takes as many turns as the message has marks.                 *)
LEMMA PartsTurns ==
  ASSUME NEW msg, NEW one, Len(msg) \in Nat
  PROVE  \E f : LoopOf(f, Len(msg), msg, one)
<1>1. \E f : IsTurns(f, Len(msg), msg, one)
  BY TurnsExist
<1> DEFINE g == CHOOSE f : f = [n \in 0..Len(msg) |-> IF n = 0 THEN <<>>
                                  ELSE Turn(msg, one, f[n - 1])]
<1>2. g = [n \in 0..Len(msg) |-> IF n = 0 THEN <<>> ELSE Turn(msg, one, g[n - 1])]
  BY <1>1 DEF IsTurns
<1>3. \A at : Parts(msg, one, at) = g[Len(msg)][at]
  BY DEF Parts
<1> HIDE DEF g
<1>4. \A n \in 1..Len(msg) : g[n] = Turn(msg, one, g[n - 1])
  BY <1>2
<1> QED
  BY <1>3, <1>4 DEF LoopOf

-----------------------------------------------------------------------------
(* The readings of values nested less than N deep.                         *)
IsReadings(f, N, msg) ==
    f = [n \in 0..N |-> IF n = 0 THEN <<>>
                        ELSE [at \in 1..Len(msg) |-> ReadAt(msg, f[n - 1], at)]]

(* There are readings to any depth.                                        *)
LEMMA ReadingsExist == ASSUME NEW msg, NEW N \in Nat PROVE \E f : IsReadings(f, N, msg)
<1> DEFINE D(n, prev) == IF n = 0 THEN <<>> ELSE [at \in 1..Len(msg) |-> ReadAt(msg, prev, at)]
<1> DEFINE S == {n \in 0..N : \E f : IsReadings(f, n, msg)}
<1>1. 0 \in S
  <2>1. IsReadings([n \in 0..0 |-> <<>>], 0, msg)
    BY DEF IsReadings
  <2> QED
    BY <2>1
<1>2. ASSUME NEW n \in 1..N, n - 1 \in S PROVE n \in S
  <2>1. PICK f : IsReadings(f, n - 1, msg)
    BY <1>2
  <2>a. f = [m \in 0..n - 1 |-> D(m, f[m - 1])]
    BY <2>1 DEF IsReadings
  <2> HIDE DEF D
  <2> DEFINE g == [m \in 0..n |-> IF m = n THEN D(n, f[n - 1]) ELSE f[m]]
  <2>2. \A m \in 0..n - 1 : g[m] = f[m]
    OBVIOUS
  <2>3. \A m \in 0..n - 1 : f[m] = D(m, f[m - 1])
    BY <2>a
  <2>b. \A x, y : D(0, x) = D(0, y)
    BY DEF D
  <2>4. ASSUME NEW m \in 0..n PROVE g[m] = D(m, g[m - 1])
    <3>1. CASE m = n
      <4>1. g[m] = D(n, f[n - 1]) /\ m # 0 /\ n - 1 \in 0..n - 1
        BY <3>1
      <4>2. g[n - 1] = f[n - 1]
        BY <2>2, <4>1
      <4> QED
        BY <3>1, <4>1, <4>2
    <3>2. CASE m # n
      <4>1. m \in 0..n - 1 /\ (m # 0 => m - 1 \in 0..n - 1)
        BY <3>2
      <4>2. g[m] = f[m] /\ (m # 0 => g[m - 1] = f[m - 1])
        BY <2>2, <4>1
      <4>3. f[m] = D(m, f[m - 1])
        BY <2>3, <4>1
      <4> QED
        BY <2>b, <4>2, <4>3
    <3> QED
      BY <3>1, <3>2
  <2>5. g = [m \in 0..n |-> g[m]]
    OBVIOUS
  <2> HIDE DEF g
  <2>6. g = [m \in 0..n |-> D(m, g[m - 1])]
    BY <2>4, <2>5
  <2>7. IsReadings(g, n, msg)
    BY <2>6 DEF IsReadings, D
  <2> QED
    BY <2>7
<1>3. 0..N \subseteq S
  <2> HIDE DEF S
  <2> QED
    BY <1>1, <1>2, UpTo
<1> QED
  BY <1>3

(* What is read at a depth is read with what is read at the depth before.  *)
LEMMA ReadingsAre ==
  ASSUME NEW msg, Len(msg) \in Nat, NEW n \in 1..Len(msg)
  PROVE  Readings(msg)[n] = [at \in 1..Len(msg) |-> ReadAt(msg, Readings(msg)[n - 1], at)]
<1>1. \E f : IsReadings(f, Len(msg), msg)
  BY ReadingsExist
<1> DEFINE g == CHOOSE f : f = [m \in 0..Len(msg) |-> IF m = 0 THEN <<>>
                                  ELSE [at \in 1..Len(msg) |-> ReadAt(msg, f[m - 1], at)]]
<1>2. g = [m \in 0..Len(msg) |-> IF m = 0 THEN <<>>
                                  ELSE [at \in 1..Len(msg) |-> ReadAt(msg, g[m - 1], at)]]
  BY <1>1 DEF IsReadings
<1>3. Readings(msg) = g
  BY DEF Readings
<1> HIDE DEF g
<1> DEFINE D(m) == IF m = 0 THEN <<>> ELSE [at \in 1..Len(msg) |-> ReadAt(msg, g[m - 1], at)]
<1>7. g = [m \in 0..Len(msg) |-> D(m)]
  BY <1>2, Zenon
<1>4. n \in 0..Len(msg) /\ n # 0
  OBVIOUS
<1>5. g[n] = D(n)
  <2> HIDE DEF D
  <2> QED
    BY <1>4, <1>7
<1>6. D(n) = [at \in 1..Len(msg) |-> ReadAt(msg, g[n - 1], at)]
  BY <1>4
<1> HIDE DEF D
<1> QED
  BY <1>3, <1>5, <1>6

-----------------------------------------------------------------------------
(* What is put together of parts, and read part by part.                   *)

(* Parts of a message, and what they say when they are put together.       *)
PiecesOf(P, ms, k) ==
    /\ P \in [0..k -> Seq(Mark)] /\ P[0] = <<>>
    /\ \A n \in 1..k : ms[n] \in Seq(Mark) /\ Len(ms[n]) >= 1 /\ P[n] = P[n - 1] \o ms[n]

(* One part, wherever it stands in the message, is read for its value.     *)
PartRead(marks, value, msg, one) ==
    \A at : Stands(marks, msg, at) => ~AtEnd(msg, at) /\ one[at] = Read(value, After(at, marks))

(* So many values, of some set.                                            *)
Family(xs, k, X) == xs \in [1..k -> X]

(* The last r of k values.                                                 *)
Final(xs, k, r) == [i \in 1..r |-> xs[k - r + i]]

(* A piece that is not empty stands at a mark.                             *)
LEMMA StandsAtMark ==
  ASSUME NEW msg \in Seq(Mark), NEW marks \in Seq(Mark), Len(marks) >= 1, NEW at,
         Stands(marks, msg, at)
  PROVE  at \in 1..Len(msg) /\ msg[at] = marks[1]
<1>l. PICK l \in Nat : l = Len(msg)
  OBVIOUS
<1>m. PICK m \in Nat : m = Len(marks)
  OBVIOUS
<1>1. /\ at \in Nat /\ at >= 1 /\ at - 1 + m <= l /\ m >= 1
      /\ \A k \in 1..m : msg[at - 1 + k] = marks[k]
  BY <1>l, <1>m DEF Stands
<1>2. at \in 1..l /\ 1 \in 1..m /\ at - 1 + 1 = at
  BY <1>1
<1>3. msg[at] = marks[1]
  BY <1>1, <1>2
<1> QED
  BY <1>2, <1>3, <1>l

(* The parts stand one behind the other.                                   *)
Consecutive(P, ms, k, msg, at) ==
    \A n \in 1..k : /\ Stands(ms[n], msg, After(at, P[n - 1]))
                    /\ After(at, P[n]) = After(After(at, P[n - 1]), ms[n])

(* All that was put together stands where each part stands.                *)
LEMMA PiecesStand ==
  ASSUME NEW msg \in Seq(Mark), NEW k \in Nat, NEW P, NEW ms, PiecesOf(P, ms, k), NEW at,
         Stands(P[k], msg, at)
  PROVE  Consecutive(P, ms, k, msg, at)
<1> DEFINE S == {n \in 0..k : Stands(P[k - n], msg, at)}
<1>1. 0 \in S
  <2>1. k - 0 = k /\ 0 \in 0..k
    OBVIOUS
  <2> QED
    BY <2>1
<1>2. ASSUME NEW n \in 1..k, Stands(P[n], msg, at)
      PROVE  /\ Stands(P[n - 1], msg, at) /\ Stands(ms[n], msg, After(at, P[n - 1]))
             /\ After(at, P[n]) = After(After(at, P[n - 1]), ms[n])
  <2>1. n - 1 \in 0..k
    OBVIOUS
  <2>2. P[n - 1] \in Seq(Mark) /\ ms[n] \in Seq(Mark) /\ P[n] = P[n - 1] \o ms[n]
    BY <2>1 DEF PiecesOf
  <2>3. Stands(P[n - 1] \o ms[n], msg, at)
    BY <1>2, <2>2
  <2>4. /\ Stands(P[n - 1], msg, at) /\ Stands(ms[n], msg, After(at, P[n - 1]))
        /\ After(at, P[n - 1] \o ms[n]) = After(After(at, P[n - 1]), ms[n])
    BY <2>2, <2>3, StandsConcat
  <2> QED
    BY <2>2, <2>4
<1>3. ASSUME NEW n \in 1..k, n - 1 \in S PROVE n \in S
  <2>1. k - (n - 1) \in 1..k /\ (k - (n - 1)) - 1 = k - n
    OBVIOUS
  <2>2. Stands(P[k - (n - 1)], msg, at)
    BY <1>3
  <2>3. Stands(P[k - n], msg, at)
    BY <1>2, <2>1, <2>2
  <2> QED
    BY <2>3
<1>4. 0..k \subseteq S
  <2> HIDE DEF S
  <2> QED
    BY <1>1, <1>3, UpTo
<1>5. ASSUME NEW n \in 1..k PROVE Stands(P[n], msg, at)
  <2>1. k - n \in 0..k /\ k - (k - n) = n
    OBVIOUS
  <2>2. Stands(P[k - (k - n)], msg, at)
    BY <1>4, <2>1
  <2> QED
    BY <2>1, <2>2
<1> QED
  BY <1>2, <1>5 DEF Consecutive

(* Two sequences together are as long as both.                             *)
LEMMA ConcatLong ==
  ASSUME NEW a \in Seq(Mark), NEW b \in Seq(Mark)
  PROVE  Len(a \o b) = Len(a) + Len(b) /\ Len(a) \in Nat /\ Len(b) \in Nat
BY ConcatProperties, LenProperties

(* Sums of natural numbers.                                                *)
LEMMA Sums ==
  /\ \A m, a, b \in Nat : m >= 1 /\ m - 1 <= a /\ b >= 1 => m <= a + b
  /\ \A c, a, b \in Nat : c <= a => c <= a + b
  /\ \A a, b \in Nat : b <= a + b
OBVIOUS

(* No part is longer than all, and all has a mark at least for each part.  *)
LEMMA PiecesLong ==
  ASSUME NEW k \in Nat, NEW P, NEW ms, PiecesOf(P, ms, k)
  PROVE  k <= Len(P[k]) /\ \A n \in 1..k : Len(ms[n]) <= Len(P[k])
<1> DEFINE S == {m \in 0..k : m <= Len(P[m]) /\ \A n \in 1..m : Len(ms[n]) <= Len(P[m])}
<1>1. 0 \in S
  <2>1. P[0] = <<>>
    BY DEF PiecesOf
  <2> QED
    BY <2>1
<1>2. ASSUME NEW m \in 1..k, m - 1 \in S PROVE m \in S
  <2>1. m - 1 \in 0..k
    OBVIOUS
  <2>2. P[m - 1] \in Seq(Mark) /\ ms[m] \in Seq(Mark) /\ P[m] = P[m - 1] \o ms[m] /\ Len(ms[m]) >= 1
    BY <2>1 DEF PiecesOf
  <2>3. Len(P[m]) = Len(P[m - 1]) + Len(ms[m]) /\ Len(P[m - 1]) \in Nat /\ Len(ms[m]) \in Nat
    BY <2>2, ConcatLong
  <2>4. \A n \in 1..(m - 1) : Len(ms[n]) <= Len(P[m - 1]) /\ Len(ms[n]) \in Nat
    <3>1. \A n \in 1..k : Len(ms[n]) \in Nat
      BY DEF PiecesOf
    <3> QED
      BY <1>2, <3>1
  <2>5. PICK a \in Nat : a = Len(P[m - 1])
    BY <2>3
  <2>6. PICK b \in Nat : b = Len(ms[m])
    BY <2>3
  <2>7. m <= a + b
    <3>1. m - 1 <= a /\ b >= 1 /\ m >= 1 /\ m \in Nat
      BY <1>2, <2>5, <2>6, <2>2
    <3> QED
      BY <3>1, Sums
  <2>8. ASSUME NEW n \in 1..m PROVE Len(ms[n]) <= a + b
    <3>1. CASE n = m
      <4>1. b <= a + b
        BY Sums
      <4> QED
        BY <3>1, <4>1, <2>6
    <3>2. CASE n # m
      <4>1. n \in 1..(m - 1)
        BY <3>2
      <4>2. PICK c \in Nat : c = Len(ms[n])
        BY <4>1, <2>4
      <4>3. c <= a
        BY <4>1, <4>2, <2>4, <2>5
      <4>4. c <= a + b
        BY <4>3, Sums
      <4> QED
        BY <4>2, <4>4
    <3> QED
      BY <3>1, <3>2
  <2>9. Len(P[m]) = a + b
    BY <2>3, <2>5, <2>6
  <2> QED
    BY <2>7, <2>8, <2>9
<1>3. 0..k \subseteq S
  <2> HIDE DEF S
  <2> QED
    BY <1>1, <1>2, UpTo
<1> QED
  BY <1>3

(* A value in front of the last ones.                                      *)
LEMMA OneMoreFinal ==
  ASSUME NEW X, NEW k \in Nat, NEW xs, Family(xs, k, X), NEW r \in 1..k
  PROVE  <<xs[k - r + 1]>> \o Final(xs, k, r - 1) = Final(xs, k, r)
<1>x. xs \in [1..k -> X]
  BY DEF Family
<1> DEFINE a == <<xs[k - r + 1]>>
           b == Final(xs, k, r - 1)
<1>1. k - r + 1 \in 1..k
  OBVIOUS
<1>2. a \in Seq(X) /\ Len(a) = 1 /\ a[1] = xs[k - r + 1]
  BY <1>1, <1>x
<1>3. b \in Seq(X) /\ Len(b) = r - 1 /\ \A i \in 1..(r - 1) : b[i] = xs[k - (r - 1) + i]
  <2>1. \A i \in 1..(r - 1) : k - (r - 1) + i \in 1..k
    OBVIOUS
  <2>2. b \in [1..(r - 1) -> X] /\ r - 1 \in Nat
    BY <1>x, <2>1 DEF Final
  <2> QED
    BY <2>2 DEF Final
<1> HIDE DEF a, b
<1>c. PICK c \in Seq(X) : c = a \o b
  <2>1. a \o b \in Seq(X)
    BY <1>2, <1>3, ConcatProperties, Zenon
  <2> QED
    BY <2>1
<1>0. /\ Len(c) = Len(a) + Len(b)
      /\ \A i \in 1..Len(a) + Len(b) : c[i] = IF i <= Len(a) THEN a[i] ELSE b[i - Len(a)]
  <2>1. a \in Seq(X) /\ b \in Seq(X)
    BY <1>2, <1>3
  <2>2. Len(a \o b) = Len(a) + Len(b) /\ \A i \in 1..Len(a) + Len(b) :
          (a \o b)[i] = IF i <= Len(a) THEN a[i] ELSE b[i - Len(a)]
    BY <2>1, ConcatProperties, Zenon
  <2> QED
    BY <2>2, <1>c, Zenon
<1>4. Len(c) = r /\ \A i \in 1..r : c[i] = IF i <= 1 THEN a[i] ELSE b[i - 1]
  <2>1. 1 + (r - 1) = r
    OBVIOUS
  <2> QED
    BY <1>0, <1>2, <1>3, <2>1
<1>5. ASSUME NEW i \in 1..r PROVE c[i] = xs[k - r + i]
  <2>1. CASE i = 1
    <3>1. c[1] = a[1]
      BY <1>4, <2>1
    <3> QED
      BY <2>1, <3>1, <1>2
  <2>2. CASE i # 1
    <3>1. i - 1 \in 1..(r - 1) /\ k - (r - 1) + (i - 1) = k - r + i /\ ~(i <= 1)
      BY <2>2
    <3>2. c[i] = b[i - 1]
      BY <3>1, <1>4
    <3> QED
      BY <3>1, <3>2, <1>3
  <2> QED
    BY <2>1, <2>2
<1>7. c = Final(xs, k, r)
  <2>1. c = [i \in 1..r |-> c[i]]
    BY <1>4
  <2> QED
    BY <2>1, <1>5 DEF Final
<1> QED
  BY <1>c, <1>7 DEF a, b

(* One turn of a loop at the end of a container.                           *)
LEMMA TurnEnds ==
  ASSUME NEW msg, NEW one, NEW more, NEW at \in 1..Len(msg) + 1, AtEnd(msg, at)
  PROVE  Turn(msg, one, more)[at] = Read(<<>>, at)
BY DEF Turn

(* What was read together with where.                                      *)
LEMMA ReadIs == \A value, at : Read(value, at).value = value /\ Read(value, at).at = at
BY DEF Read

(* One turn of a loop at a part.                                           *)
LEMMA TurnReads ==
  ASSUME NEW msg, NEW one, NEW more, NEW at \in 1..Len(msg) + 1, ~AtEnd(msg, at),
         NEW value, NEW p, one[at] = Read(value, p), NEW rest, NEW end, more[p] = Read(rest, end)
  PROVE  Turn(msg, one, more)[at] = Read(<<value>> \o rest, end)
<1>1. Turn(msg, one, more)[at] =
        Read(<<one[at].value>> \o more[one[at].at].value, more[one[at].at].at)
  BY DEF Turn
<1>2. one[at].value = value /\ one[at].at = p
  BY ReadIs
<1>3. more[p].value = rest /\ more[p].at = end
  BY ReadIs
<1> QED
  BY <1>1, <1>2, <1>3

(* Parts that are all read for their values.                               *)
AllRead(ms, xs, k, msg, one) == \A n \in 1..k : PartRead(ms[n], xs[n], msg, one)

(* Parts that are read one by one are read by a loop, to their end.        *)
LEMMA PartsAre ==
  ASSUME NEW msg \in Seq(Mark), NEW one, NEW k \in Nat, NEW X, NEW xs, Family(xs, k, X),
         NEW P, NEW ms, PiecesOf(P, ms, k), AllRead(ms, xs, k, msg, one),
         NEW at, Stands(P[k], msg, at), AtEnd(msg, After(at, P[k])),
         After(at, P[k]) \in 1..Len(msg) + 1, k < Len(msg)
  PROVE  Parts(msg, one, at) = Read(xs, After(at, P[k]))
<1>l. PICK l \in Nat : l = Len(msg)
  OBVIOUS
<1>0. Len(msg) \in Nat
  OBVIOUS
<1>1. PICK f : /\ \A n \in 1..l : f[n] = Turn(msg, one, f[n - 1])
               /\ \A p : Parts(msg, one, p) = f[l][p]
  <2>1. \E f : LoopOf(f, l, msg, one)
    BY <1>0, <1>l, PartsTurns
  <2> QED
    BY <2>1, Zenon DEF LoopOf
<1>e. PICK e \in 1..l + 1 : e = After(at, P[k])
  BY <1>l
<1>2. AtEnd(msg, e) /\ k < l
  BY <1>e, <1>l
<1>3. \A n \in 1..k : /\ Stands(ms[n], msg, After(at, P[n - 1]))
                      /\ After(at, P[n]) = After(After(at, P[n - 1]), ms[n])
  <2>1. Consecutive(P, ms, k, msg, at)
    BY PiecesStand
  <2> QED
    BY <2>1 DEF Consecutive
<1>4. \A n \in 1..k : /\ After(at, P[n - 1]) \in 1..l + 1
                      /\ ~AtEnd(msg, After(at, P[n - 1]))
                      /\ one[After(at, P[n - 1])] = Read(xs[n], After(at, P[n]))
  <2> SUFFICES ASSUME NEW n \in 1..k
               PROVE  /\ After(at, P[n - 1]) \in 1..l + 1
                      /\ ~AtEnd(msg, After(at, P[n - 1]))
                      /\ one[After(at, P[n - 1])] = Read(xs[n], After(at, P[n]))
    OBVIOUS
  <2>1. ms[n] \in Seq(Mark) /\ Len(ms[n]) >= 1
    BY DEF PiecesOf
  <2>2. Stands(ms[n], msg, After(at, P[n - 1]))
    BY <1>3
  <2>3. After(at, P[n - 1]) \in 1..Len(msg)
    BY <2>1, <2>2, StandsAtMark
  <2>4. /\ ~AtEnd(msg, After(at, P[n - 1]))
        /\ one[After(at, P[n - 1])] = Read(xs[n], After(After(at, P[n - 1]), ms[n]))
    BY <2>2 DEF PartRead, AllRead
  <2>5. After(at, P[n - 1]) \in 1..l + 1
    <3>1. PICK p \in 1..Len(msg) : p = After(at, P[n - 1])
      BY <2>3
    <3>2. p \in 1..l + 1
      BY <1>l
    <3> QED
      BY <3>1, <3>2
  <2> QED
    BY <1>3, <2>4, <2>5
<1> DEFINE S == {r \in 0..k : \A n \in (r + 1)..l :
                    f[n][After(at, P[k - r])] = Read(Final(xs, k, r), e)}
<1>5. 0 \in S
  <2>1. k - 0 = k /\ 0 \in 0..k
    OBVIOUS
  <2>2. Final(xs, k, 0) = <<>>
    BY DEF Final
  <2>3. ASSUME NEW n \in (0 + 1)..l PROVE f[n][e] = Read(<<>>, e)
    <3>1. n \in 1..l
      OBVIOUS
    <3>2. f[n] = Turn(msg, one, f[n - 1])
      BY <1>1, <3>1
    <3>3. e \in 1..Len(msg) + 1
      BY <1>l
    <3>4. Turn(msg, one, f[n - 1])[e] = Read(<<>>, e)
      BY <1>2, <3>3, TurnEnds
    <3> QED
      BY <3>2, <3>4
  <2> QED
    BY <1>e, <2>1, <2>2, <2>3
<1>6. ASSUME NEW r \in 1..k, r - 1 \in S PROVE r \in S
  <2> DEFINE m == k - r + 1
  <2>1. m \in 1..k /\ m - 1 = k - r /\ m = k - (r - 1) /\ r \in 0..k
    OBVIOUS
  <2>2. PICK p \in 1..l + 1 : p = After(at, P[m - 1])
    BY <1>4, <2>1
  <2>3. ~AtEnd(msg, p) /\ one[p] = Read(xs[m], After(at, P[m]))
    BY <1>4, <2>1, <2>2
  <2>4. ASSUME NEW n \in (r + 1)..l PROVE f[n][p] = Read(Final(xs, k, r), e)
    <3>1. n \in 1..l /\ n - 1 \in ((r - 1) + 1)..l
      OBVIOUS
    <3>2. f[n - 1][After(at, P[k - (r - 1)])] = Read(Final(xs, k, r - 1), e)
      BY <1>6, <3>1
    <3>3. f[n - 1][After(at, P[m])] = Read(Final(xs, k, r - 1), e)
      BY <2>1, <3>2
    <3>4. p \in 1..Len(msg) + 1
      BY <1>l
    <3> HIDE DEF m
    <3>5. Turn(msg, one, f[n - 1])[p] = Read(<<xs[m]>> \o Final(xs, k, r - 1), e)
      BY <2>3, <3>3, <3>4, TurnReads
    <3>8. <<xs[m]>> \o Final(xs, k, r - 1) = Final(xs, k, r)
      <4>1. <<xs[k - r + 1]>> \o Final(xs, k, r - 1) = Final(xs, k, r)
        BY OneMoreFinal
      <4> QED
        BY <4>1 DEF m
    <3>9. f[n] = Turn(msg, one, f[n - 1])
      BY <1>1, <3>1
    <3> QED
      BY <3>5, <3>8, <3>9
  <2>5. P[k - r] = P[m - 1]
    BY <2>1
  <2> HIDE DEF m
  <2>6. \A n \in (r + 1)..l : f[n][After(at, P[k - r])] = Read(Final(xs, k, r), e)
    BY <2>2, <2>4, <2>5
  <2> QED
    BY <2>1, <2>6
<1>7. 0..k \subseteq S
  <2> HIDE DEF S
  <2> QED
    BY <1>5, <1>6, UpTo
<1>8. f[l][After(at, P[0])] = Read(xs, e)
  <2>1. k \in S /\ l \in (k + 1)..l /\ k - k = 0
    BY <1>2, <1>7
  <2>2. f[l][After(at, P[k - k])] = Read(Final(xs, k, k), e)
    BY <2>1
  <2>3. Final(xs, k, k) = xs
    <3>1. \A i \in 1..k : k - k + i = i
      OBVIOUS
    <3>2. Final(xs, k, k) = [i \in 1..k |-> xs[i]]
      BY <3>1 DEF Final
    <3> QED
      BY <3>2 DEF Family
  <2> QED
    BY <2>1, <2>2, <2>3
<1>9. After(at, P[0]) = at
  <2>1. P[0] = <<>> /\ at \in Nat
    BY DEF PiecesOf, Stands
  <2>2. Len(<<>>) = 0
    OBVIOUS
  <2>3. at + 0 = at
    BY <2>1
  <2> QED
    BY <2>1, <2>2, <2>3 DEF After
<1> QED
  BY <1>1, <1>8, <1>9, <1>e

-----------------------------------------------------------------------------
(* FlattenSeq puts together.                                               *)

(* The first of the parts that FlattenSeq puts together.                   *)
IsFlat(f, n, seqs) == f = [i \in 1..n |-> IF i = 1 THEN seqs[i] ELSE f[i - 1] \o seqs[i]]

(* Any number of parts can be put together.                                *)
LEMMA FlatExists == ASSUME NEW seqs, NEW N \in Nat PROVE \E f : IsFlat(f, N, seqs)
<1> DEFINE D(n, prev) == IF n = 1 THEN seqs[n] ELSE prev \o seqs[n]
<1> DEFINE S == {n \in 0..N : \E f : IsFlat(f, n, seqs)}
<1>1. 0 \in S
  <2>1. IsFlat([i \in 1..0 |-> 0], 0, seqs)
    BY DEF IsFlat
  <2> QED
    BY <2>1
<1>2. ASSUME NEW n \in 1..N, n - 1 \in S PROVE n \in S
  <2>1. PICK f : IsFlat(f, n - 1, seqs)
    BY <1>2
  <2>a. f = [m \in 1..n - 1 |-> D(m, f[m - 1])]
    BY <2>1 DEF IsFlat
  <2>b. \A x, y : D(1, x) = D(1, y)
    OBVIOUS
  <2> HIDE DEF D
  <2> DEFINE g == [m \in 1..n |-> IF m = n THEN D(n, f[n - 1]) ELSE f[m]]
  <2>2. \A m \in 1..n - 1 : g[m] = f[m]
    OBVIOUS
  <2>3. \A m \in 1..n - 1 : f[m] = D(m, f[m - 1])
    BY <2>a
  <2>4. ASSUME NEW m \in 1..n PROVE g[m] = D(m, g[m - 1])
    <3>1. CASE m = n
      <4>1. g[m] = D(n, f[n - 1])
        BY <3>1
      <4>2. CASE n = 1
        BY <2>b, <3>1, <4>1, <4>2
      <4>3. CASE n # 1
        <5>1. n - 1 \in 1..n - 1
          BY <4>3
        <5>2. g[n - 1] = f[n - 1]
          BY <2>2, <5>1
        <5> QED
          BY <3>1, <4>1, <5>2
      <4> QED
        BY <4>2, <4>3
    <3>2. CASE m # n
      <4>1. m \in 1..n - 1 /\ (m # 1 => m - 1 \in 1..n - 1)
        BY <3>2
      <4>2. g[m] = f[m] /\ (m # 1 => g[m - 1] = f[m - 1])
        BY <2>2, <4>1
      <4>3. f[m] = D(m, f[m - 1])
        BY <2>3, <4>1
      <4> QED
        BY <2>b, <4>2, <4>3
    <3> QED
      BY <3>1, <3>2
  <2>5. g = [m \in 1..n |-> g[m]]
    OBVIOUS
  <2> HIDE DEF g
  <2>6. g = [m \in 1..n |-> D(m, g[m - 1])]
    BY <2>4, <2>5
  <2>7. IsFlat(g, n, seqs)
    BY <2>6 DEF IsFlat, D
  <2> QED
    BY <2>7
<1>3. 0..N \subseteq S
  <2> HIDE DEF S
  <2> QED
    BY <1>1, <1>2, UpTo
<1> QED
  BY <1>3

(* What FlattenSeq puts together, part by part.                            *)
LEMMA FlattenPieces ==
  ASSUME NEW k \in Nat, NEW ms \in [1..k -> Seq(Mark)], \A n \in 1..k : Len(ms[n]) >= 1
  PROVE  \E P : PiecesOf(P, ms, k) /\ FlattenSeq(ms) = P[k]
<1>0. ms \in Seq(Seq(Mark)) /\ Len(ms) = k
  OBVIOUS
<1>1. CASE k = 0
  <2>1. ms = <<>>
    BY <1>0, <1>1
  <2>2. FlattenSeq(ms) = <<>>
    BY <1>0, <1>1, <2>1 DEF FlattenSeq
  <2> DEFINE P == [n \in 0..0 |-> <<>>]
  <2>3. P[0] = <<>> /\ P \in [0..0 -> Seq(Mark)]
    OBVIOUS
  <2> HIDE DEF P
  <2>4. PiecesOf(P, ms, k)
    BY <1>1, <2>3 DEF PiecesOf
  <2> QED
    BY <1>1, <2>2, <2>3, <2>4
<1>2. CASE k # 0
  <2>1. \E f : IsFlat(f, k, ms)
    BY FlatExists
  <2> DEFINE f == CHOOSE f : f = [i \in 1..k |-> IF i = 1 THEN ms[i] ELSE f[i - 1] \o ms[i]]
  <2>2. f = [i \in 1..k |-> IF i = 1 THEN ms[i] ELSE f[i - 1] \o ms[i]]
    BY <2>1 DEF IsFlat
  <2>3. FlattenSeq(ms) = f[k]
    BY <1>0, <1>2 DEF FlattenSeq
  <2> HIDE DEF f
  <2>4. f[1] = ms[1] /\ \A i \in 2..k : f[i] = f[i - 1] \o ms[i]
    <3>1. 1 \in 1..k /\ \A i \in 2..k : i \in 1..k /\ i # 1
      BY <1>2
    <3> QED
      BY <2>2, <3>1
  <2> DEFINE P == [n \in 0..k |-> IF n = 0 THEN <<>> ELSE f[n]]
  <2>5. P[0] = <<>> /\ \A n \in 1..k : P[n] = f[n]
    OBVIOUS
  <2>p. P = [n \in 0..k |-> P[n]]
    OBVIOUS
  <2> HIDE DEF P
  <2>6. ASSUME NEW n \in 1..k PROVE P[n] = P[n - 1] \o ms[n]
    <3>1. CASE n = 1
      <4>1. P[n] = ms[n] /\ ms[n] \in Seq(Mark) /\ n - 1 = 0
        BY <2>4, <2>5, <3>1
      <4>2. <<>> \o ms[n] = ms[n]
        BY <4>1, ConcatEmptySeq
      <4> QED
        BY <2>5, <4>1, <4>2
    <3>2. CASE n # 1
      <4>1. n \in 2..k /\ n - 1 \in 1..k
        BY <3>2
      <4>2. f[n] = f[n - 1] \o ms[n]
        BY <2>4, <4>1
      <4> QED
        BY <2>5, <4>1, <4>2
    <3> QED
      BY <3>1, <3>2
  <2> DEFINE S == {n \in 0..k : P[n] \in Seq(Mark)}
  <2>7. 0 \in S
    <3>1. <<>> \in Seq(Mark) /\ 0 \in 0..k
      OBVIOUS
    <3> QED
      BY <2>5, <3>1
  <2>8. ASSUME NEW n \in 1..k, n - 1 \in S PROVE n \in S
    <3>1. P[n - 1] \in Seq(Mark) /\ ms[n] \in Seq(Mark)
      BY <2>8
    <3>2. P[n - 1] \o ms[n] \in Seq(Mark)
      BY <3>1, ConcatProperties
    <3>3. P[n] \in Seq(Mark)
      BY <2>6, <3>2
    <3>4. n \in 0..k
      OBVIOUS
    <3> QED
      BY <3>3, <3>4
  <2>9. 0..k \subseteq S
    <3> HIDE DEF S
    <3> QED
      BY <2>7, <2>8, UpTo
  <2>10. P \in [0..k -> Seq(Mark)]
    BY <2>9, <2>p
  <2>11. PiecesOf(P, ms, k)
    BY <2>5, <2>6, <2>10 DEF PiecesOf
  <2>12. FlattenSeq(ms) = P[k]
    <3>1. k \in 1..k
      BY <1>2
    <3> QED
      BY <2>3, <2>5, <3>1
  <2> QED
    BY <2>11, <2>12
<1> QED
  BY <1>1, <1>2

-----------------------------------------------------------------------------
(* The constructor, and the values it reads for what they mean.            *)

(* How a mark looks.                                                       *)
LEMMA OpenIs ==
  ASSUME NEW type, NEW contents, NEW m, m = Open(type, contents)
  PROVE  m.mark # "basic" /\ m.mark # "close" /\ m.type = type /\ m.contents = contents
BY DEF Open

(* A closing mark is the end of a container, and the container is left.    *)
LEMMA AtClose ==
  ASSUME NEW msg, Len(msg) \in Nat, NEW e \in 1..Len(msg), msg[e] = Close
  PROVE  AtEnd(msg, e) /\ exit_container(msg, e) = e + 1 /\ e \in 1..Len(msg) + 1
<1>1. msg[e].mark = "close"
  BY DEF Close
<1>2. e <= Len(msg) /\ e \in 1..Len(msg) + 1
  OBVIOUS
<1> QED
  BY <1>1, <1>2 DEF AtEnd, exit_container

(* A position with another mark is no end.                                 *)
LEMMA NotAtEnd ==
  ASSUME NEW msg, Len(msg) \in Nat, NEW at \in 1..Len(msg), msg[at].mark # "close"
  PROVE  ~AtEnd(msg, at)
BY DEF AtEnd

(* What a container that is no dictionary, and one that is, begins with.   *)
ListBegins(msg, at, contents) == IF AtEnd(msg, at) THEN contents # "{}" ELSE msg[at].type # "e"
DictBegins(msg, at) == ~AtEnd(msg, at) => msg[at].type = "e"

(* The mark at which a dictionary opens.                                   *)
OpensDict(m) == m = Open("a", "{}")

(* The constructor at a basic value.                                       *)
LEMMA ReadAtBasic ==
  ASSUME NEW msg, NEW nested, NEW at, NEW type, NEW of, msg[at] = Basic(type, of)
  PROVE  ReadAt(msg, nested, at) = Read(Value(type, of), at + 1)
<1>1. msg[at].mark = "basic" /\ msg[at].type = type /\ msg[at].of = of
  BY DEF Basic
<1> QED
  BY <1>1 DEF ReadAt

(* A variant: what it holds is read, and it is left.                       *)
LEMMA ReadAtVariant ==
  ASSUME NEW msg, Len(msg) \in Nat, NEW nested, NEW at, NEW contents,
         msg[at] = Open("v", contents),
         NEW value, NEW e \in 1..Len(msg), nested[at + 1] = Read(value, e), msg[e] = Close
  PROVE  ReadAt(msg, nested, at) = Read(value, e + 1)
<1>1. msg[at].mark # "basic" /\ msg[at].type = "v"
  BY DEF Open
<1>2. ReadAt(msg, nested, at) = read_variant(msg, nested, at)
  BY <1>1 DEF ReadAt
<1>3. nested[enter_container(at)].value = value /\ nested[enter_container(at)].at = e
  BY ReadIs DEF enter_container
<1>4. exit_container(msg, e) = e + 1
  BY AtClose
<1> QED
  BY <1>2, <1>3, <1>4 DEF read_variant

(* An array or a structure: its parts are read, and it is left.            *)
LEMMA ReadAtList ==
  ASSUME NEW msg, Len(msg) \in Nat, NEW nested, NEW at, NEW type, NEW contents, type # "v",
         msg[at] = Open(type, contents), NEW in, in = at + 1, ListBegins(msg, in, contents),
         NEW xs, NEW e \in 1..Len(msg), Parts(msg, nested, in) = Read(xs, e), msg[e] = Close
  PROVE  ReadAt(msg, nested, at) = Read(Value("array", xs), e + 1)
<1>1. msg[at].mark # "basic" /\ msg[at].type = type /\ msg[at].contents = contents
  <2>1. PICK m : m = msg[at]
    OBVIOUS
  <2>2. m = Open(type, contents)
    BY <2>1
  <2>3. m.mark # "basic" /\ m.type = type /\ m.contents = contents
    BY ONLY <2>2, OpenIs
  <2> QED
    BY <2>1, <2>3
<1>2. ReadAt(msg, nested, at) = read_container(msg, nested, at)
  BY <1>1 DEF ReadAt
<1>3. ~(IF AtEnd(msg, enter_container(at)) THEN msg[at].contents = "{}"
        ELSE msg[at].type = "a" /\ msg[enter_container(at)].type = "e")
  BY <1>1 DEF enter_container, ListBegins
<1>4. read_array(msg, nested, enter_container(at)) = Read(Value("array", xs), e)
  BY ReadIs DEF read_array, enter_container
<1>5. exit_container(msg, e) = e + 1
  BY AtClose
<1>6. read_container(msg, nested, at) =
        Read(read_array(msg, nested, enter_container(at)).value,
             exit_container(msg, read_array(msg, nested, enter_container(at)).at))
  BY <1>3 DEF read_container
<1>7. /\ read_array(msg, nested, enter_container(at)).value = Value("array", xs)
      /\ read_array(msg, nested, enter_container(at)).at = e
  BY <1>4, ReadIs
<1> QED
  BY <1>2, <1>5, <1>6, <1>7

(* A dictionary.                                                           *)
LEMMA ReadAtDict ==
  ASSUME NEW msg, Len(msg) \in Nat, NEW nested, NEW at, OpensDict(msg[at]),
         NEW in, in = at + 1, DictBegins(msg, in),
         NEW dict, NEW e \in 1..Len(msg), read_dict(msg, nested, in) = Read(dict, e),
         msg[e] = Close
  PROVE  ReadAt(msg, nested, at) = Read(dict, e + 1)
<1>1. msg[at].mark # "basic" /\ msg[at].type = "a" /\ msg[at].contents = "{}" /\ msg[at].type # "v"
  <2>1. PICK m : m = msg[at]
    OBVIOUS
  <2>2. PICK type : type = "a"
    OBVIOUS
  <2>3. PICK contents : contents = "{}"
    OBVIOUS
  <2>4. m = Open(type, contents)
    BY <2>1, <2>2, <2>3 DEF OpensDict
  <2>5. m.mark # "basic" /\ m.type = type /\ m.contents = contents
    BY ONLY <2>4, OpenIs
  <2> QED
    BY <2>1, <2>2, <2>3, <2>5
<1>2. ReadAt(msg, nested, at) = read_container(msg, nested, at)
  BY <1>1 DEF ReadAt
<1>3. IF AtEnd(msg, enter_container(at)) THEN msg[at].contents = "{}"
      ELSE msg[at].type = "a" /\ msg[enter_container(at)].type = "e"
  BY <1>1 DEF enter_container, DictBegins
<1>5. exit_container(msg, e) = e + 1
  BY AtClose
<1>6. read_container(msg, nested, at) =
        Read(read_dict(msg, nested, enter_container(at)).value,
             exit_container(msg, read_dict(msg, nested, enter_container(at)).at))
  BY <1>3 DEF read_container
<1>7. /\ read_dict(msg, nested, enter_container(at)).value = dict
      /\ read_dict(msg, nested, enter_container(at)).at = e
  BY ReadIs DEF enter_container
<1> QED
  BY <1>2, <1>5, <1>6, <1>7

-----------------------------------------------------------------------------
(* A value that is read for what it means, wherever it stands in whatever  *)
(* message.                                                                *)
Begins(marks) == /\ marks \in Seq(Mark) /\ Len(marks) >= 1
                 /\ marks[1].mark # "close" /\ marks[1].type # "e"
ReadIn(v, msg, n) == \A at : Stands(v.marks, msg, at) =>
                               Readings(msg)[n][at] = Read(v.meaning, After(at, v.marks))
Readable(v) == /\ Begins(v.marks)
               /\ \A msg \in Seq(Mark) : \A n \in 1..Len(msg) :
                    Len(v.marks) <= n => ReadIn(v, msg, n)

(* What is read at a position is what the constructor reads there.         *)
LEMMA ReadingAt ==
  ASSUME NEW msg \in Seq(Mark), NEW n \in 1..Len(msg), NEW at \in 1..Len(msg)
  PROVE  Readings(msg)[n][at] = ReadAt(msg, Readings(msg)[n - 1], at)
<1>1. Len(msg) \in Nat
  OBVIOUS
<1>2. Readings(msg)[n] = [p \in 1..Len(msg) |-> ReadAt(msg, Readings(msg)[n - 1], p)]
  BY <1>1, ReadingsAre
<1> QED
  BY <1>2, Zenon

(* A basic value.                                                          *)
LEMMA BasicReadable ==
  ASSUME NEW type \in BasicTypes, NEW of \in Datum
  PROVE  Readable(BasicValue(type, of))
<1> DEFINE v == BasicValue(type, of)
<1>m. PICK m \in Mark : m = Basic(type, of)
  <2>1. Basic(type, of) \in Mark
    BY MarkIs
  <2> QED
    BY <2>1
<1>1. v.marks = <<m>> /\ v.meaning = Value(type, of)
  BY <1>m DEF BasicValue
<1> HIDE DEF v
<1>2. Begins(<<m>>)
  <2>1. <<m>> \in Seq(Mark) /\ Len(<<m>>) = 1 /\ <<m>>[1] = m
    BY OneMark
  <2>2. m.mark # "close" /\ m.type # "e"
    BY <1>m DEF Basic, BasicTypes
  <2> QED
    BY <2>1, <2>2 DEF Begins
<1>3. ASSUME NEW msg \in Seq(Mark), NEW n \in 1..Len(msg), NEW at, Stands(<<m>>, msg, at)
      PROVE  Readings(msg)[n][at] = Read(Value(type, of), After(at, <<m>>))
  <2>1. at \in 1..Len(msg) /\ msg[at] = m /\ After(at, <<m>>) = at + 1
    BY <1>3, StandsOne
  <2>2. Readings(msg)[n][at] = ReadAt(msg, Readings(msg)[n - 1], at)
    BY <2>1, ReadingAt
  <2>nested. PICK nested : nested = Readings(msg)[n - 1]
    OBVIOUS
  <2>3. msg[at] = Basic(type, of)
    BY <2>1, <1>m
  <2>4. ReadAt(msg, nested, at) = Read(Value(type, of), at + 1)
    BY ONLY <2>3, ReadAtBasic
  <2> QED
    BY <2>1, <2>2, <2>4, <2>nested
<1>4. \A msg \in Seq(Mark) : \A n \in 1..Len(msg) : ReadIn(v, msg, n)
  BY <1>1, <1>3 DEF ReadIn
<1>5. Readable(v)
  BY <1>1, <1>2, <1>4 DEF Readable
<1> QED
  BY <1>5 DEF v

(* What a container holds is read one level deeper, with a shorter message *)
(* left: there is room for it.                                             *)
LEMMA RoomInside ==
  ASSUME NEW type \in ContainerTypes, NEW contents \in Contents, NEW marks \in Seq(Mark),
         NEW msg \in Seq(Mark), NEW n \in 1..Len(msg),
         Len(Container(type, contents, marks)) <= n, NEW v, Readable(v),
         Len(v.marks) <= Len(marks)
  PROVE  ReadIn(v, msg, n - 1)
<1>l. PICK l \in Nat : l = Len(msg)
  OBVIOUS
<1>m. PICK m \in Nat : m = Len(marks)
  OBVIOUS
<1>1. m + 2 <= n
  BY <1>m, ContainerLength
<1>2. v.marks \in Seq(Mark) /\ Len(v.marks) >= 1
  BY DEF Readable, Begins
<1>k. PICK k \in Nat : k = Len(v.marks)
  BY <1>2
<1>3. k >= 1 /\ k <= m /\ n \in 1..l
  BY <1>2, <1>k, <1>l, <1>m
<1>4. k <= n - 1 /\ n - 1 \in 1..l
  BY <1>1, <1>3
<1>5. n - 1 \in 1..Len(msg) /\ Len(v.marks) <= n - 1
  BY <1>4, <1>k, <1>l
<1> QED
  BY <1>5 DEF Readable

(* A value in a variant.                                                   *)
LEMMA VariantReadable == ASSUME NEW v, Readable(v) PROVE Readable(Variant(v))
<1> DEFINE w == Variant(v)
<1>s. PICK s \in Seq(Mark) : s = v.marks
  BY DEF Readable, Begins
<1>t. PICK t \in ContainerTypes : t = "v"
  <2>1. "v" \in ContainerTypes
    BY DEF ContainerTypes
  <2> QED
    BY <2>1, Zenon
<1>c. PICK c \in Contents : c = ""
  <2>1. "" \in Contents
    BY DEF Contents
  <2> QED
    BY <2>1, Zenon
<1>1. w.marks = Container(t, c, s) /\ w.meaning = v.meaning
  BY <1>s, <1>t, <1>c DEF Variant
<1> HIDE DEF w
<1>2. Begins(w.marks)
  <2>1. w.marks \in Seq(Mark) /\ Len(w.marks) = Len(s) + 2 /\ w.marks[1] = Open(t, c)
    BY <1>1, ContainerLength
  <2>2. Len(w.marks) >= 1
    BY <2>1, LenProperties
  <2>3. w.marks[1].mark # "close" /\ w.marks[1].type # "e"
    BY <2>1, <1>t DEF Open
  <2> QED
    BY <2>1, <2>2, <2>3 DEF Begins
<1>3. ASSUME NEW msg \in Seq(Mark), NEW n \in 1..Len(msg), Len(w.marks) <= n,
             NEW at, Stands(w.marks, msg, at)
      PROVE  Readings(msg)[n][at] = Read(w.meaning, After(at, w.marks))
  <2>1. Stands(Container(t, c, s), msg, at)
    BY <1>1, <1>3
  <2>2. /\ at \in 1..Len(msg) /\ msg[at] = Open(t, c)
        /\ Stands(s, msg, at + 1)
        /\ After(at + 1, s) \in 1..Len(msg) /\ msg[After(at + 1, s)] = Close
        /\ After(at, Container(t, c, s)) = After(at + 1, s) + 1
    <3>1. ContainerAt(msg, at, t, c, s)
      BY <2>1, StandsContainer
    <3> QED
      BY <3>1 DEF ContainerAt
  <2>e. PICK e \in 1..Len(msg) : e = After(at + 1, s)
    BY <2>2
  <2>3. ReadIn(v, msg, n - 1)
    <3>1. Len(Container(t, c, s)) <= n
      BY <1>1, <1>3
    <3>2. Len(v.marks) <= Len(s)
      BY <1>s, LenProperties
    <3> QED
      BY <3>1, <3>2, RoomInside
  <2>4. Readings(msg)[n - 1][at + 1] = Read(v.meaning, After(at + 1, s))
    BY <2>2, <2>3, <1>s DEF ReadIn
  <2>5. Len(msg) \in Nat
    OBVIOUS
  <2>6. ReadAt(msg, Readings(msg)[n - 1], at) = Read(v.meaning, e + 1)
    <3>1. msg[at] = Open("v", c) /\ msg[e] = Close
      BY <2>2, <2>e, <1>t
    <3>2. PICK nested : nested = Readings(msg)[n - 1]
      OBVIOUS
    <3>3. nested[at + 1] = Read(v.meaning, e)
      BY <2>4, <2>e, <3>2
    <3>4. ReadAt(msg, nested, at) = Read(v.meaning, e + 1)
      BY <3>1, <3>3, <2>5, ReadAtVariant
    <3> QED
      BY <3>2, <3>4
  <2>7. Readings(msg)[n][at] = ReadAt(msg, Readings(msg)[n - 1], at)
    BY <2>2, ReadingAt
  <2> QED
    BY <1>1, <2>2, <2>e, <2>6, <2>7
<1>4. Readable(w)
  BY <1>2, <1>3 DEF Readable, ReadIn
<1> QED
  BY <1>4 DEF w

(* All that a container holds is read by a loop, to the end of the         *)
(* container.                                                              *)
LEMMA HeldParts ==
  ASSUME NEW msg \in Seq(Mark), NEW n \in 1..Len(msg), NEW at,
         NEW type \in ContainerTypes, NEW contents \in Contents,
         NEW k \in Nat, NEW P, NEW ms, PiecesOf(P, ms, k),
         Len(Container(type, contents, P[k])) <= n,
         ContainerAt(msg, at, type, contents, P[k]),
         NEW one, NEW X, NEW xs, Family(xs, k, X), AllRead(ms, xs, k, msg, one)
  PROVE  Parts(msg, one, at + 1) = Read(xs, After(at + 1, P[k]))
<1>1. P[k] \in Seq(Mark)
  <2>1. k \in 0..k
    OBVIOUS
  <2> QED
    BY <2>1 DEF PiecesOf
<1>2. /\ Stands(P[k], msg, at + 1)
      /\ After(at + 1, P[k]) \in 1..Len(msg) /\ msg[After(at + 1, P[k])] = Close
  BY DEF ContainerAt
<1>3. Len(msg) \in Nat
  OBVIOUS
<1>e. PICK e \in 1..Len(msg) : e = After(at + 1, P[k])
  BY <1>2
<1>4. AtEnd(msg, e) /\ e \in 1..Len(msg) + 1
  <2>1. msg[e] = Close
    BY <1>2, <1>e
  <2> QED
    BY <2>1, <1>3, AtClose
<1>5. k < Len(msg)
  <2>l. PICK l \in Nat : l = Len(msg)
    OBVIOUS
  <2>m. PICK m \in Nat : m = Len(P[k])
    BY <1>1
  <2>1. m + 2 <= n /\ n \in 1..l
    BY <1>1, <2>l, <2>m, ContainerLength
  <2>2. k <= m
    BY <2>m, PiecesLong
  <2>3. k < l
    BY <2>1, <2>2
  <2> QED
    BY <2>3, <2>l
<1>a. PICK p : p = at + 1
  OBVIOUS
<1>6. Stands(P[k], msg, p) /\ AtEnd(msg, After(p, P[k])) /\ After(p, P[k]) \in 1..Len(msg) + 1
  BY <1>2, <1>4, <1>e, <1>a
<1>7. Parts(msg, one, p) = Read(xs, After(p, P[k]))
  BY <1>5, <1>6, PartsAre
<1> QED
  BY <1>7, <1>a

(* What a container holds begins with the first part, or it ends at once.  *)
BeginsWith(msg, at, k, ms) == IF k = 0 THEN AtEnd(msg, at)
                                       ELSE at \in 1..Len(msg) /\ msg[at] = ms[1][1]

(* So it does, whatever parts it holds.                                    *)
LEMMA HeldFirst ==
  ASSUME NEW msg \in Seq(Mark), NEW at, NEW type, NEW contents,
         NEW k \in Nat, NEW P, NEW ms, PiecesOf(P, ms, k),
         ContainerAt(msg, at, type, contents, P[k])
  PROVE  BeginsWith(msg, at + 1, k, ms)
<1>a. PICK p : p = at + 1
  OBVIOUS
<1>0. P[0] = <<>> /\ at \in Nat
  BY DEF PiecesOf, ContainerAt
<1>1. After(p, P[0]) = p
  <2>1. Len(<<>>) = 0
    OBVIOUS
  <2>2. p + 0 = p
    BY <1>0, <1>a
  <2> QED
    BY <1>0, <2>1, <2>2 DEF After
<1>2. /\ Stands(P[k], msg, p)
      /\ After(p, P[k]) \in 1..Len(msg) /\ msg[After(p, P[k])] = Close
  BY <1>a DEF ContainerAt
<1>3. CASE k = 0
  <2>1. p \in 1..Len(msg) /\ msg[p] = Close
    BY <1>1, <1>2, <1>3
  <2>2. Len(msg) \in Nat
    OBVIOUS
  <2>3. AtEnd(msg, p)
    BY <2>1, <2>2, AtClose
  <2> QED
    BY <1>3, <2>3, <1>a DEF BeginsWith
<1>4. CASE k # 0
  <2>1. Consecutive(P, ms, k, msg, p)
    BY <1>2, PiecesStand
  <2>2. 1 \in 1..k /\ 1 - 1 = 0
    BY <1>4
  <2>3. Stands(ms[1], msg, After(p, P[1 - 1]))
    BY <2>1, <2>2 DEF Consecutive
  <2>4. Stands(ms[1], msg, p)
    BY <1>1, <2>2, <2>3
  <2>5. ms[1] \in Seq(Mark) /\ Len(ms[1]) >= 1
    BY <2>2 DEF PiecesOf
  <2>6. p \in 1..Len(msg) /\ msg[p] = ms[1][1]
    BY <2>4, <2>5, StandsAtMark
  <2> QED
    BY <1>4, <2>6, <1>a DEF BeginsWith
<1> QED
  BY <1>3, <1>4

(* A list of readable values.                                              *)
LEMMA ListReadable ==
  ASSUME NEW type \in {"a", "r"}, NEW k \in Nat, NEW vs, DOMAIN vs = 1..k,
         \A i \in 1..k : Readable(vs[i])
  PROVE  Readable(List(type, vs))
<1> DEFINE w == List(type, vs)
           ms == [i \in 1..k |-> vs[i].marks]
           xs == [i \in 1..k |-> vs[i].meaning]
           X == {vs[i].meaning : i \in 1..k}
<1>t. type \in ContainerTypes /\ type # "v" /\ type # "e"
  BY DEF ContainerTypes
<1>c. PICK c \in Contents : c = ""
  <2>1. "" \in Contents
    BY DEF Contents
  <2> QED
    BY <2>1, Zenon
<1>0. \A i \in 1..k : Begins(vs[i].marks)
  BY DEF Readable
<1>m. /\ ms \in [1..k -> Seq(Mark)]
      /\ \A i \in 1..k : ms[i] = vs[i].marks /\ Len(ms[i]) >= 1
  BY <1>0 DEF Begins
<1>x. Family(xs, k, X) /\ \A i \in 1..k : xs[i] = vs[i].meaning
  BY DEF Family
<1>w. w.marks = Container(type, c, FlattenSeq(ms)) /\ w.meaning = Value("array", xs)
  BY <1>c DEF List
<1> HIDE DEF w, ms, xs, X
<1>1. PICK P : PiecesOf(P, ms, k) /\ FlattenSeq(ms) = P[k]
  BY <1>m, FlattenPieces
<1>s. P[k] \in Seq(Mark)
  <2>1. k \in 0..k
    OBVIOUS
  <2> QED
    BY <1>1, <2>1 DEF PiecesOf
<1>2. Begins(w.marks)
  <2>1. w.marks \in Seq(Mark) /\ Len(w.marks) = Len(P[k]) + 2 /\ w.marks[1] = Open(type, c)
    BY <1>1, <1>s, <1>t, <1>w, ContainerLength
  <2>2. Len(w.marks) >= 1
    BY <2>1, <1>s, LenProperties
  <2>3. w.marks[1].mark # "close" /\ w.marks[1].type # "e"
    BY <2>1, <1>t DEF Open
  <2> QED
    BY <2>1, <2>2, <2>3 DEF Begins
<1>3. ASSUME NEW msg \in Seq(Mark), NEW n \in 1..Len(msg), Len(w.marks) <= n,
             NEW at, Stands(w.marks, msg, at)
      PROVE  Readings(msg)[n][at] = Read(w.meaning, After(at, w.marks))
  <2>1. Stands(Container(type, c, P[k]), msg, at) /\ Len(Container(type, c, P[k])) <= n
    BY <1>1, <1>3, <1>w
  <2>2. ContainerAt(msg, at, type, c, P[k])
    BY <1>s, <1>t, <2>1, StandsContainer
  <2>3. /\ at \in 1..Len(msg) /\ msg[at] = Open(type, c)
        /\ After(at + 1, P[k]) \in 1..Len(msg) /\ msg[After(at + 1, P[k])] = Close
        /\ After(at, Container(type, c, P[k])) = After(at + 1, P[k]) + 1
    BY <2>2 DEF ContainerAt
  <2>4. Len(msg) \in Nat
    OBVIOUS
  <2>nested. PICK nested : nested = Readings(msg)[n - 1]
    OBVIOUS
  <2>5. ASSUME NEW i \in 1..k PROVE PartRead(ms[i], xs[i], msg, nested)
    <3>1. Len(ms[i]) <= Len(P[k])
      BY <1>1, PiecesLong
    <3>2. Len(vs[i].marks) <= Len(P[k])
      BY <1>m, <3>1
    <3>3. ReadIn(vs[i], msg, n - 1)
      BY <1>s, <1>t, <2>1, <3>2, RoomInside
    <3>4. ASSUME NEW p, Stands(ms[i], msg, p)
          PROVE  ~AtEnd(msg, p) /\ nested[p] = Read(xs[i], After(p, ms[i]))
      <4>1. ms[i] = vs[i].marks /\ xs[i] = vs[i].meaning
        BY <1>m, <1>x
      <4>2. ms[i] \in Seq(Mark) /\ Len(ms[i]) >= 1 /\ ms[i][1].mark # "close"
        BY <1>0, <4>1 DEF Begins
      <4>3. p \in 1..Len(msg) /\ msg[p] = ms[i][1]
        BY <3>4, <4>2, StandsAtMark
      <4>4. ~AtEnd(msg, p)
        BY <2>4, <4>2, <4>3, NotAtEnd
      <4>5. Readings(msg)[n - 1][p] = Read(xs[i], After(p, ms[i]))
        BY <3>3, <3>4, <4>1 DEF ReadIn
      <4> QED
        BY <4>4, <4>5, <2>nested
    <3> QED
      BY <3>4 DEF PartRead
  <2>6. Parts(msg, nested, at + 1) = Read(xs, After(at + 1, P[k]))
    <3>1. AllRead(ms, xs, k, msg, nested)
      BY <2>5 DEF AllRead
    <3> QED
      BY <1>1, <1>t, <1>x, <2>1, <2>2, <3>1, HeldParts
  <2>e. PICK e \in 1..Len(msg) : e = After(at + 1, P[k])
    BY <2>3
  <2>7. ListBegins(msg, at + 1, c)
    <3>1. c # "{}"
      BY <1>c
    <3>2. IF k = 0 THEN AtEnd(msg, at + 1) ELSE at + 1 \in 1..Len(msg) /\ msg[at + 1] = ms[1][1]
      <4>1. BeginsWith(msg, at + 1, k, ms)
        BY <1>1, <2>2, HeldFirst
      <4> QED
        BY <4>1 DEF BeginsWith
    <3>3. CASE k = 0
      BY <3>1, <3>2, <3>3 DEF ListBegins
    <3>4. CASE k # 0
      <4>1. 1 \in 1..k
        BY <3>4
      <4>2. ms[1][1].type # "e"
        BY <1>0, <1>m, <4>1 DEF Begins
      <4> QED
        BY <3>1, <3>2, <3>4, <4>2 DEF ListBegins
    <3> QED
      BY <3>3, <3>4
  <2>8. ReadAt(msg, nested, at) = Read(Value("array", xs), e + 1)
    <3>p. PICK p : p = at + 1
      OBVIOUS
    <3>1. /\ msg[e] = Close /\ Parts(msg, nested, p) = Read(xs, e) /\ msg[at] = Open(type, c)
          /\ ListBegins(msg, p, c)
      BY <2>3, <2>6, <2>7, <2>e, <3>p
    <3>2. type # "v"
      BY <1>t
    <3> QED
      BY <2>4, <3>p, <3>1, <3>2, ReadAtList
  <2>9. Readings(msg)[n][at] = ReadAt(msg, nested, at)
    BY <2>3, <2>nested, ReadingAt
  <2> QED
    BY <1>1, <1>w, <2>3, <2>e, <2>8, <2>9
<1>4. Readable(w)
  BY <1>2, <1>3 DEF Readable, ReadIn
<1> QED
  BY <1>4 DEF w

-----------------------------------------------------------------------------
(* Dictionaries.                                                           *)

(* The dictionary after each of N entries.                                 *)
IsResult(f, N, pairs) ==
    f = [n \in 0..N |-> IF n = 0 THEN <<>> ELSE emplace(f[n - 1], pairs[n][1], pairs[n][2])]

(* There is one, after any number of entries.                              *)
LEMMA ResultExists == ASSUME NEW pairs, NEW N \in Nat PROVE \E f : IsResult(f, N, pairs)
<1> DEFINE D(n, prev) == IF n = 0 THEN <<>> ELSE emplace(prev, pairs[n][1], pairs[n][2])
<1> DEFINE S == {n \in 0..N : \E f : IsResult(f, n, pairs)}
<1>1. 0 \in S
  <2>1. IsResult([n \in 0..0 |-> <<>>], 0, pairs)
    BY DEF IsResult
  <2> QED
    BY <2>1
<1>2. ASSUME NEW n \in 1..N, n - 1 \in S PROVE n \in S
  <2>1. PICK f : IsResult(f, n - 1, pairs)
    BY <1>2
  <2>a. f = [m \in 0..n - 1 |-> D(m, f[m - 1])]
    BY <2>1 DEF IsResult
  <2>b. \A x, y : D(0, x) = D(0, y)
    OBVIOUS
  <2> HIDE DEF D
  <2> DEFINE g == [m \in 0..n |-> IF m = n THEN D(n, f[n - 1]) ELSE f[m]]
  <2>2. \A m \in 0..n - 1 : g[m] = f[m]
    OBVIOUS
  <2>3. \A m \in 0..n - 1 : f[m] = D(m, f[m - 1])
    BY <2>a
  <2>4. ASSUME NEW m \in 0..n PROVE g[m] = D(m, g[m - 1])
    <3>1. CASE m = n
      <4>1. g[m] = D(n, f[n - 1]) /\ n - 1 \in 0..n - 1
        BY <3>1
      <4>2. g[n - 1] = f[n - 1]
        BY <2>2, <4>1
      <4> QED
        BY <3>1, <4>1, <4>2
    <3>2. CASE m # n
      <4>1. m \in 0..n - 1 /\ (m # 0 => m - 1 \in 0..n - 1)
        BY <3>2
      <4>2. g[m] = f[m] /\ (m # 0 => g[m - 1] = f[m - 1])
        BY <2>2, <4>1
      <4>3. f[m] = D(m, f[m - 1])
        BY <2>3, <4>1
      <4> QED
        BY <2>b, <4>2, <4>3
    <3> QED
      BY <3>1, <3>2
  <2>5. g = [m \in 0..n |-> g[m]]
    OBVIOUS
  <2> HIDE DEF g
  <2>6. g = [m \in 0..n |-> D(m, g[m - 1])]
    BY <2>4, <2>5
  <2>7. IsResult(g, n, pairs)
    BY <2>6 DEF IsResult, D
  <2> QED
    BY <2>7
<1>3. 0..N \subseteq S
  <2> HIDE DEF S
  <2> QED
    BY <1>1, <1>2, UpTo
<1> QED
  BY <1>3

(* A dictionary of the first n entries, where the first entry for a key    *)
(* counts.                                                                 *)
IsFirst(pairs, i) == \A j \in 1..(i - 1) : pairs[j][1] # pairs[i][1]
IsMap(f, pairs, n) ==
    /\ f = [x \in {pairs[i][1] : i \in 1..n} |-> f[x]]
    /\ \A i \in 1..n : IsFirst(pairs, i) => f[pairs[i][1]] = pairs[i][2]

(* emplace adds an entry.                                                  *)
LEMMA EmplaceMaps ==
  ASSUME NEW n \in Nat, n >= 1, NEW pairs, NEW f, IsMap(f, pairs, n - 1)
  PROVE  IsMap(emplace(f, pairs[n][1], pairs[n][2]), pairs, n)
<1> DEFINE key == pairs[n][1]
           value == pairs[n][2]
           K(m) == {pairs[i][1] : i \in 1..m}
           g == [x \in DOMAIN f \cup {key} |-> IF x \in DOMAIN f THEN f[x] ELSE value]
<1>0. g = emplace(f, key, value)
  BY DEF emplace
<1>1. DOMAIN f = K(n - 1)
  BY DEF IsMap
<1>2. K(n) = K(n - 1) \cup {key}
  <2>1. \A i \in 1..n : i = n \/ i \in 1..(n - 1)
    OBVIOUS
  <2>2. \A i \in 1..(n - 1) : i \in 1..n
    OBVIOUS
  <2>3. n \in 1..n
    OBVIOUS
  <2> QED
    BY <2>1, <2>2, <2>3
<1>3. \A i \in 1..(n - 1) : IsFirst(pairs, i) => f[pairs[i][1]] = pairs[i][2]
  BY DEF IsMap
<1>4. \A i \in 1..(n - 1) : pairs[i][1] \in K(n - 1)
  OBVIOUS
<1>5. \A x : x \in K(n - 1) => \E i \in 1..(n - 1) : x = pairs[i][1]
  OBVIOUS
<1>6. key \in K(n)
  BY <1>2
<1> HIDE DEF K
<1>7. g = [x \in K(n) |-> g[x]]
  BY <1>1, <1>2
<1>8. \A x \in K(n - 1) : g[x] = f[x]
  BY <1>1
<1>9. key \notin K(n - 1) => g[key] = value
  BY <1>1
<1> HIDE DEF g
<1>10. ASSUME NEW i \in 1..n, IsFirst(pairs, i) PROVE g[pairs[i][1]] = pairs[i][2]
  <2>1. CASE i = n
    <3>1. \A j \in 1..(n - 1) : pairs[j][1] # key
      BY <1>10, <2>1 DEF IsFirst
    <3>2. key \notin K(n - 1)
      BY <1>5, <3>1
    <3> QED
      BY <1>9, <2>1, <3>2
  <2>2. CASE i # n
    <3>1. i \in 1..(n - 1)
      BY <2>2
    <3>2. f[pairs[i][1]] = pairs[i][2]
      BY <1>3, <1>10, <3>1
    <3> QED
      BY <1>4, <1>8, <3>1, <3>2
  <2> QED
    BY <2>1, <2>2
<1>11. IsMap(g, pairs, n)
  BY <1>7, <1>10 DEF IsMap, K
<1> QED
  BY <1>0, <1>11

(* The empty sequence is a function on nothing.                            *)
LEMMA NothingMapped == ASSUME NEW pairs PROVE IsMap(<<>>, pairs, 0)
<1>1. {pairs[i][1] : i \in 1..0} = {}
  OBVIOUS
<1>2. <<>> = [x \in {} |-> <<>>[x]]
  OBVIOUS
<1> QED
  BY <1>1, <1>2 DEF IsMap

(* The dictionary that read_dict makes of the entries, up to the position. *)
DictIs(msg, nested, at, pairs, k, e) ==
    \E f : IsMap(f, pairs, k) /\ read_dict(msg, nested, at) = Read(Value("dict", f), e)

(* It makes one of whatever entries a loop reads.                          *)
LEMMA DictRead ==
  ASSUME NEW msg, NEW nested, NEW at, NEW k \in Nat, NEW pairs, Len(pairs) = k, NEW e,
         Parts(msg, [p \in 1..Len(msg) |-> EntryAt(msg, nested, p)], at) = Read(pairs, e)
  PROVE  DictIs(msg, nested, at, pairs, k, e)
<1> DEFINE r == CHOOSE r : r = [n \in 0..k |-> IF n = 0 THEN <<>>
                                  ELSE emplace(r[n - 1], pairs[n][1], pairs[n][2])]
<1>1. r = [n \in 0..k |-> IF n = 0 THEN <<>> ELSE emplace(r[n - 1], pairs[n][1], pairs[n][2])]
  <2>1. \E f : IsResult(f, k, pairs)
    BY ResultExists
  <2> QED
    BY <2>1 DEF IsResult
<1> DEFINE read == Parts(msg, [p \in 1..Len(msg) |-> EntryAt(msg, nested, p)], at)
<1>2. read.value = pairs /\ read.at = e
  BY ReadIs
<1>3. read_dict(msg, nested, at) = Read(Value("dict", r[k]), e)
  <2>1. read_dict(msg, nested, at) =
          LET result == CHOOSE result : result = [n \in 0..Len(read.value) |->
                IF n = 0 THEN <<>>
                ELSE emplace(result[n - 1], read.value[n][1], read.value[n][2])]
          IN Read(Value("dict", result[Len(read.value)]), read.at)
    BY DEF read_dict
  <2> HIDE DEF read
  <2> QED
    BY <1>2, <2>1
<1> HIDE DEF r
<1>4. r[0] = <<>> /\ \A n \in 1..k : r[n] = emplace(r[n - 1], pairs[n][1], pairs[n][2])
  <2>1. 0 \in 0..k /\ \A n \in 1..k : n \in 0..k /\ n # 0
    OBVIOUS
  <2> QED
    BY <1>1, <2>1
<1> DEFINE S == {n \in 0..k : IsMap(r[n], pairs, n)}
<1>5. 0 \in S
  BY <1>4, NothingMapped
<1>6. ASSUME NEW n \in 1..k, n - 1 \in S PROVE n \in S
  <2>1. IsMap(r[n - 1], pairs, n - 1) /\ n \in Nat /\ n >= 1 /\ n \in 0..k
    BY <1>6
  <2>2. IsMap(emplace(r[n - 1], pairs[n][1], pairs[n][2]), pairs, n)
    BY <2>1, EmplaceMaps
  <2> QED
    BY <1>4, <2>1, <2>2
<1>7. 0..k \subseteq S
  <2> HIDE DEF S
  <2> QED
    BY <1>5, <1>6, UpTo
<1>8. IsMap(r[k], pairs, k)
  BY <1>7
<1> QED
  BY <1>3, <1>8 DEF DictIs

(* Marks that are read as a value, wherever they stand in the message.     *)
ReadsAs(marks, value, msg, nested) ==
    \A p : Stands(marks, msg, p) => nested[p] = Read(value, After(p, marks))

(* An entry is read wherever it stands, if its key and its value are.      *)
LEMMA EntryRead ==
  ASSUME NEW msg \in Seq(Mark), NEW nested, NEW c \in Contents, NEW t \in ContainerTypes,
         NEW a \in Seq(Mark), NEW b \in Seq(Mark), NEW key, NEW value,
         ReadsAs(a, key, msg, nested), ReadsAs(b, value, msg, nested),
         NEW at, Stands(Container(t, c, a \o b), msg, at)
  PROVE  /\ ~AtEnd(msg, at) /\ at \in 1..Len(msg)
         /\ EntryAt(msg, nested, at) = Read(<<key, value>>, After(at, Container(t, c, a \o b)))
<1>s. PICK s \in Seq(Mark) : s = a \o b
  <2>1. a \o b \in Seq(Mark)
    BY ConcatProperties
  <2> QED
    BY <2>1
<1>1. ContainerAt(msg, at, t, c, s)
  <2>1. Stands(Container(t, c, s), msg, at)
    BY <1>s
  <2> QED
    BY <2>1, StandsContainer
<1>2. /\ at \in 1..Len(msg) /\ msg[at] = Open(t, c) /\ Stands(s, msg, at + 1)
      /\ After(at + 1, s) \in 1..Len(msg) /\ msg[After(at + 1, s)] = Close
      /\ After(at, Container(t, c, s)) = After(at + 1, s) + 1
  BY <1>1 DEF ContainerAt
<1>p. PICK p : p = at + 1
  OBVIOUS
<1>3. Stands(a \o b, msg, p)
  BY <1>2, <1>s, <1>p
<1>4. /\ Stands(a, msg, p) /\ Stands(b, msg, After(p, a))
      /\ After(p, a \o b) = After(After(p, a), b)
  BY <1>3, StandsConcat
<1>e. PICK e \in 1..Len(msg) : e = After(p, s)
  BY <1>2, <1>p
<1>5. nested[p] = Read(key, After(p, a)) /\ nested[After(p, a)] = Read(value, e)
  BY <1>4, <1>e, <1>s DEF ReadsAs
<1>6. Len(msg) \in Nat
  OBVIOUS
<1>7. exit_container(msg, e) = e + 1
  <2>1. msg[e] = Close
    BY <1>2, <1>e, <1>p
  <2> QED
    BY <1>6, <2>1, AtClose
<1>8. ~AtEnd(msg, at)
  <2>1. msg[at].mark # "close"
    BY <1>2 DEF Open
  <2> QED
    BY <1>2, <1>6, <2>1, NotAtEnd
<1>9. EntryAt(msg, nested, at) = Read(<<key, value>>, e + 1)
  <2>1. nested[enter_container(at)] = Read(key, After(p, a))
    BY <1>5, <1>p DEF enter_container
  <2>2. nested[enter_container(at)].value = key /\ nested[enter_container(at)].at = After(p, a)
    BY <2>1, ReadIs
  <2>3. nested[After(p, a)].value = value /\ nested[After(p, a)].at = e
    BY <1>5, ReadIs
  <2>4. EntryAt(msg, nested, at) =
          Read(<<nested[enter_container(at)].value, nested[nested[enter_container(at)].at].value>>,
               exit_container(msg, nested[nested[enter_container(at)].at].at))
    BY DEF EntryAt
  <2> QED
    BY <1>7, <2>2, <2>3, <2>4
<1>10. After(at, Container(t, c, a \o b)) = e + 1
  BY <1>2, <1>e, <1>p, <1>s
<1> QED
  BY <1>2, <1>8, <1>9, <1>10

(* So it is a part that a loop over entries reads.                         *)
LEMMA EntryPart ==
  ASSUME NEW msg \in Seq(Mark), NEW nested, NEW c \in Contents, NEW t \in ContainerTypes,
         NEW a \in Seq(Mark), NEW b \in Seq(Mark), NEW key, NEW value,
         ReadsAs(a, key, msg, nested), ReadsAs(b, value, msg, nested),
         NEW one, one = [p \in 1..Len(msg) |-> EntryAt(msg, nested, p)]
  PROVE  PartRead(Container(t, c, a \o b), <<key, value>>, msg, one)
<1>1. ASSUME NEW p, Stands(Container(t, c, a \o b), msg, p)
      PROVE  /\ ~AtEnd(msg, p)
             /\ one[p] = Read(<<key, value>>, After(p, Container(t, c, a \o b)))
  <2>1. /\ ~AtEnd(msg, p) /\ p \in 1..Len(msg)
        /\ EntryAt(msg, nested, p) = Read(<<key, value>>, After(p, Container(t, c, a \o b)))
    BY <1>1, EntryRead
  <2>2. one[p] = EntryAt(msg, nested, p)
    BY <2>1
  <2> QED
    BY <2>1, <2>2
<1> QED
  BY <1>1 DEF PartRead

(* The first entry with a key.                                             *)
IsFirstWith(entries, k, n, key) ==
    /\ n \in 1..k /\ entries[n][1].meaning = key
    /\ \A j \in 1..(n - 1) : entries[j][1].meaning # key

(* The entry of a dictionary that is the first one with its key.           *)
LEMMA FirstWithIs ==
  ASSUME NEW k \in Nat, NEW entries, DOMAIN entries = 1..k, NEW i \in 1..k
  PROVE  IsFirstWith(entries, k, FirstWith(entries, entries[i][1].meaning), entries[i][1].meaning)
<1> DEFINE key == entries[i][1].meaning
           T == {n \in 1..k : entries[n][1].meaning = key}
<1>1. PICK n \in T : \A m \in T : n <= m
  <2>1. T \in SUBSET Nat /\ T # {}
    OBVIOUS
  <2> HIDE DEF T
  <2> QED
    BY <2>1, LeastElement
<1>2. n \in 1..k /\ entries[n][1].meaning = key /\ \A j \in 1..(n - 1) : entries[j][1].meaning # key
  <2>1. n \in 1..k /\ entries[n][1].meaning = key
    OBVIOUS
  <2>2. ASSUME NEW j \in 1..(n - 1) PROVE entries[j][1].meaning # key
    <3>1. j \in 1..k /\ ~(n <= j)
      BY <2>1
    <3>2. j \notin T
      BY <1>1, <3>1
    <3> QED
      BY <3>1, <3>2
  <2> QED
    BY <2>1, <2>2
<1> HIDE DEF T
<1>3. \E f \in DOMAIN entries : /\ entries[f][1].meaning = key
                                /\ \A j \in 1..(f - 1) : entries[j][1].meaning # key
  BY <1>2
<1> HIDE DEF key
<1>4. /\ FirstWith(entries, key) \in DOMAIN entries
      /\ entries[FirstWith(entries, key)][1].meaning = key
      /\ \A j \in 1..(FirstWith(entries, key) - 1) : entries[j][1].meaning # key
  BY <1>3, Zenon DEF FirstWith
<1> QED
  BY <1>4 DEF key, IsFirstWith

(* Pairs of a key and a value that are read for what they mean.            *)
Entries(entries, k) ==
    /\ DOMAIN entries = 1..k
    /\ \A i \in 1..k : Readable(entries[i][1]) /\ Readable(entries[i][2])

(* The marks and the meaning of the entries.                               *)
Chunks(entries, k) == [i \in 1..k |-> EntryMarks(entries[i])]
Pairs(entries, k) == [i \in 1..k |-> <<entries[i][1].meaning, entries[i][2].meaning>>]

(* An entry is not empty, and longer than its key and than its value.      *)
LEMMA EntryLong ==
  ASSUME NEW k \in Nat, NEW entries, Entries(entries, k), NEW i \in 1..k
  PROVE  /\ EntryMarks(entries[i]) \in Seq(Mark) /\ Len(EntryMarks(entries[i])) >= 1
         /\ EntryMarks(entries[i])[1] = Open("e", "")
         /\ Len(entries[i][1].marks) <= Len(EntryMarks(entries[i]))
         /\ Len(entries[i][2].marks) <= Len(EntryMarks(entries[i]))
<1>a. PICK a \in Seq(Mark) : a = entries[i][1].marks
  BY DEF Entries, Readable, Begins
<1>b. PICK b \in Seq(Mark) : b = entries[i][2].marks
  BY DEF Entries, Readable, Begins
<1>s. PICK s \in Seq(Mark) : s = a \o b
  <2>1. a \o b \in Seq(Mark)
    BY ConcatProperties
  <2> QED
    BY <2>1
<1>1. Len(s) = Len(a) + Len(b) /\ Len(a) \in Nat /\ Len(b) \in Nat
  BY <1>s, ConcatLong
<1>2. "e" \in ContainerTypes /\ "" \in Contents
  BY DEF ContainerTypes, Contents
<1>m. PICK m : m = Container("e", "", s)
  OBVIOUS
<1>3. m \in Seq(Mark) /\ Len(m) = Len(s) + 2 /\ m[1] = Open("e", "")
  BY <1>2, <1>m, ContainerLength
<1>4. EntryMarks(entries[i]) = m
  BY <1>a, <1>b, <1>s, <1>m DEF EntryMarks
<1>5. Len(m) >= 1 /\ Len(a) <= Len(m) /\ Len(b) <= Len(m)
  <2>1. PICK x \in Nat : x = Len(a)
    BY <1>1
  <2>2. PICK y \in Nat : y = Len(b)
    BY <1>1
  <2>3. Len(m) = (x + y) + 2
    BY <1>1, <1>3, <2>1, <2>2
  <2>4. (x + y) + 2 >= 1 /\ x <= (x + y) + 2 /\ y <= (x + y) + 2
    OBVIOUS
  <2> QED
    BY <2>1, <2>2, <2>3, <2>4
<1> QED
  BY <1>3, <1>4, <1>5, <1>a, <1>b

(* A dictionary of the entries' meanings, the first of each key, is what   *)
(* the dictionary means.                                                   *)
LEMMA MapIsMeaning ==
  ASSUME NEW k \in Nat, NEW entries, DOMAIN entries = 1..k, NEW f,
         IsMap(f, Pairs(entries, k), k)
  PROVE  Dict(entries).meaning = Value("dict", f)
<1> DEFINE xs == Pairs(entries, k)
           K == {entries[i][1].meaning : i \in 1..k}
<1>1. \A i \in 1..k : xs[i][1] = entries[i][1].meaning /\ xs[i][2] = entries[i][2].meaning
  BY DEF Pairs
<1>2. {xs[i][1] : i \in 1..k} = K
  BY <1>1
<1> HIDE DEF xs
<1>3. f = [x \in K |-> f[x]] /\ \A i \in 1..k : IsFirst(xs, i) => f[xs[i][1]] = xs[i][2]
  BY <1>2 DEF IsMap, xs
<1>4. ASSUME NEW x \in K PROVE f[x] = entries[FirstWith(entries, x)][2].meaning
  <2>1. PICK i \in 1..k : x = entries[i][1].meaning
    OBVIOUS
  <2>2. PICK n : n = FirstWith(entries, x)
    OBVIOUS
  <2>a. IsFirstWith(entries, k, FirstWith(entries, entries[i][1].meaning), entries[i][1].meaning)
    BY FirstWithIs
  <2>3. /\ n \in 1..k /\ entries[n][1].meaning = x
        /\ \A j \in 1..(n - 1) : entries[j][1].meaning # entries[n][1].meaning
    BY <2>1, <2>2, <2>a DEF IsFirstWith
  <2>4. IsFirst(xs, n)
    <3>1. \A j \in 1..(n - 1) : j \in 1..k
      BY <2>3
    <3> QED
      BY <1>1, <2>3, <3>1 DEF IsFirst
  <2>5. f[xs[n][1]] = xs[n][2]
    BY <1>3, <2>3, <2>4
  <2> QED
    BY <1>1, <2>2, <2>3, <2>5
<1>5. f = [x \in K |-> entries[FirstWith(entries, x)][2].meaning]
  <2> HIDE DEF K
  <2> QED
    BY <1>3, <1>4
<1>6. Dict(entries).meaning =
        Value("dict", [x \in {entries[i][1].meaning : i \in DOMAIN entries} |->
                         entries[FirstWith(entries, x)][2].meaning])
  BY DEF Dict
<1> QED
  BY <1>5, <1>6

(* A dictionary of readable keys and values.                               *)
LEMMA DictReadable ==
  ASSUME NEW k \in Nat, NEW entries, Entries(entries, k)
  PROVE  Readable(Dict(entries))
<1> DEFINE w == Dict(entries)
           X == {<<entries[i][1].meaning, entries[i][2].meaning>> : i \in 1..k}
<1>ms. PICK ms : ms = Chunks(entries, k)
  OBVIOUS
<1>xs. PICK xs : xs = Pairs(entries, k)
  OBVIOUS
<1>t. PICK t \in ContainerTypes : t = "a"
  <2>1. "a" \in ContainerTypes
    BY DEF ContainerTypes
  <2> QED
    BY <2>1, Zenon
<1>c. PICK c \in Contents : c = "{}"
  <2>1. "{}" \in Contents
    BY DEF Contents
  <2> QED
    BY <2>1, Zenon
<1>d. DOMAIN entries = 1..k
  BY DEF Entries
<1>0. \A i \in 1..k : /\ ms[i] = EntryMarks(entries[i])
                      /\ xs[i] = <<entries[i][1].meaning, entries[i][2].meaning>>
  BY <1>ms, <1>xs DEF Chunks, Pairs
<1>m. /\ ms \in [1..k -> Seq(Mark)]
      /\ \A i \in 1..k : Len(ms[i]) >= 1
  <2>1. \A i \in 1..k : EntryMarks(entries[i]) \in Seq(Mark) /\ Len(EntryMarks(entries[i])) >= 1
    BY EntryLong
  <2> QED
    BY <1>0, <1>ms, <2>1 DEF Chunks
<1>x. Family(xs, k, X)
  BY <1>xs DEF Family, Pairs
<1>l. Len(xs) = k
  BY <1>xs DEF Pairs
<1>w. w.marks = Container(t, c, FlattenSeq(ms))
  <2>1. ms = [i \in DOMAIN entries |-> EntryMarks(entries[i])]
    BY <1>d, <1>ms DEF Chunks
  <2> QED
    BY <1>t, <1>c, <2>1 DEF Dict
<1> HIDE DEF w, X
<1>1. PICK P : PiecesOf(P, ms, k) /\ FlattenSeq(ms) = P[k]
  BY <1>m, FlattenPieces
<1>s. P[k] \in Seq(Mark)
  <2>1. k \in 0..k
    OBVIOUS
  <2> QED
    BY <1>1, <2>1 DEF PiecesOf
<1>2. Begins(w.marks)
  <2>1. w.marks \in Seq(Mark) /\ Len(w.marks) = Len(P[k]) + 2 /\ w.marks[1] = Open(t, c)
    BY <1>1, <1>s, <1>w, ContainerLength
  <2>2. Len(w.marks) >= 1
    BY <2>1, <1>s, LenProperties
  <2>3. w.marks[1].mark # "close" /\ w.marks[1].type # "e"
    BY <2>1, <1>t DEF Open
  <2> QED
    BY <2>1, <2>2, <2>3 DEF Begins
<1>3. ASSUME NEW msg \in Seq(Mark), NEW n \in 1..Len(msg), Len(w.marks) <= n,
             NEW at, Stands(w.marks, msg, at)
      PROVE  Readings(msg)[n][at] = Read(w.meaning, After(at, w.marks))
  <2>1. Stands(Container(t, c, P[k]), msg, at) /\ Len(Container(t, c, P[k])) <= n
    BY <1>1, <1>3, <1>w
  <2>2. ContainerAt(msg, at, t, c, P[k])
    BY <1>s, <2>1, StandsContainer
  <2>3. /\ at \in 1..Len(msg) /\ msg[at] = Open(t, c)
        /\ After(at + 1, P[k]) \in 1..Len(msg) /\ msg[After(at + 1, P[k])] = Close
        /\ After(at, Container(t, c, P[k])) = After(at + 1, P[k]) + 1
    BY <2>2 DEF ContainerAt
  <2>4. Len(msg) \in Nat
    OBVIOUS
  <2>nested. PICK nested : nested = Readings(msg)[n - 1]
    OBVIOUS
  <2>one. PICK one : one = [p \in 1..Len(msg) |-> EntryAt(msg, nested, p)]
    OBVIOUS
  <2>5. ASSUME NEW i \in 1..k PROVE PartRead(ms[i], xs[i], msg, one)
    <3>a. PICK a \in Seq(Mark) : a = entries[i][1].marks
      BY DEF Entries, Readable, Begins
    <3>b. PICK b \in Seq(Mark) : b = entries[i][2].marks
      BY DEF Entries, Readable, Begins
    <3>1. Len(a) <= Len(P[k]) /\ Len(b) <= Len(P[k])
      <4>1. Len(ms[i]) <= Len(P[k]) /\ ms[i] \in Seq(Mark)
        BY <1>1, <1>m, PiecesLong
      <4>2. Len(a) <= Len(ms[i]) /\ Len(b) <= Len(ms[i])
        BY <1>0, <3>a, <3>b, EntryLong
      <4>3. Len(a) \in Nat /\ Len(b) \in Nat /\ Len(ms[i]) \in Nat /\ Len(P[k]) \in Nat
        BY <1>s, <4>1, LenProperties
      <4> QED
        BY ONLY <4>1, <4>2, <4>3
    <3>2. ReadIn(entries[i][1], msg, n - 1) /\ ReadIn(entries[i][2], msg, n - 1)
      <4>1. Readable(entries[i][1]) /\ Readable(entries[i][2])
        BY DEF Entries
      <4>2. Len(entries[i][1].marks) <= Len(P[k]) /\ Len(entries[i][2].marks) <= Len(P[k])
        BY <3>a, <3>b, <3>1
      <4>3. ReadIn(entries[i][1], msg, n - 1)
        BY <1>s, <2>1, <4>1, <4>2, RoomInside
      <4>4. ReadIn(entries[i][2], msg, n - 1)
        BY <1>s, <2>1, <4>1, <4>2, RoomInside
      <4> QED
        BY <4>3, <4>4
    <3>key. PICK key : key = entries[i][1].meaning
      OBVIOUS
    <3>value. PICK value : value = entries[i][2].meaning
      OBVIOUS
    <3>3. ReadsAs(a, key, msg, nested)
      BY <2>nested, <3>2, <3>a, <3>key DEF ReadIn, ReadsAs
    <3>4. ReadsAs(b, value, msg, nested)
      BY <2>nested, <3>2, <3>b, <3>value DEF ReadIn, ReadsAs
    <3>e. PICK et \in ContainerTypes : et = "e"
      <4>1. "e" \in ContainerTypes
        BY DEF ContainerTypes
      <4> QED
        BY <4>1, Zenon
    <3>ec. PICK ec \in Contents : ec = ""
      <4>1. "" \in Contents
        BY DEF Contents
      <4> QED
        BY <4>1, Zenon
    <3>5. ms[i] = Container(et, ec, a \o b)
      BY <1>0, <3>a, <3>b, <3>e, <3>ec DEF EntryMarks
    <3>6. PartRead(Container(et, ec, a \o b), <<key, value>>, msg, one)
      BY <3>3, <3>4, <2>one, EntryPart
    <3>7. xs[i] = <<key, value>>
      BY <1>0, <3>key, <3>value
    <3> QED
      BY <3>5, <3>6, <3>7
  <2>6. Parts(msg, one, at + 1) = Read(xs, After(at + 1, P[k]))
    <3>1. AllRead(ms, xs, k, msg, one)
      BY <2>5 DEF AllRead
    <3> QED
      BY <1>1, <1>x, <2>1, <2>2, <3>1, HeldParts
  <2>e. PICK e \in 1..Len(msg) : e = After(at + 1, P[k])
    BY <2>3
  <2>7. DictBegins(msg, at + 1)
    <3>1. BeginsWith(msg, at + 1, k, ms)
      BY <1>1, <2>2, HeldFirst
    <3>2. CASE k = 0
      BY <3>1, <3>2 DEF DictBegins, BeginsWith
    <3>3. CASE k # 0
      <4>1. 1 \in 1..k
        BY <3>3
      <4>2. EntryMarks(entries[1])[1] = Open("e", "")
        BY <4>1, EntryLong
      <4>3. ms[1] = EntryMarks(entries[1])
        BY <1>0, <4>1
      <4>4. msg[at + 1] = ms[1][1]
        BY <3>1, <3>3 DEF BeginsWith
      <4>5. msg[at + 1] = Open("e", "")
        BY <4>2, <4>3, <4>4, Zenon
      <4>m. PICK m : m = msg[at + 1]
        OBVIOUS
      <4>6. m = Open("e", "")
        BY <4>5, <4>m
      <4>7. m.type = "e"
        BY ONLY <4>6 DEF Open
      <4> QED
        BY <4>m, <4>7 DEF DictBegins
    <3> QED
      BY <3>2, <3>3
  <2>f. DictIs(msg, nested, at + 1, xs, k, e)
    <3>p. PICK p : p = at + 1
      OBVIOUS
    <3>1. Parts(msg, [q \in 1..Len(msg) |-> EntryAt(msg, nested, q)], p) = Read(xs, e)
      BY <2>6, <2>e, <2>one, <3>p
    <3>2. DictIs(msg, nested, p, xs, k, e)
      BY <1>l, <3>1, DictRead
    <3> QED
      BY <3>p, <3>2
  <2>8. PICK f : IsMap(f, xs, k) /\ read_dict(msg, nested, at + 1) = Read(Value("dict", f), e)
    BY <2>f DEF DictIs
  <2>9. w.meaning = Value("dict", f)
    BY <1>d, <1>xs, <2>8, MapIsMeaning DEF w
  <2>10. ReadAt(msg, nested, at) = Read(w.meaning, e + 1)
    <3>d. PICK dict : dict = w.meaning
      OBVIOUS
    <3>p. PICK p : p = at + 1
      OBVIOUS
    <3>1. msg[e] = Close /\ read_dict(msg, nested, p) = Read(dict, e) /\ DictBegins(msg, p)
      BY <2>3, <2>e, <2>7, <2>8, <2>9, <3>d, <3>p
    <3>2. OpensDict(msg[at])
      BY <1>t, <1>c, <2>3 DEF OpensDict
    <3>3. ReadAt(msg, nested, at) = Read(dict, e + 1)
      BY <2>4, <3>p, <3>1, <3>2, ReadAtDict
    <3> QED
      BY <3>d, <3>3
  <2>11. Readings(msg)[n][at] = ReadAt(msg, nested, at)
    BY <2>3, <2>nested, ReadingAt
  <2> QED
    BY <1>1, <1>w, <2>3, <2>e, <2>10, <2>11
<1>4. Readable(w)
  BY <1>2, <1>3 DEF Readable, ReadIn
<1> QED
  BY <1>4 DEF w

-----------------------------------------------------------------------------
(* A readable value in a message.                                          *)

(* A readable value is read by DBusType wherever it stands in a message.   *)
LEMMA TypeRead ==
  ASSUME NEW msg \in Seq(Mark), NEW v, Readable(v), NEW at, Stands(v.marks, msg, at)
  PROVE  DBusType(msg, at) = Read(v.meaning, After(at, v.marks))
<1>l. PICK l \in Nat : l = Len(msg)
  OBVIOUS
<1>1. v.marks \in Seq(Mark) /\ Len(v.marks) >= 1
  BY DEF Readable, Begins
<1>k. PICK k \in Nat : k = Len(v.marks)
  BY <1>1
<1>2. at \in Nat /\ at >= 1 /\ at - 1 + k <= l /\ k >= 1
  BY <1>1, <1>k, <1>l DEF Stands
<1>3. l \in 1..l /\ k <= l
  BY <1>2
<1>4. Len(msg) \in 1..Len(msg) /\ Len(v.marks) <= Len(msg)
  BY <1>3, <1>k, <1>l
<1>5. ReadIn(v, msg, Len(msg))
  BY <1>4 DEF Readable
<1> QED
  BY <1>5 DEF ReadIn, DBusType

(* What a message is put together from stands in it.                       *)
LEMMA StandsBetween ==
  ASSUME NEW a \in Seq(Mark), NEW b \in Seq(Mark), NEW c \in Seq(Mark)
  PROVE  /\ (a \o b) \o c \in Seq(Mark) /\ Stands(b, (a \o b) \o c, Len(a) + 1)
         /\ After(Len(a) + 1, b) = Len(a) + Len(b) + 1
<1>l. PICK l \in Nat : l = Len(a)
  OBVIOUS
<1>m. PICK m \in Nat : m = Len(b)
  OBVIOUS
<1>n. PICK n \in Nat : n = Len(c)
  OBVIOUS
<1>s. PICK s \in Seq(Mark) : s = a \o b
  <2>1. a \o b \in Seq(Mark)
    BY ConcatProperties
  <2> QED
    BY <2>1
<1>msg. PICK msg \in Seq(Mark) : msg = s \o c
  <2>1. s \o c \in Seq(Mark)
    BY ConcatProperties
  <2> QED
    BY <2>1
<1>1. Len(s) = l + m /\ \A i \in 1..(l + m) : s[i] = IF i <= l THEN a[i] ELSE b[i - l]
  BY <1>l, <1>m, <1>s, ConcatProperties
<1>2. /\ Len(msg) = (l + m) + n
      /\ \A i \in 1..((l + m) + n) : msg[i] = IF i <= l + m THEN s[i] ELSE c[i - (l + m)]
  BY <1>1, <1>n, <1>msg, ConcatProperties
<1>3. ASSUME NEW k \in 1..m PROVE msg[(l + 1) - 1 + k] = b[k]
  <2>1. /\ (l + 1) - 1 + k = l + k /\ l + k \in 1..(l + m) /\ l + k \in 1..((l + m) + n)
        /\ l + k <= l + m /\ ~(l + k <= l) /\ l + k - l = k
    OBVIOUS
  <2>i. PICK i : i = l + k
    OBVIOUS
  <2>2. i \in 1..(l + m) /\ i \in 1..((l + m) + n) /\ i <= l + m /\ ~(i <= l) /\ i - l = k
    BY <2>1, <2>i
  <2>3. msg[i] = s[i]
    BY <1>2, <2>2
  <2>4. s[i] = b[i - l]
    BY <1>1, <2>2
  <2> QED
    BY <2>1, <2>2, <2>3, <2>4, <2>i
<1>4. l + 1 \in Nat /\ l + 1 >= 1 /\ (l + 1) - 1 + m <= (l + m) + n
  OBVIOUS
<1>5. Stands(b, msg, l + 1)
  BY <1>2, <1>3, <1>4, <1>m DEF Stands
<1>6. (l + 1) + m = l + m + 1
  OBVIOUS
<1> QED
  BY <1>5, <1>6, <1>l, <1>m, <1>s, <1>msg DEF After

(* A readable value is read back, whatever stands before and after it.     *)
LEMMA ReadableReadsBack ==
  ASSUME NEW v, Readable(v), NEW before \in Seq(Mark), NEW following \in Seq(Mark)
  PROVE  ReadsBack(before, v, following)
<1>b. PICK b \in Seq(Mark) : b = v.marks
  BY DEF Readable, Begins
<1>msg. PICK msg : msg = (before \o b) \o following
  OBVIOUS
<1>p. PICK p : p = Len(before) + 1
  OBVIOUS
<1>1. msg \in Seq(Mark) /\ Stands(b, msg, p) /\ After(p, b) = Len(before) + Len(b) + 1
  BY <1>msg, <1>p, StandsBetween
<1>2. DBusType(msg, p) = Read(v.meaning, After(p, b))
  BY <1>1, <1>b, TypeRead
<1>3. before \o v.marks \o following = msg
  BY <1>b, <1>msg
<1> QED
  BY <1>1, <1>2, <1>3, <1>b, <1>p DEF ReadsBack

(* A value that is all of a message.                                       *)
LEMMA ReadAlone ==
  ASSUME NEW v, Readable(v)
  PROVE  DBusType(v.marks, 1) = Read(v.meaning, Len(v.marks) + 1)
<1>b. PICK b \in Seq(Mark) : b = v.marks
  BY DEF Readable, Begins
<1>m. PICK m \in Nat : m = Len(b)
  OBVIOUS
<1>1. Stands(b, b, 1)
  <2>1. 1 \in Nat /\ 1 >= 1 /\ 1 - 1 + m <= m /\ \A k \in 1..m : 1 - 1 + k = k
    OBVIOUS
  <2> QED
    BY <1>m, <2>1 DEF Stands
<1>2. After(1, b) = Len(b) + 1
  <2>1. 1 + m = m + 1
    OBVIOUS
  <2> QED
    BY <1>m, <2>1 DEF After
<1>one. PICK one : one = 1
  OBVIOUS
<1>3. DBusType(b, one) = Read(v.meaning, After(one, b))
  <2>1. Stands(v.marks, b, one)
    BY <1>1, <1>b, <1>one
  <2> QED
    BY <1>b, <2>1, TypeRead
<1> QED
  BY <1>2, <1>3, <1>b, <1>one

(* Two values, one read after the other.                                   *)
ReadsTwo(msg, v, w) ==
    /\ DBusType(msg, 1) = Read(v.meaning, Len(v.marks) + 1)
    /\ DBusType(msg, Len(v.marks) + 1) = Read(w.meaning, Len(msg) + 1)

(* So a message is read that holds two.                                    *)
LEMMA ReadPair ==
  ASSUME NEW v, Readable(v), NEW w, Readable(w), NEW msg, msg = v.marks \o w.marks
  PROVE  ReadsTwo(msg, v, w)
<1>a. PICK a \in Seq(Mark) : a = v.marks
  BY DEF Readable, Begins
<1>b. PICK b \in Seq(Mark) : b = w.marks
  BY DEF Readable, Begins
<1>m. PICK m \in Nat : m = Len(a)
  OBVIOUS
<1>n. PICK n \in Nat : n = Len(b)
  OBVIOUS
<1>1. msg \in Seq(Mark) /\ msg = a \o b /\ Len(msg) = m + n
  BY <1>a, <1>b, <1>m, <1>n, ConcatProperties
<1>one. PICK one : one = 1
  OBVIOUS
<1>2. Stands(a \o b, msg, one)
  <2>k. PICK k \in Nat : k = Len(msg)
    BY <1>1
  <2>1. one \in Nat /\ one >= 1 /\ one - 1 + k <= k /\ \A i \in 1..k : one - 1 + i = i
    BY <1>one
  <2> QED
    BY <1>1, <2>k, <2>1 DEF Stands
<1>3. /\ Stands(a, msg, one) /\ Stands(b, msg, After(one, a))
      /\ After(one, a \o b) = After(After(one, a), b)
  <2>1. msg \in Seq(Mark)
    BY <1>1
  <2> QED
    BY ONLY <1>2, <2>1, a \in Seq(Mark), b \in Seq(Mark), StandsConcat
<1>4. After(one, a) = Len(a) + 1 /\ After(one, a \o b) = Len(msg) + 1
  <2>1. one + m = m + 1 /\ one + (m + n) = (m + n) + 1
    BY <1>one
  <2> QED
    BY <1>1, <1>m, <2>1 DEF After
<1>p. PICK p : p = After(one, a)
  OBVIOUS
<1>5. DBusType(msg, one) = Read(v.meaning, p)
  <2>1. Stands(v.marks, msg, one) /\ After(one, v.marks) = p
    BY <1>3, <1>a, <1>p
  <2> QED
    BY <1>1, <2>1, TypeRead
<1>6. DBusType(msg, p) = Read(w.meaning, After(p, b))
  <2>1. Stands(w.marks, msg, p)
    BY <1>3, <1>b, <1>p
  <2> QED
    BY <1>1, <1>b, <2>1, TypeRead
<1> QED
  BY <1>3, <1>4, <1>5, <1>6, <1>a, <1>one, <1>p DEF ReadsTwo

-----------------------------------------------------------------------------
(* The samples.                                                            *)

(* Short lists and dictionaries.                                           *)
LEMMA ShortLists ==
  ASSUME NEW type \in {"a", "r"}
  PROVE  /\ Readable(List(type, <<>>))
         /\ \A u : Readable(u) => Readable(List(type, <<u>>))
         /\ \A u, v : Readable(u) /\ Readable(v) => Readable(List(type, <<u, v>>))
         /\ \A u, v, w : Readable(u) /\ Readable(v) /\ Readable(w)
                           => Readable(List(type, <<u, v, w>>))
<1>1. Readable(List(type, <<>>))
  <2>vs. PICK vs : vs = <<>>
    OBVIOUS
  <2>k. PICK k \in Nat : k = 0
    OBVIOUS
  <2>1. DOMAIN vs = 1..k /\ \A i \in 1..k : Readable(vs[i])
    BY <2>vs, <2>k
  <2>2. Readable(List(type, vs))
    BY <2>1, ListReadable
  <2> QED
    BY <2>2, <2>vs
<1>2. ASSUME NEW u, Readable(u) PROVE Readable(List(type, <<u>>))
  <2>vs. PICK vs : vs = <<u>>
    OBVIOUS
  <2>k. PICK k \in Nat : k = 1
    OBVIOUS
  <2>1. DOMAIN vs = 1..k /\ \A i \in 1..k : Readable(vs[i])
    BY <1>2, <2>vs, <2>k
  <2>2. Readable(List(type, vs))
    BY <2>1, ListReadable
  <2> QED
    BY <2>2, <2>vs
<1>3. ASSUME NEW u, NEW v, Readable(u), Readable(v) PROVE Readable(List(type, <<u, v>>))
  <2>vs. PICK vs : vs = <<u, v>>
    OBVIOUS
  <2>k. PICK k \in Nat : k = 2
    OBVIOUS
  <2>1. DOMAIN vs = 1..k /\ \A i \in 1..k : Readable(vs[i])
    BY <1>3, <2>vs, <2>k
  <2>2. Readable(List(type, vs))
    BY <2>1, ListReadable
  <2> QED
    BY <2>2, <2>vs
<1>4. ASSUME NEW u, NEW v, NEW w, Readable(u), Readable(v), Readable(w)
      PROVE  Readable(List(type, <<u, v, w>>))
  <2>vs. PICK vs : vs = <<u, v, w>>
    OBVIOUS
  <2>k. PICK k \in Nat : k = 3
    OBVIOUS
  <2>1. DOMAIN vs = 1..k /\ \A i \in 1..k : Readable(vs[i])
    BY <1>4, <2>vs, <2>k
  <2>2. Readable(List(type, vs))
    BY <2>1, ListReadable
  <2> QED
    BY <2>2, <2>vs
<1> QED
  BY <1>1, <1>2, <1>3, <1>4

(* Short dictionaries.                                                     *)
LEMMA ShortDicts ==
  /\ Readable(Dict(<<>>))
  /\ \A u, v : Readable(u) /\ Readable(v) => Readable(Dict(<<<<u, v>>>>))
  /\ \A t, u, v, w : Readable(t) /\ Readable(u) /\ Readable(v) /\ Readable(w)
                       => Readable(Dict(<<<<t, u>>, <<v, w>>>>))
<1>1. Readable(Dict(<<>>))
  <2>es. PICK es : es = <<>>
    OBVIOUS
  <2>k. PICK k \in Nat : k = 0
    OBVIOUS
  <2>1. DOMAIN es = 1..k /\ \A i \in 1..k : Readable(es[i][1]) /\ Readable(es[i][2])
    BY <2>es, <2>k
  <2>2. Readable(Dict(es))
    BY <2>1, DictReadable DEF Entries
  <2> QED
    BY <2>2, <2>es
<1>2. ASSUME NEW u, NEW v, Readable(u), Readable(v) PROVE Readable(Dict(<<<<u, v>>>>))
  <2>es. PICK es : es = <<<<u, v>>>>
    OBVIOUS
  <2>k. PICK k \in Nat : k = 1
    OBVIOUS
  <2>1. DOMAIN es = 1..k /\ \A i \in 1..k : Readable(es[i][1]) /\ Readable(es[i][2])
    BY <1>2, <2>es, <2>k
  <2>2. Readable(Dict(es))
    BY <2>1, DictReadable DEF Entries
  <2> QED
    BY <2>2, <2>es
<1>3. ASSUME NEW t, NEW u, NEW v, NEW w, Readable(t), Readable(u), Readable(v), Readable(w)
      PROVE  Readable(Dict(<<<<t, u>>, <<v, w>>>>))
  <2>es. PICK es : es = <<<<t, u>>, <<v, w>>>>
    OBVIOUS
  <2>k. PICK k \in Nat : k = 2
    OBVIOUS
  <2>1. DOMAIN es = 1..k /\ \A i \in 1..k : Readable(es[i][1]) /\ Readable(es[i][2])
    <3>1. DOMAIN es = 1..2
      BY <2>es
    <3>2. es[1] = <<t, u>> /\ es[2] = <<v, w>>
      BY <2>es
    <3>3. Readable(es[1][1]) /\ Readable(es[1][2]) /\ Readable(es[2][1]) /\ Readable(es[2][2])
      BY <1>3, <3>2
    <3>4. \A i \in 1..2 : i = 1 \/ i = 2
      OBVIOUS
    <3> QED
      BY <2>k, <3>1, <3>3, <3>4
  <2>2. Readable(Dict(es))
    BY <2>1, DictReadable DEF Entries
  <2> QED
    BY <2>2, <2>es
<1> QED
  BY <1>1, <1>2, <1>3

(* A text, if it is one that a message can hold.                           *)
LEMMA TextReadable == ASSUME NEW s \in Datum PROVE Readable(Text(s))
<1>1. "s" \in BasicTypes
  BY DEF BasicTypes
<1>t. PICK t \in BasicTypes : t = "s"
  BY <1>1, Zenon
<1>2. Readable(BasicValue(t, s))
  BY BasicReadable
<1> QED
  BY <1>t, <1>2 DEF Text

(* The words of a message, its flags and its numbers.                      *)
LEMMA WordsReadable ==
  /\ \A s \in Words : Readable(Text(s)) /\ s \in Datum
  /\ Readable(Flag) /\ Readable(Number)
<1>1. \A s \in Words : Readable(Text(s)) /\ s \in Datum
  BY TextReadable DEF Datum
<1>2. Readable(Flag)
  <2>1. "b" \in BasicTypes /\ TRUE \in Datum
    BY DEF BasicTypes, Datum
  <2>t. PICK t \in BasicTypes : t = "b"
    BY <2>1, Zenon
  <2>of. PICK of \in Datum : of = TRUE
    BY <2>1, Zenon
  <2>2. Readable(BasicValue(t, of))
    BY BasicReadable
  <2> QED
    BY <2>t, <2>of, <2>2, Zenon DEF Flag
<1>3. Readable(Number)
  <2>1. "n" \in BasicTypes /\ -1 \in Datum
    BY DEF BasicTypes, Datum
  <2>t. PICK t \in BasicTypes : t = "n"
    BY <2>1, Zenon
  <2>of. PICK of \in Datum : of = -1
    BY <2>1, Zenon
  <2>2. Readable(BasicValue(t, of))
    BY BasicReadable
  <2> QED
    BY <2>t, <2>of, <2>2, Zenon DEF Number
<1> QED
  BY <1>1, <1>2, <1>3

(* The other properties of a device.                                       *)
LEMMA ExtrasReadable == ASSUME NEW n \in DOMAIN Extras PROVE Readable(Extras[n])
<1>a. "a" \in {"a", "r"} /\ "r" \in {"a", "r"}
  OBVIOUS
<1>ta. PICK a \in {"a", "r"} : a = "a"
  BY <1>a, Zenon
<1>tr. PICK r \in {"a", "r"} : r = "r"
  BY <1>a, Zenon
<1>t. PICK uuid : uuid = Text("uuid")
  OBVIOUS
<1>x. PICK x : x = Text("x")
  OBVIOUS
<1>1. Readable(uuid) /\ Readable(x)
  <2>1. "uuid" \in Words /\ "x" \in Words
    BY DEF Words
  <2> QED
    BY <1>t, <1>x, <2>1, WordsReadable, Zenon
<1>2. Readable(Flag) /\ Readable(Number)
  BY WordsReadable
<1>3. Readable(List(a, <<>>)) /\ Readable(List(a, <<uuid, uuid>>))
  BY <1>1, ShortLists
<1>4. Readable(Dict(<<>>))
  BY ShortDicts
<1>5. Readable(Variant(List(a, <<Flag>>))) /\ Readable(Variant(Flag))
  <2>1. Readable(List(a, <<Flag>>))
    BY <1>2, ShortLists
  <2> QED
    BY <1>2, <2>1, VariantReadable
<1>6. Readable(Dict(<<<<Number, Variant(List(a, <<Flag>>))>>, <<Number, Variant(Flag)>>>>))
  BY <1>2, <1>5, ShortDicts
<1>7. Readable(List(r, <<Number, Dict(<<>>), x>>))
  BY <1>1, <1>2, <1>4, ShortLists
<1>e. Extras = <<Flag, Number, List(a, <<>>), List(a, <<uuid, uuid>>), Dict(<<>>),
                 Dict(<<<<Number, Variant(List(a, <<Flag>>))>>, <<Number, Variant(Flag)>>>>),
                 List(r, <<Number, Dict(<<>>), x>>)>>
  BY <1>ta, <1>tr, <1>t, <1>x, Zenon DEF Extras
<1>8. n \in 1..7
  BY <1>e
<1>9. n = 1 \/ n = 2 \/ n = 3 \/ n = 4 \/ n = 5 \/ n = 6 \/ n = 7
  BY <1>8
<1>b3. PICK e3 : e3 = List(a, <<>>)
  OBVIOUS
<1>b4. PICK e4 : e4 = List(a, <<uuid, uuid>>)
  OBVIOUS
<1>b5. PICK e5 : e5 = Dict(<<>>)
  OBVIOUS
<1>b6. PICK e6 : e6 = Dict(<<<<Number, Variant(List(a, <<Flag>>))>>, <<Number, Variant(Flag)>>>>)
  OBVIOUS
<1>b7. PICK e7 : e7 = List(r, <<Number, Dict(<<>>), x>>)
  OBVIOUS
<1>10. Extras = <<Flag, Number, e3, e4, e5, e6, e7>>
  BY <1>e, <1>b3, <1>b4, <1>b5, <1>b6, <1>b7, Zenon
<1>11. Readable(e3) /\ Readable(e4) /\ Readable(e5) /\ Readable(e6) /\ Readable(e7)
  BY <1>3, <1>4, <1>6, <1>7, <1>b3, <1>b4, <1>b5, <1>b6, <1>b7
<1> QED
  BY <1>2, <1>9, <1>10, <1>11

(* All samples are read back.                                              *)
LEMMA SamplesRead == SamplesReadBack
<1> SUFFICES ASSUME NEW n \in DOMAIN Extras,
                    NEW before \in {<<>>, <<Close>>, Flag.marks},
                    NEW following \in {<<>>, <<Close>>, Flag.marks}
             PROVE  ReadsBack(before, Extras[n], following)
                    /\ ReadsBack(before, Variant(Extras[n]), following)
  BY DEF SamplesReadBack
<1>1. {<<>>, <<Close>>, Flag.marks} \subseteq Seq(Mark)
  <2>1. <<>> \in Seq(Mark)
    OBVIOUS
  <2>2. <<Close>> \in Seq(Mark)
    BY MarkIs, OneMark
  <2>3. Flag.marks \in Seq(Mark)
    BY WordsReadable DEF Readable, Begins
  <2> QED
    BY <2>1, <2>2, <2>3
<1>2. before \in Seq(Mark) /\ following \in Seq(Mark)
  BY <1>1
<1>v. PICK v : v = Extras[n]
  OBVIOUS
<1>w. PICK w : w = Variant(v)
  OBVIOUS
<1>3. Readable(v) /\ Readable(w)
  BY <1>v, <1>w, ExtrasReadable, VariantReadable
<1>4. ReadsBack(before, v, following) /\ ReadsBack(before, w, following)
  BY <1>2, <1>3, ReadableReadsBack
<1> QED
  BY <1>4, <1>v, <1>w

-----------------------------------------------------------------------------
(* The options of a profile.                                               *)

(* A dictionary that has each key once.                                    *)
DistinctKeys(entries, k) ==
    \A i, j \in 1..k : entries[i][1].meaning = entries[j][1].meaning => i = j
Maps(f, entries, k) ==
    /\ f = [x \in {entries[i][1].meaning : i \in 1..k} |-> f[x]]
    /\ \A i \in 1..k : f[entries[i][1].meaning] = entries[i][2].meaning

(* It maps each key to its value.                                          *)
LEMMA DistinctMeaning ==
  ASSUME NEW k \in Nat, NEW entries, DOMAIN entries = 1..k, DistinctKeys(entries, k)
  PROVE  Maps(Dict(entries).meaning.of, entries, k)
<1> DEFINE K == {entries[i][1].meaning : i \in 1..k}
           f == [x \in K |-> entries[FirstWith(entries, x)][2].meaning]
<1>1. Dict(entries).meaning = Value("dict", f)
  BY DEF Dict
<1>2. Dict(entries).meaning.of = f
  BY <1>1 DEF Value
<1>3. ASSUME NEW i \in 1..k PROVE f[entries[i][1].meaning] = entries[i][2].meaning
  <2>1. IsFirstWith(entries, k, FirstWith(entries, entries[i][1].meaning), entries[i][1].meaning)
    BY FirstWithIs
  <2>2. FirstWith(entries, entries[i][1].meaning) = i
    BY <2>1 DEF IsFirstWith, DistinctKeys
  <2>3. entries[i][1].meaning \in K
    OBVIOUS
  <2> QED
    BY <2>2, <2>3
<1>4. f = [x \in K |-> f[x]]
  OBVIOUS
<1>5. Maps(f, entries, k)
  <2> HIDE DEF f
  <2> QED
    BY <1>3, <1>4 DEF Maps
<1> QED
  BY <1>2, <1>5

(* Values are the same only if they hold the same.                         *)
LEMMA ValueIs ==
  ASSUME NEW kind, NEW of
  PROVE  /\ Value(kind, of).kind = kind /\ Value(kind, of).of = of
         /\ \A x : Value(kind, of) = Value(kind, x) => of = x
BY DEF Value

-----------------------------------------------------------------------------
(* What DBusVariantVisitor writes of a value.                              *)
Written(val) == IF val.kind = "int" THEN BasicValue("q", val.of % 2^16)
                                    ELSE BasicValue(val.kind, val.of)

(* Options that can be written, each under a name of its own.              *)
IsOptions(params, k) ==
    /\ DOMAIN params = 1..k
    /\ \A i \in 1..k : params[i][1] \in Datum /\ Readable(Written(params[i][2]))
    /\ \A i \in 1..k : params[i][2] = Value(params[i][2].kind, params[i][2].of)
    /\ \A i, j \in 1..k : params[i][1] = params[j][1] => i = j

(* The options as a dictionary of variants.                                *)
Options(params, k) == [i \in 1..k |-> <<Text(params[i][1]), Variant(Written(params[i][2]))>>]

(* dbus_message_append_dict writes that dictionary.                        *)
LEMMA WritesDict ==
  ASSUME NEW k \in Nat, NEW params, IsOptions(params, k)
  PROVE  dbus_message_append_dict(<<>>, params) = Dict(Options(params, k)).marks
<1>es. PICK es : es = Options(params, k)
  OBVIOUS
<1>0. DOMAIN es = 1..k /\ DOMAIN params = 1..k
  BY <1>es DEF Options, IsOptions
<1>1. ASSUME NEW i \in 1..k PROVE EntryMarks(es[i]) = AppendedEntry(params[i])
  <2>name. PICK name : name = params[i][1]
    OBVIOUS
  <2>val. PICK val : val = params[i][2]
    OBVIOUS
  <2>1. es[i] = <<Text(name), Variant(Written(val))>>
    BY <1>es, <2>name, <2>val DEF Options
  <2>2. EntryMarks(es[i]) = Container("e", "", Text(name).marks \o Variant(Written(val)).marks)
    BY <2>1 DEF EntryMarks
  <2>3. Text(name).marks = <<Basic("s", name)>>
    BY DEF Text, BasicValue
  <2>4. Variant(Written(val)).marks = Container("v", "", Written(val).marks)
    BY DEF Variant
  <2>5. Written(val).marks = IF val.kind = "int" THEN <<Basic("q", val.of % 2^16)>>
                                                 ELSE <<Basic(val.kind, val.of)>>
    BY DEF Written, BasicValue
  <2>6. Variant(Written(val)).marks = Visited(val)
    BY <2>4, <2>5, Zenon DEF Visited
  <2> QED
    BY <2>2, <2>3, <2>6, <2>name, <2>val, Zenon DEF AppendedEntry
<1>2. [i \in DOMAIN es |-> EntryMarks(es[i])] = [i \in DOMAIN params |-> AppendedEntry(params[i])]
  BY <1>0, <1>1, Zenon
<1>3. Dict(es).marks =
        Container("a", "{}", FlattenSeq([i \in DOMAIN params |-> AppendedEntry(params[i])]))
  BY <1>2 DEF Dict
<1>4. dbus_message_append_dict(<<>>, params) = <<>> \o Dict(es).marks
  BY <1>3, Zenon DEF dbus_message_append_dict
<1>5. Readable(Dict(es))
  <2>1. ASSUME NEW i \in 1..k PROVE Readable(es[i][1]) /\ Readable(es[i][2])
    <3>1. es[i] = <<Text(params[i][1]), Variant(Written(params[i][2]))>>
      BY <1>es DEF Options
    <3>2. Readable(Text(params[i][1])) /\ Readable(Variant(Written(params[i][2])))
      BY TextReadable, VariantReadable DEF IsOptions
    <3> QED
      BY <3>1, <3>2
  <2>2. Entries(es, k)
    BY <1>0, <2>1 DEF Entries
  <2> QED
    BY <2>2, DictReadable
<1>6. Dict(es).marks \in Seq(Mark)
  BY <1>5 DEF Readable, Begins
<1> QED
  BY <1>4, <1>6, <1>es, ConcatEmptySeq

(* The options as RegisterProfile is to understand them.                   *)
Understood(params) ==
    [key \in {Value("s", params[i][1]) : i \in DOMAIN params} |->
       LET given == (CHOOSE i \in DOMAIN params : params[i][1] = key.of)
           val == params[given][2]
       IN IF val.kind = "int" THEN Value("q", val.of % 2^16) ELSE val]

(* What is written of options is read to its end, and understood.          *)
OptionsUnderstood(params) ==
    LET written == dbus_message_append_dict(<<>>, params)
        read == DBusType(written, 1)
    IN read.at = Len(written) + 1 /\ read.value.of = Understood(params)

(* Options that were written are read back under their names, however many *)
(* they are (dbus_message_append_dict).                                    *)
THEOREM OptionsReadBack ==
  ASSUME NEW k \in Nat, NEW params, IsOptions(params, k)
  PROVE  OptionsUnderstood(params)
<1>es. PICK es : es = Options(params, k)
  OBVIOUS
<1>0. DOMAIN es = 1..k /\ DOMAIN params = 1..k
  BY <1>es DEF Options, IsOptions
<1>1. ASSUME NEW i \in 1..k
      PROVE  /\ Readable(es[i][1]) /\ Readable(es[i][2])
             /\ es[i][1].meaning = Value("s", params[i][1])
             /\ es[i][2].meaning = Written(params[i][2]).meaning
  <2>1. es[i] = <<Text(params[i][1]), Variant(Written(params[i][2]))>>
    BY <1>es DEF Options
  <2>2. Readable(Text(params[i][1])) /\ Readable(Variant(Written(params[i][2])))
    BY TextReadable, VariantReadable DEF IsOptions
  <2>3. Text(params[i][1]).meaning = Value("s", params[i][1])
    BY DEF Text, BasicValue
  <2>4. Variant(Written(params[i][2])).meaning = Written(params[i][2]).meaning
    BY DEF Variant
  <2> QED
    BY <2>1, <2>2, <2>3, <2>4
<1>2. Readable(Dict(es))
  <2>1. Entries(es, k)
    BY <1>0, <1>1 DEF Entries
  <2> QED
    BY <2>1, DictReadable
<1>3. dbus_message_append_dict(<<>>, params) = Dict(es).marks
  BY <1>es, WritesDict
<1>4. DBusType(Dict(es).marks, 1) = Read(Dict(es).meaning, Len(Dict(es).marks) + 1)
  BY <1>2, ReadAlone
<1>5. DistinctKeys(es, k)
  <2>1. ASSUME NEW i \in 1..k, NEW j \in 1..k, es[i][1].meaning = es[j][1].meaning PROVE i = j
    <3>1. Value("s", params[i][1]) = Value("s", params[j][1])
      BY <1>1, <2>1
    <3>2. params[i][1] = params[j][1]
      BY <3>1, ValueIs
    <3> QED
      BY <3>2 DEF IsOptions
  <2> QED
    BY <2>1 DEF DistinctKeys
<1>f. PICK f : f = Dict(es).meaning.of
  OBVIOUS
<1>6. Maps(f, es, k)
  BY <1>0, <1>5, <1>f, DistinctMeaning
<1>7. {es[i][1].meaning : i \in 1..k} = {Value("s", params[i][1]) : i \in DOMAIN params}
  BY <1>0, <1>1
<1>8. ASSUME NEW i \in 1..k
      PROVE  f[Value("s", params[i][1])] = Understood(params)[Value("s", params[i][1])]
  <2>key. PICK key : key = Value("s", params[i][1])
    OBVIOUS
  <2>val. PICK val : val = params[i][2]
    OBVIOUS
  <2>1. key.of = params[i][1]
    BY <2>key, ValueIs
  <2>2. (CHOOSE j \in DOMAIN params : params[j][1] = key.of) = i
    <3>1. \A j \in 1..k : params[j][1] = key.of <=> j = i
      BY <2>1 DEF IsOptions
    <3> QED
      BY <1>0, <3>1
  <2>3. key \in {Value("s", params[j][1]) : j \in DOMAIN params}
    BY <1>0, <2>key
  <2>4. Understood(params)[key] = IF val.kind = "int" THEN Value("q", val.of % 2^16) ELSE val
    <3> DEFINE K == {Value("s", params[j][1]) : j \in DOMAIN params}
               held(x) == params[CHOOSE j \in DOMAIN params : params[j][1] = x.of][2]
    <3>1. Understood(params) =
            [x \in K |-> IF held(x).kind = "int" THEN Value("q", held(x).of % 2^16) ELSE held(x)]
      BY Zenon DEF Understood
    <3>2. held(key) = val
      BY <2>2, <2>val
    <3>3. key \in K
      BY <2>3
    <3> HIDE DEF K, held
    <3>4. Understood(params)[key] =
            IF held(key).kind = "int" THEN Value("q", held(key).of % 2^16) ELSE held(key)
      BY <3>1, <3>3, Zenon
    <3> QED
      BY <3>2, <3>4, Zenon
  <2>5. val = Value(val.kind, val.of)
    BY <2>val DEF IsOptions
  <2>6. Written(val).meaning = IF val.kind = "int" THEN Value("q", val.of % 2^16)
                                                   ELSE Value(val.kind, val.of)
    BY DEF Written, BasicValue
  <2>7. f[key] = Written(val).meaning
    BY <1>1, <1>6, <2>key, <2>val DEF Maps
  <2> QED
    BY <2>4, <2>5, <2>6, <2>7, <2>key, Zenon
<1>9. f = Understood(params)
  <2> DEFINE K == {Value("s", params[i][1]) : i \in DOMAIN params}
  <2>1. f = [x \in K |-> f[x]]
    BY <1>6, <1>7 DEF Maps
  <2>2. Understood(params) = [x \in K |-> Understood(params)[x]]
    BY DEF Understood
  <2>3. \A x \in K : f[x] = Understood(params)[x]
    BY <1>0, <1>8
  <2> HIDE DEF K
  <2> QED
    BY <2>1, <2>2, <2>3, Zenon
<1>10. /\ DBusType(Dict(es).marks, 1).at = Len(Dict(es).marks) + 1
       /\ DBusType(Dict(es).marks, 1).value = Dict(es).meaning
  BY <1>4, ReadIs
<1> QED
  BY <1>3, <1>9, <1>10, <1>f DEF OptionsUnderstood

(* What the options hold can be written.                                   *)
LEMMA WrittenReadable ==
  /\ \A s \in Words : Readable(Written(Value("s", s)))
  /\ Readable(Written(Value("b", TRUE)))
  /\ \A n \in Datum : n % 2^16 \in Datum => Readable(Written(Value("int", n)))
<1>1. "s" \in BasicTypes /\ "b" \in BasicTypes /\ "q" \in BasicTypes /\ TRUE \in Datum
  BY DEF BasicTypes, Datum
<1>s. PICK s \in BasicTypes : s = "s"
  BY <1>1, Zenon
<1>b. PICK b \in BasicTypes : b = "b"
  BY <1>1, Zenon
<1>q. PICK q \in BasicTypes : q = "q"
  BY <1>1, Zenon
<1>2. ASSUME NEW x \in Words PROVE Readable(Written(Value("s", x)))
  <2>1. Written(Value("s", x)) = BasicValue(s, x)
    BY <1>s, ValueIs DEF Written
  <2>2. x \in Datum
    BY WordsReadable
  <2> QED
    BY <2>1, <2>2, BasicReadable
<1>3. Readable(Written(Value("b", TRUE)))
  <2>of. PICK of \in Datum : of = TRUE
    BY <1>1, Zenon
  <2>1. Written(Value("b", of)) = BasicValue(b, of)
    BY <1>b, ValueIs DEF Written
  <2>2. Readable(Written(Value("b", of)))
    BY <2>1, BasicReadable
  <2> QED
    BY <2>2, <2>of, Zenon
<1>4. ASSUME NEW n \in Datum, n % 2^16 \in Datum PROVE Readable(Written(Value("int", n)))
  <2>m. PICK m \in Datum : m = n % 2^16
    BY <1>4
  <2>1. Written(Value("int", n)) = BasicValue("q", Value("int", n).of % 2^16)
    BY ValueIs DEF Written
  <2>2. Written(Value("int", n)) = BasicValue(q, m)
    BY <2>1, <2>m, <1>q, ValueIs, Zenon
  <2> QED
    BY <2>2, BasicReadable
<1> QED
  BY <1>2, <1>3, <1>4

(* One option that can be written.                                         *)
IsOption(param) == /\ param[1] \in Datum /\ Readable(Written(param[2]))
                   /\ param[2] = Value(param[2].kind, param[2].of)

(* Numbers written as 16 bits.                                             *)
LEMMA Sixteen ==
  1 \in Datum /\ 1 % 2^16 \in Datum /\ 2^16 + 2 \in Datum /\ (2^16 + 2) % 2^16 \in Datum
<1>1. 2^16 = 65536
  OBVIOUS
<1>2. 1 \in Int /\ 1 % 65536 \in Int /\ 65536 + 2 \in Int /\ (65536 + 2) % 65536 \in Int
  OBVIOUS
<1> QED
  BY <1>1, <1>2 DEF Datum

(* Each of the options RegisterProfile is given is one.                    *)
LEMMA EachOption ==
  /\ IsOption(<<"Name", Value("s", "obd-serial")>>) /\ IsOption(<<"Service", Value("s", "SPP")>>)
  /\ IsOption(<<"Role", Value("s", "client")>>) /\ IsOption(<<"Channel", Value("int", 1)>>)
  /\ IsOption(<<"AutoConnect", Value("b", TRUE)>>) /\ IsOption(Wide)
<1>1. \A param, name, kind, of :
        param = <<name, Value(kind, of)>> /\ name \in Words /\ Readable(Written(Value(kind, of)))
          => IsOption(param)
  BY ValueIs, WordsReadable DEF IsOption
<1>2. /\ "Name" \in Words /\ "obd-serial" \in Words /\ "Service" \in Words /\ "SPP" \in Words
      /\ "Role" \in Words /\ "client" \in Words /\ "Channel" \in Words
      /\ "AutoConnect" \in Words /\ "Wide" \in Words
  BY DEF Words
<1>3. /\ Readable(Written(Value("s", "obd-serial"))) /\ Readable(Written(Value("s", "SPP")))
      /\ Readable(Written(Value("s", "client"))) /\ Readable(Written(Value("b", TRUE)))
  BY <1>2, WrittenReadable, Zenon
<1>4. Readable(Written(Value("int", 1))) /\ Readable(Written(Value("int", 2^16 + 2)))
  BY Sixteen, WrittenReadable, Zenon
<1>5. IsOption(<<"Name", Value("s", "obd-serial")>>)
  BY <1>1, <1>2, <1>3, Zenon
<1>6. IsOption(<<"Service", Value("s", "SPP")>>)
  BY <1>1, <1>2, <1>3, Zenon
<1>7. IsOption(<<"Role", Value("s", "client")>>)
  BY <1>1, <1>2, <1>3, Zenon
<1>8. IsOption(<<"Channel", Value("int", 1)>>)
  BY <1>1, <1>2, <1>4, Zenon
<1>9. IsOption(<<"AutoConnect", Value("b", TRUE)>>)
  BY <1>1, <1>2, <1>3, Zenon
<1>10. IsOption(Wide)
  BY <1>1, <1>2, <1>4, Zenon DEF Wide
<1> QED
  BY <1>5, <1>6, <1>7, <1>8, <1>9, <1>10

(* Six options, or the first of them, each under a name of its own.        *)
LEMMA SixOptions ==
  ASSUME NEW a, NEW b, NEW c, NEW d, NEW e, NEW f,
         IsOption(a), IsOption(b), IsOption(c), IsOption(d), IsOption(e), IsOption(f),
         \A i, j \in 1..6 : <<a, b, c, d, e, f>>[i][1] = <<a, b, c, d, e, f>>[j][1] => i = j
  PROVE  IsOptions(<<>>, 0) /\ IsOptions(<<a, b, c, d, e>>, 5) /\ IsOptions(<<a, b, c, d, e, f>>, 6)
<1>1. IsOptions(<<>>, 0)
  BY DEF IsOptions
<1>q. PICK q : q = <<a, b, c, d, e, f>>
  OBVIOUS
<1>p. PICK p : p = <<a, b, c, d, e>>
  OBVIOUS
<1>2. /\ DOMAIN q = 1..6 /\ DOMAIN p = 1..5 /\ \A i \in 1..5 : i \in 1..6 /\ p[i] = q[i]
  <2>1. DOMAIN q = 1..6 /\ DOMAIN p = 1..5
    BY <1>q, <1>p
  <2>2. p[1] = q[1] /\ p[2] = q[2] /\ p[3] = q[3] /\ p[4] = q[4] /\ p[5] = q[5]
    BY <1>q, <1>p
  <2>3. \A i \in 1..5 : i \in 1..6 /\ (i = 1 \/ i = 2 \/ i = 3 \/ i = 4 \/ i = 5)
    OBVIOUS
  <2> QED
    BY <2>1, <2>2, <2>3
<1>3. \A i \in 1..6 : IsOption(q[i])
  <2>1. \A i \in 1..6 : i = 1 \/ i = 2 \/ i = 3 \/ i = 4 \/ i = 5 \/ i = 6
    OBVIOUS
  <2>2. q[1] = a /\ q[2] = b /\ q[3] = c /\ q[4] = d /\ q[5] = e /\ q[6] = f
    BY <1>q
  <2> QED
    BY <2>1, <2>2
<1>4. \A i, j \in 1..6 : q[i][1] = q[j][1] => i = j
  BY <1>q
<1>5. IsOptions(q, 6)
  BY <1>2, <1>3, <1>4 DEF IsOptions, IsOption
<1>6. IsOptions(p, 5)
  <2>1. \A i \in 1..5 : IsOption(p[i])
    BY <1>2, <1>3
  <2>2. \A i, j \in 1..5 : p[i][1] = p[j][1] => i = j
    BY <1>2, <1>4
  <2> QED
    BY <1>2, <2>1, <2>2 DEF IsOptions, IsOption
<1> QED
  BY <1>1, <1>5, <1>6, <1>p, <1>q

(* A sixth after five.                                                     *)
LEMMA AppendSixth ==
  ASSUME NEW a, NEW b, NEW c, NEW d, NEW e, NEW f
  PROVE  Append(<<a, b, c, d, e>>, f) = <<a, b, c, d, e, f>>
<1> DEFINE X == {a, b, c, d, e, f}
<1>p. PICK p : p = <<a, b, c, d, e>>
  OBVIOUS
<1>q. PICK q : q = <<a, b, c, d, e, f>>
  OBVIOUS
<1>1. p \in Seq(X) /\ q \in Seq(X) /\ Len(p) = 5 /\ Len(q) = 6
  BY <1>p, <1>q
<1>2. /\ p[1] = a /\ p[2] = b /\ p[3] = c /\ p[4] = d /\ p[5] = e
      /\ q[1] = a /\ q[2] = b /\ q[3] = c /\ q[4] = d /\ q[5] = e /\ q[6] = f
  BY <1>p, <1>q
<1>3. \A i \in 1..5 : p[i] = q[i]
  <2>1. \A i \in 1..5 : i = 1 \/ i = 2 \/ i = 3 \/ i = 4 \/ i = 5
    OBVIOUS
  <2> QED
    BY <1>2, <2>1
<1>r. PICK r : r = Append(p, f)
  OBVIOUS
<1>4. r \in Seq(X) /\ Len(r) = 6 /\ (\A i \in 1..5 : r[i] = p[i]) /\ r[6] = f
  <2>0. 5 + 1 = 6
    OBVIOUS
  <2>1. f \in X
    OBVIOUS
  <2> HIDE DEF X
  <2>2. /\ r \in Seq(X) /\ Len(r) = Len(p) + 1 /\ \A i \in 1..Len(p) : r[i] = p[i]
        /\ r[Len(p) + 1] = f
    <3>1. p \in Seq(X)
      BY <1>1
    <3> QED
      BY <1>r, <2>1, <3>1, AppendProperties, ZenonT(60)
  <2> QED
    BY <1>1, <2>0, <2>2
<1>5. \A i \in 1..6 : r[i] = q[i]
  <2>1. \A i \in 1..6 : i \in 1..5 \/ i = 6
    OBVIOUS
  <2> QED
    BY <1>2, <1>3, <1>4, <2>1
<1>6. r = q
  <2> HIDE DEF X
  <2> QED
    BY <1>1, <1>4, <1>5
<1> QED
  BY <1>p, <1>q, <1>r, <1>6

(* The options are read back.                                              *)
LEMMA ParamsRead == ParamsUnderstood
<1>a. PICK a : a = <<"Name", Value("s", "obd-serial")>>
  OBVIOUS
<1>b. PICK b : b = <<"Service", Value("s", "SPP")>>
  OBVIOUS
<1>c. PICK c : c = <<"Role", Value("s", "client")>>
  OBVIOUS
<1>d. PICK d : d = <<"Channel", Value("int", 1)>>
  OBVIOUS
<1>e. PICK e : e = <<"AutoConnect", Value("b", TRUE)>>
  OBVIOUS
<1>f. PICK f : f = Wide
  OBVIOUS
<1>1. IsOption(a) /\ IsOption(b) /\ IsOption(c) /\ IsOption(d) /\ IsOption(e) /\ IsOption(f)
  BY <1>a, <1>b, <1>c, <1>d, <1>e, <1>f, EachOption, Zenon
<1>2. Params = <<a, b, c, d, e>>
  BY <1>a, <1>b, <1>c, <1>d, <1>e, Zenon DEF Params
<1>3. Append(Params, Wide) = <<a, b, c, d, e, f>>
  BY <1>2, <1>f, AppendSixth, Zenon
<1>4. \A i, j \in 1..6 : <<a, b, c, d, e, f>>[i][1] = <<a, b, c, d, e, f>>[j][1] => i = j
  <2>1. /\ a[1] = "Name" /\ b[1] = "Service" /\ c[1] = "Role" /\ d[1] = "Channel"
        /\ e[1] = "AutoConnect" /\ f[1] = "Wide"
    BY <1>a, <1>b, <1>c, <1>d, <1>e, <1>f DEF Wide
  <2>q. PICK q : q = <<a, b, c, d, e, f>>
    OBVIOUS
  <2>2. /\ q[1][1] = "Name" /\ q[2][1] = "Service" /\ q[3][1] = "Role" /\ q[4][1] = "Channel"
        /\ q[5][1] = "AutoConnect" /\ q[6][1] = "Wide"
    BY <2>1, <2>q
  <2>3. \A i \in 1..6 : i = 1 \/ i = 2 \/ i = 3 \/ i = 4 \/ i = 5 \/ i = 6
    OBVIOUS
  <2>4. ASSUME NEW i \in 1..6, NEW j \in 1..6, q[i][1] = q[j][1] PROVE i = j
    BY <2>2, <2>3, <2>4
  <2> QED
    BY <2>4, <2>q
<1>5. IsOptions(<<>>, 0) /\ IsOptions(<<a, b, c, d, e>>, 5) /\ IsOptions(<<a, b, c, d, e, f>>, 6)
  BY <1>1, <1>4, SixOptions
<1>6. ASSUME NEW params \in {<<>>, Params, Append(Params, Wide)}
      PROVE  OptionsUnderstood(params)
  <2>1. PICK k \in Nat : IsOptions(params, k)
    <3>1. 0 \in Nat /\ 5 \in Nat /\ 6 \in Nat
      OBVIOUS
    <3> QED
      BY <1>2, <1>3, <1>5, <3>1, Zenon
  <2> QED
    BY <2>1, OptionsReadBack
<1> QED
  BY <1>6, Zenon DEF ParamsUnderstood, OptionsUnderstood, Understood

-----------------------------------------------------------------------------
(* The objects of bluez.                                                   *)

(* A sequence that has each member of a set exactly once.                  *)
Enumerates(f, k, S) ==
    /\ DOMAIN f = 1..k /\ \A i \in 1..k : f[i] \in S
    /\ \A i, j \in 1..k : f[i] = f[j] => i = j
    /\ \A x \in S : \E i \in 1..k : f[i] = x

(* The sequence in which a finite set is sent is one.                      *)
LEMMA OrderEnumerates ==
  ASSUME NEW S, IsFiniteSet(S)
  PROVE  \E k \in Nat : Enumerates(SetToSeq(S), k, S)
<1>k. PICK k \in Nat : k = Cardinality(S)
  BY FS_CardinalityType
<1>1. ExistsBijection(1..k, S)
  BY <1>k, FS_CardinalityType
<1>2. PICK g : g \in [1..k -> S] /\ IsInjective(g)
  BY <1>1 DEF ExistsBijection, Bijection, Injection
<1>f. PICK f : f = SetToSeq(S)
  OBVIOUS
<1>3. f \in [1..k -> S] /\ IsInjective(f)
  <2>1. f = CHOOSE h \in [1..k -> S] : IsInjective(h)
    BY <1>f, <1>k, Zenon DEF SetToSeq
  <2> QED
    BY <1>2, <2>1, Zenon
<1>4. f \in Injection(1..k, S)
  BY <1>3 DEF Injection
<1>5. f \in Surjection(1..k, S)
  <2>1. IsFiniteSet(1..k) /\ Cardinality(1..k) = k
    BY FS_Interval
  <2> QED
    BY <1>4, <1>k, <2>1, FS_Injection
<1>6. Enumerates(f, k, S)
  <2>1. DOMAIN f = 1..k /\ \A i \in 1..k : f[i] \in S
    BY <1>3
  <2>2. \A i, j \in 1..k : f[i] = f[j] => i = j
    BY <1>3, <2>1 DEF IsInjective
  <2>3. \A x \in S : \E i \in 1..k : f[i] = x
    BY <1>5 DEF Surjection
  <2> QED
    BY <2>1, <2>2, <2>3 DEF Enumerates
<1> QED
  BY <1>f, <1>6

(* Short dictionaries, as functions.                                       *)
LEMMA OneMeaning ==
  ASSUME NEW u, NEW v
  PROVE  /\ DOMAIN Dict(<<<<u, v>>>>).meaning.of = {u.meaning}
         /\ Dict(<<<<u, v>>>>).meaning.of[u.meaning] = v.meaning
<1>k. PICK k \in Nat : k = 1
  OBVIOUS
<1>es. PICK es : es = <<<<u, v>>>>
  OBVIOUS
<1>1. DOMAIN es = 1..k /\ DistinctKeys(es, k)
  BY <1>k, <1>es DEF DistinctKeys
<1>f. PICK f : f = Dict(es).meaning.of
  OBVIOUS
<1>2. Maps(f, es, k)
  BY <1>1, <1>f, DistinctMeaning
<1>3. es[1][1] = u /\ es[1][2] = v /\ 1..k = {1}
  BY <1>es, <1>k
<1>4. DOMAIN f = {es[i][1].meaning : i \in {1}}
  BY <1>2, <1>3 DEF Maps
<1>5. f[es[1][1].meaning] = es[1][2].meaning
  BY <1>2, <1>3 DEF Maps
<1> QED
  BY <1>3, <1>4, <1>5, <1>es, <1>f

(* And one of two entries.                                                 *)
LEMMA TwoMeanings ==
  ASSUME NEW t, NEW u, NEW v, NEW w, t.meaning # v.meaning
  PROVE  /\ DOMAIN Dict(<<<<t, u>>, <<v, w>>>>).meaning.of = {t.meaning, v.meaning}
         /\ Dict(<<<<t, u>>, <<v, w>>>>).meaning.of[t.meaning] = u.meaning
         /\ Dict(<<<<t, u>>, <<v, w>>>>).meaning.of[v.meaning] = w.meaning
<1>k. PICK k \in Nat : k = 2
  OBVIOUS
<1>es. PICK es : es = <<<<t, u>>, <<v, w>>>>
  OBVIOUS
<1>3. /\ es[1][1] = t /\ es[1][2] = u /\ es[2][1] = v /\ es[2][2] = w /\ 1..k = {1, 2}
      /\ DOMAIN es = 1..k
  BY <1>es, <1>k
<1>1. DistinctKeys(es, k)
  BY <1>3 DEF DistinctKeys
<1>f. PICK f : f = Dict(es).meaning.of
  OBVIOUS
<1>2. Maps(f, es, k)
  BY <1>1, <1>3, <1>f, DistinctMeaning
<1>4. DOMAIN f = {es[i][1].meaning : i \in {1, 2}}
  BY <1>2, <1>3 DEF Maps
<1>5. f[es[1][1].meaning] = es[1][2].meaning /\ f[es[2][1].meaning] = es[2][2].meaning
  BY <1>2, <1>3 DEF Maps
<1> QED
  BY <1>3, <1>4, <1>5, <1>es, <1>f

-----------------------------------------------------------------------------
(* What a text means.                                                      *)
LEMMA TextMeans == ASSUME NEW s PROVE Text(s).meaning = Value("s", s)
BY DEF Text, BasicValue

(* What is understood of an object's interfaces.                           *)
Tells(interfaces, object) ==
    /\ Has(interfaces, "Adapter1") <=> object \in Controllers
    /\ Has(interfaces, "Device1") <=> object \in Paths
    /\ object \in Paths => AddressRead(interfaces) = object[2]

(* The interfaces of an object can be read, and tell what it is.           *)
LEMMA InterfacesTell ==
  ASSUME NEW object \in Objects, NEW extra, Readable(extra)
  PROVE  Readable(Interfaces(object, extra)) /\ Tells(Interfaces(object, extra).meaning, object)
<1>w. /\ "Adapter1" \in Words /\ "Device1" \in Words /\ "Address" \in Words /\ "Other" \in Words
      /\ "Properties" \in Words
  BY DEF Words
<1>a. PICK adapter : adapter = Text("Adapter1")
  OBVIOUS
<1>d. PICK device : device = Text("Device1")
  OBVIOUS
<1>x. PICK address : address = Text("Address")
  OBVIOUS
<1>o. PICK other : other = Text("Other")
  OBVIOUS
<1>p. PICK properties : properties = Text("Properties")
  OBVIOUS
<1>1. /\ Readable(adapter) /\ Readable(device) /\ Readable(address) /\ Readable(other)
      /\ Readable(properties)
  BY <1>w, <1>a, <1>d, <1>x, <1>o, <1>p, WordsReadable, Zenon
<1>2. /\ adapter.meaning = Value("s", "Adapter1") /\ device.meaning = Value("s", "Device1")
      /\ address.meaning = Value("s", "Address") /\ other.meaning = Value("s", "Other")
      /\ properties.meaning = Value("s", "Properties")
  BY <1>a, <1>d, <1>x, <1>o, <1>p, TextMeans, Zenon
<1>3. /\ adapter.meaning # device.meaning /\ adapter.meaning # properties.meaning
      /\ properties.meaning # device.meaning /\ address.meaning # other.meaning
  BY <1>2, ValueIs
<1>4. CASE object \in Controllers
  <2>1. object \notin Paths
    BY <1>4, InventoryAssumption
  <2>i. PICK i : i = Interfaces(object, extra)
    OBVIOUS
  <2>2. i = Dict(<<<<adapter, Adapter>>>>)
    BY <1>4, <1>a, <2>i, Zenon DEF Interfaces
  <2>3. Readable(i)
    <3>1. Readable(Adapter)
      BY ShortDicts DEF Adapter
    <3> QED
      BY <1>1, <2>2, <3>1, ShortDicts
  <2>4. DOMAIN i.meaning.of = {adapter.meaning}
    BY <2>2, OneMeaning
  <2>5. Has(i.meaning, "Adapter1") /\ ~Has(i.meaning, "Device1")
    BY <1>2, <1>3, <2>4 DEF Has
  <2> QED
    BY <1>4, <2>1, <2>3, <2>5, <2>i DEF Tells
<1>5. CASE object \notin Controllers
  <2>1. object \in Paths /\ object[2] \in Addresses
    BY <1>5 DEF Objects, Paths
  <2>of. PICK of : of = object[2]
    OBVIOUS
  <2>v. PICK v : v = Variant(Text(of))
    OBVIOUS
  <2>e. PICK e : e = Variant(extra)
    OBVIOUS
  <2>dev. PICK dev : dev = Dict(<<<<address, v>>, <<other, e>>>>)
    OBVIOUS
  <2>none. PICK none : none = Dict(<<>>)
    OBVIOUS
  <2>i. PICK i : i = Interfaces(object, extra)
    OBVIOUS
  <2>2. i = Dict(<<<<properties, none>>, <<device, dev>>>>)
    <3>1. Device(of, extra) = dev
      BY <1>x, <1>o, <2>v, <2>e, <2>dev, Zenon DEF Device
    <3> QED
      BY <1>5, <1>p, <1>d, <2>of, <2>none, <2>i, <3>1, Zenon DEF Interfaces
  <2>3. Readable(v) /\ Readable(e) /\ Readable(none)
    <3>1. of \in Datum
      BY <2>1, <2>of DEF Datum
    <3>2. Readable(Text(of))
      BY <3>1, TextReadable
    <3> QED
      BY <2>v, <2>e, <2>none, <3>2, VariantReadable, ShortDicts
  <2>4. Readable(dev)
    BY <1>1, <2>3, <2>dev, ShortDicts
  <2>5. Readable(i)
    BY <1>1, <2>2, <2>3, <2>4, ShortDicts
  <2>6. /\ DOMAIN i.meaning.of = {properties.meaning, device.meaning}
        /\ i.meaning.of[device.meaning] = dev.meaning
    BY <1>3, <2>2, TwoMeanings
  <2>7. dev.meaning.of[address.meaning] = v.meaning
    BY <1>3, <2>dev, TwoMeanings
  <2>8. v.meaning = Value("s", of)
    BY <2>v, TextMeans DEF Variant
  <2>9. ~Has(i.meaning, "Adapter1") /\ Has(i.meaning, "Device1")
    BY <1>2, <1>3, <2>6 DEF Has
  <2>10. AddressRead(i.meaning) = of
    <3>1. At(i.meaning, "Device1") = dev.meaning
      BY <1>2, <2>6 DEF At
    <3>2. At(dev.meaning, "Address") = v.meaning
      BY <1>2, <2>7 DEF At
    <3>3. AddressRead(i.meaning) = v.meaning.of
      BY <3>1, <3>2, Zenon DEF AddressRead
    <3> QED
      BY <2>8, <3>3, ValueIs
  <2> QED
    BY <1>5, <2>1, <2>5, <2>9, <2>10, <2>i, <2>of DEF Tells
<1> QED
  BY <1>4, <1>5

(* What the reply tells of an object is found under its path.              *)
LEMMA ReplyRead ==
  ASSUME NEW A \in SUBSET Controllers, NEW D \in SUBSET Paths, NEW extra, Readable(extra)
  PROVE  ReplyUnderstood(A, D, extra)
<1>S. PICK S : S = A \cup D
  OBVIOUS
<1>0. S \in SUBSET Objects /\ IsFiniteSet(S)
  <2>1. IsFiniteSet(Paths)
    BY MessagesAssumption, FS_Product DEF Paths
  <2>2. IsFiniteSet(A) /\ IsFiniteSet(D)
    BY <2>1, MessagesAssumption, FS_Subset
  <2> QED
    BY <1>S, <2>2, FS_Union DEF Objects
<1>order. PICK order : order = SetToSeq(S)
  OBVIOUS
<1>1. PICK k \in Nat : Enumerates(order, k, S)
  BY <1>0, <1>order, OrderEnumerates
<1>2. /\ DOMAIN order = 1..k /\ \A i \in 1..k : order[i] \in S
      /\ \A i, j \in 1..k : order[i] = order[j] => i = j
      /\ \A x \in S : \E i \in 1..k : order[i] = x
  BY <1>1 DEF Enumerates
<1>es. PICK es : es = [i \in 1..k |-> <<Text(order[i]), Interfaces(order[i], extra)>>]
  OBVIOUS
<1>reply. PICK reply : reply = Dict(es)
  OBVIOUS
<1>3. ObjectsReply(A \cup D, extra) = reply
  BY <1>S, <1>order, <1>2, <1>es, <1>reply, Zenon DEF ObjectsReply
<1>4. ASSUME NEW i \in 1..k
      PROVE  /\ es[i][1].meaning = Value("s", order[i])
             /\ es[i][2] = Interfaces(order[i], extra)
             /\ Readable(es[i][1]) /\ Readable(es[i][2])
             /\ Tells(es[i][2].meaning, order[i])
  <2>1. es[i][1] = Text(order[i]) /\ es[i][2] = Interfaces(order[i], extra)
    BY <1>es
  <2>2. order[i] \in Objects /\ order[i] \in Datum
    BY <1>0, <1>2 DEF Datum
  <2>3. /\ Readable(Interfaces(order[i], extra))
        /\ Tells(Interfaces(order[i], extra).meaning, order[i])
    BY <2>2, InterfacesTell
  <2>4. Readable(Text(order[i])) /\ Text(order[i]).meaning = Value("s", order[i])
    BY <2>2, TextReadable, TextMeans
  <2> QED
    BY <2>1, <2>3, <2>4
<1>5. DOMAIN es = 1..k
  BY <1>es
<1>6. Readable(reply)
  <2>1. Entries(es, k)
    BY <1>4, <1>5 DEF Entries
  <2> QED
    BY <1>reply, <2>1, DictReadable
<1>7. DBusType(reply.marks, 1) = Read(reply.meaning, Len(reply.marks) + 1)
  BY <1>6, ReadAlone
<1>8. DistinctKeys(es, k)
  BY <1>2, <1>4, ValueIs DEF DistinctKeys
<1>dict. PICK dict : dict = reply.meaning
  OBVIOUS
<1>9. Maps(dict.of, es, k)
  BY <1>5, <1>8, <1>dict, <1>reply, DistinctMeaning
<1>10. ASSUME NEW x \in S
       PROVE  Value("s", x) \in DOMAIN dict.of /\ Tells(dict.of[Value("s", x)], x)
  <2>1. PICK i \in 1..k : order[i] = x
    BY <1>2
  <2>2. es[i][1].meaning = Value("s", x) /\ Tells(es[i][2].meaning, x)
    BY <1>4, <2>1
  <2>3. dict.of[es[i][1].meaning] = es[i][2].meaning
    BY <1>9 DEF Maps
  <2>4. DOMAIN dict.of = {es[j][1].meaning : j \in 1..k}
    BY <1>9 DEF Maps
  <2> QED
    BY <2>2, <2>3, <2>4
<1>11. ASSUME NEW key \in DOMAIN dict.of PROVE key.of \in S /\ key = Value("s", key.of)
  <2>1. DOMAIN dict.of = {es[j][1].meaning : j \in 1..k}
    BY <1>9 DEF Maps
  <2>2. PICK i \in 1..k : key = es[i][1].meaning
    BY <2>1
  <2>3. key = Value("s", order[i])
    BY <1>4, <2>2
  <2> QED
    BY <1>2, <2>3, ValueIs
<1>12. ASSUME NEW interface, NEW O,
              \A x \in S : Has(dict.of[Value("s", x)], interface) <=> x \in O
       PROVE  PathsRead(dict, interface) = S \cap O
  <2>1. ASSUME NEW x \in PathsRead(dict, interface) PROVE x \in S \cap O
    <3>1. PICK key \in DOMAIN dict.of : Has(dict.of[key], interface) /\ x = key.of
      BY DEF PathsRead
    <3> QED
      BY <1>11, <1>12, <3>1
  <2>2. ASSUME NEW x \in S \cap O PROVE x \in PathsRead(dict, interface)
    <3>key. PICK key : key = Value("s", x)
      OBVIOUS
    <3>1. key \in DOMAIN dict.of /\ key.of = x
      BY <1>10, <3>key, ValueIs
    <3>2. Has(dict.of[key], interface)
      BY <1>12, <3>key
    <3> QED
      BY <3>1, <3>2 DEF PathsRead
  <2> QED
    BY <2>1, <2>2
<1>13. \A x \in S : /\ Has(dict.of[Value("s", x)], "Adapter1") <=> x \in Controllers
                    /\ Has(dict.of[Value("s", x)], "Device1") <=> x \in Paths
                    /\ x \in Paths => AddressRead(dict.of[Value("s", x)]) = x[2]
  BY <1>10 DEF Tells
<1>14. PathsRead(dict, "Adapter1") = A
  <2>1. PathsRead(dict, "Adapter1") = S \cap Controllers
    BY <1>12, <1>13, Zenon
  <2> QED
    BY <1>S, <2>1, InventoryAssumption
<1>15. PathsRead(dict, "Device1") = D
  <2>1. PathsRead(dict, "Device1") = S \cap Paths
    BY <1>12, <1>13, Zenon
  <2> QED
    BY <1>S, <2>1, InventoryAssumption
<1>16. \A p \in D : AddressRead(dict.of[Value("s", p)]) = p[2]
  BY <1>13, <1>S
<1>17. /\ DBusType(reply.marks, 1).at = Len(reply.marks) + 1
       /\ DBusType(reply.marks, 1).value = dict
  BY <1>7, <1>dict, ReadIs
<1> QED
  BY <1>3, <1>14, <1>15, <1>16, <1>17, Zenon DEF ReplyUnderstood

(* A signal tells of its object, and of its interfaces.                    *)
LEMMA SignalRead ==
  ASSUME NEW kind, NEW object \in Objects, NEW extra, Readable(extra)
  PROVE  SignalUnderstood(kind, object, extra)
<1> DEFINE names == List("a", <<Text("Properties"),
                                Text(IF object \in Controllers THEN "Adapter1" ELSE "Device1")>>)
<1>1. Readable(names)
  <2>a. "a" \in {"a", "r"}
    OBVIOUS
  <2>t. PICK a \in {"a", "r"} : a = "a"
    BY <2>a, Zenon
  <2>p. PICK p : p = Text("Properties")
    OBVIOUS
  <2>name. PICK name : name = IF object \in Controllers THEN "Adapter1" ELSE "Device1"
    OBVIOUS
  <2>1. "Properties" \in Words /\ "Adapter1" \in Words /\ "Device1" \in Words
    BY DEF Words
  <2>2. name \in Words
    BY <2>1, <2>name, Zenon
  <2>3. Readable(p) /\ Readable(Text(name))
    BY <2>1, <2>2, <2>p, WordsReadable, Zenon
  <2>4. Readable(List(a, <<p, Text(name)>>))
    BY <2>3, ShortLists
  <2> QED
    BY <2>4, <2>t, <2>p, <2>name, Zenon
<1>second. PICK second : second = IF kind = "added" THEN Interfaces(object, extra) ELSE names
  OBVIOUS
<1>2. Readable(second)
  <2>1. Readable(Interfaces(object, extra))
    BY InterfacesTell
  <2> HIDE DEF names
  <2> QED
    BY <1>1, <1>second, <2>1
<1>path. PICK path : path = Text(object)
  OBVIOUS
<1>3. Readable(path) /\ path.meaning = Value("s", object)
  <2>1. object \in Datum
    BY DEF Datum
  <2> QED
    BY <1>path, <2>1, TextReadable, TextMeans
<1>signal. PICK signal : signal = path.marks \o second.marks
  OBVIOUS
<1>4. /\ DBusType(signal, 1) = Read(path.meaning, Len(path.marks) + 1)
      /\ DBusType(signal, Len(path.marks) + 1) = Read(second.meaning, Len(signal) + 1)
  <2>1. ReadsTwo(signal, path, second)
    BY <1>2, <1>3, <1>signal, ReadPair
  <2> QED
    BY <2>1 DEF ReadsTwo
<1>5. /\ DBusType(signal, 1).value.of = object
      /\ DBusType(signal, DBusType(signal, 1).at) = Read(second.meaning, Len(signal) + 1)
  <2>1. /\ DBusType(signal, 1).value = Value("s", object)
        /\ DBusType(signal, 1).at = Len(path.marks) + 1
    BY <1>3, <1>4, ReadIs
  <2> QED
    BY <1>4, <2>1, ValueIs
<1> QED
  BY <1>5, <1>second, <1>path, <1>signal, Zenon DEF SignalUnderstood

-----------------------------------------------------------------------------
(* Values built of values.                                                 *)

(* Values built one after the other, each of earlier ones, nested as deep  *)
(* as one likes.                                                           *)
Earlier(vs, n) == {vs[m] : m \in 1..(n - 1)}
BuiltOf(v, S) ==
    \/ \E type \in BasicTypes, of \in Datum : v = BasicValue(type, of)
    \/ \E held \in S : v = Variant(held)
    \/ \E type \in {"a", "r"}, k \in Nat : \E parts \in [1..k -> S] : v = List(type, parts)
    \/ \E k \in Nat : \E entries \in [1..k -> S \X S] : v = Dict(entries)
Built(vs, N) == \A n \in 1..N : BuiltOf(vs[n], Earlier(vs, n))

(* What is built of readable values is readable.                           *)
LEMMA BuiltReadable ==
  ASSUME NEW S, \A x \in S : Readable(x), NEW v, BuiltOf(v, S)
  PROVE  Readable(v)
<1>1. CASE \E type \in BasicTypes, of \in Datum : v = BasicValue(type, of)
  BY <1>1, BasicReadable
<1>2. CASE \E held \in S : v = Variant(held)
  BY <1>2, VariantReadable
<1>3. CASE \E type \in {"a", "r"}, k \in Nat : \E parts \in [1..k -> S] : v = List(type, parts)
  <2>1. PICK type \in {"a", "r"} : \E k \in Nat : \E parts \in [1..k -> S] : v = List(type, parts)
    BY <1>3
  <2>2. PICK k \in Nat : \E parts \in [1..k -> S] : v = List(type, parts)
    BY <2>1
  <2>3. PICK parts \in [1..k -> S] : v = List(type, parts)
    BY <2>2
  <2>4. DOMAIN parts = 1..k /\ \A i \in 1..k : Readable(parts[i])
    BY <2>3
  <2> QED
    BY <2>3, <2>4, ListReadable
<1>4. CASE \E k \in Nat : \E entries \in [1..k -> S \X S] : v = Dict(entries)
  <2>1. PICK k \in Nat : \E entries \in [1..k -> S \X S] : v = Dict(entries)
    BY <1>4
  <2>2. PICK entries \in [1..k -> S \X S] : v = Dict(entries)
    BY <2>1
  <2>3. \A i \in 1..k : entries[i][1] \in S /\ entries[i][2] \in S
    BY <2>2
  <2>4. Entries(entries, k)
    BY <2>2, <2>3 DEF Entries
  <2> QED
    BY <2>2, <2>4, DictReadable
<1> QED
  BY <1>1, <1>2, <1>3, <1>4 DEF BuiltOf

(* Every value that can be built of basic values, variants, arrays,        *)
(* structures and dictionaries, however deep they are nested, and also     *)
(* when they are empty, is read back by the constructor of DBusType for    *)
(* what it means, and left right behind its last mark, whatever stands     *)
(* before and after it in the message.                                     *)
THEOREM ValuesReadBack ==
  ASSUME NEW N \in Nat, NEW vs, Built(vs, N), NEW n \in 1..N,
         NEW before \in Seq(Mark), NEW following \in Seq(Mark)
  PROVE  ReadsBack(before, vs[n], following)
<1> DEFINE S == {m \in 0..N : \A i \in 1..m : Readable(vs[i])}
<1>1. 0 \in S
  OBVIOUS
<1>2. ASSUME NEW m \in 1..N, m - 1 \in S PROVE m \in S
  <2>1. \A x \in Earlier(vs, m) : Readable(x)
    BY <1>2 DEF Earlier
  <2>2. Readable(vs[m])
    BY <2>1, BuiltReadable DEF Built
  <2>3. \A i \in 1..m : i \in 1..(m - 1) \/ i = m
    OBVIOUS
  <2> QED
    BY <1>2, <2>2, <2>3
<1>3. 0..N \subseteq S
  <2> HIDE DEF S
  <2> QED
    BY <1>1, <1>2, UpTo
<1>v. PICK v : v = vs[n]
  OBVIOUS
<1>4. Readable(v)
  BY <1>3, <1>v
<1>5. ReadsBack(before, v, following)
  BY <1>4, ReadableReadsBack
<1> QED
  BY <1>5, <1>v
=============================================================================
