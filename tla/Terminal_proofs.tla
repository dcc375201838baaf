-------------------------- MODULE Terminal_proofs --------------------------
(***************************************************************************)
(* Theorems about the terminal: the reader thread and the slots that start,*)
(* stop and join it, the data on its way from one to the other, and the    *)
(* input of the user in front of which it is inserted.                     *)
(***************************************************************************)
EXTENDS Terminal, SequenceTheorems, TLAPS

-----------------------------------------------------------------------------
(* The reader thread.                                                      *)

(* m_reader_stopped tells whether a reader runs, and a slot that is about  *)
(* to start one has seen it stopped.                                       *)
ReaderInv == /\ m_reader_stopped \in BOOLEAN
             /\ m_reader_stopped = TRUE => readerPc \in {"none", "ended"}
             /\ m_reader_stopped = FALSE => readerPc \in {"test", "read", "append", "stop"}
             /\ mainPc = "start" => m_reader_stopped = TRUE

(* Initially there is no reader.                                           *)
LEMMA ReaderInit == Init => ReaderInv
BY DEF Init, ReaderInv

(* Every step keeps m_reader_stopped true to the thread.                   *)
LEMMA ReaderStep == ReaderInv /\ [Next]_vars => ReaderInv'
<1> SUFFICES ASSUME ReaderInv, [Next]_vars PROVE ReaderInv'
  OBVIOUS
<1> USE DEF ReaderInv
<1>1. CASE read_data
  BY <1>1 DEF read_data, ReaderTest, ReaderRead, ReaderAppend, ReaderStop
<1>2. CASE start_reader_thread
  BY <1>2 DEF start_reader_thread
<1>3. CASE reader_notification
  BY <1>3 DEF reader_notification, NotifiedOfData, NotifiedAfterStop, readerVars
<1>4. CASE on_show \/ OnShowStart
  BY <1>4 DEF on_show, OnShowStart, readerVars
<1>5. CASE home_clicked \/ Destroy \/ Destroyed
  BY <1>5 DEF home_clicked, Destroy, Destroyed
<1>6. CASE Typing
  BY <1>6 DEF Typing, readerVars
<1>7. CASE UNCHANGED vars
  BY <1>7 DEF vars, readerVars
<1> QED
  BY <1>1, <1>2, <1>3, <1>4, <1>5, <1>6, <1>7
     DEF Next, Slots, User, Type, Backspace, Left, Click, Enter

(* The user interface never waits in join: the reader it joins has nothing *)
(* left to do (on_show, reader_notification, start_reader_thread).         *)
THEOREM NeverWaitsForReader == Spec => []JoinDoesNotWait
<1>1. ReaderInv => JoinDoesNotWait
  BY DEF ReaderInv, JoinDoesNotWait
<1> QED
  BY ReaderInit, ReaderStep, <1>1, PTL DEF Spec

-----------------------------------------------------------------------------
(* The data.                                                               *)

BufferInv == /\ m_read_buffer \in Seq(Data) /\ shown \in Seq(Data)
             /\ notifications \in Nat
             /\ tempBuffer \in 0..MaxData
             /\ readerPc = "append" => tempBuffer \in Data

(* Data that is shown or waits was read before what the reader holds.      *)
ReadBefore(s) == \A i \in DOMAIN s : IF readerPc = "append" THEN s[i] < tempBuffer
                                                            ELSE s[i] <= tempBuffer

DataInv == /\ BufferInv /\ DataAnnounced
           /\ InOrder(shown \o m_read_buffer) /\ ReadBefore(shown \o m_read_buffer)

(* Initially nothing was read.                                             *)
LEMMA DataInit == Init => DataInv
<1> SUFFICES ASSUME Init PROVE DataInv
  OBVIOUS
<1>1. shown \o m_read_buffer = <<>>
  BY ConcatEmptySeq, EmptySeq DEF Init
<1> QED
  BY <1>1, EmptySeq, TerminalAssumption
     DEF Init, DataInv, BufferInv, DataAnnounced, InOrder, ReadBefore

(* Showing the buffer, or dropping it, leaves what was read in order.      *)
LEMMA Dropped ==
  ASSUME NEW s \in Seq(Data), NEW b \in Seq(Data), InOrder(s \o b), ReadBefore(s \o b)
  PROVE  /\ InOrder((s \o b) \o <<>>) /\ ReadBefore((s \o b) \o <<>>)
         /\ InOrder(s \o <<>>) /\ ReadBefore(s \o <<>>)
         /\ InOrder(<<>> \o b) /\ ReadBefore(<<>> \o b)
<1>1. (s \o b) \o <<>> = s \o b /\ s \o <<>> = s /\ <<>> \o b = b
  BY ConcatEmptySeq, ConcatProperties
<1>2. /\ Len(s \o b) = Len(s) + Len(b) /\ DOMAIN (s \o b) = 1..(Len(s) + Len(b))
      /\ DOMAIN s = 1..Len(s) /\ DOMAIN b = 1..Len(b) /\ Len(s) \in Nat /\ Len(b) \in Nat
      /\ \A i \in 1..Len(s) : (s \o b)[i] = s[i]
      /\ \A i \in 1..Len(b) : (s \o b)[i + Len(s)] = b[i]
  BY ConcatProperties
<1> DEFINE a == s \o b
<1>3. InOrder(s) /\ ReadBefore(s)
  <2>1. \A i \in DOMAIN s : i \in DOMAIN a /\ a[i] = s[i]
    BY <1>2
  <2>2. InOrder(a) /\ ReadBefore(a)
    OBVIOUS
  <2> HIDE DEF a
  <2>3. InOrder(s)
    BY <2>1, <2>2 DEF InOrder
  <2>4. ReadBefore(s)
    BY <2>1, <2>2 DEF ReadBefore
  <2> QED
    BY <2>3, <2>4
<1>4. InOrder(b) /\ ReadBefore(b)
  <2>1. \A i \in DOMAIN b : i + Len(s) \in DOMAIN a /\ a[i + Len(s)] = b[i]
    BY <1>2
  <2>2. InOrder(a) /\ ReadBefore(a)
    OBVIOUS
  <2>3. \A i, j \in DOMAIN b : i < j => i + Len(s) < j + Len(s)
    BY <1>2
  <2> HIDE DEF a
  <2>4. InOrder(b)
    BY <2>1, <2>2, <2>3 DEF InOrder
  <2>5. ReadBefore(b)
    BY <2>1, <2>2 DEF ReadBefore
  <2> QED
    BY <2>4, <2>5
<1> QED
  BY <1>1, <1>3, <1>4

(* What the reader appends comes after all the rest.                       *)
LEMMA Appended ==
  ASSUME NEW s \in Seq(Data), NEW b \in Seq(Data), NEW t \in Data, InOrder(s \o b),
         \A i \in DOMAIN (s \o b) : (s \o b)[i] < t
  PROVE  /\ InOrder(s \o Append(b, t))
         /\ \A i \in DOMAIN (s \o Append(b, t)) : (s \o Append(b, t))[i] <= t
<1> DEFINE a == s \o b
<1>1. a \in Seq(Data) /\ s \o Append(b, t) = Append(a, t)
  BY ConcatProperties, ConcatAssociative, AppendIsConcat, <<t>> \in Seq(Data)
<1>2. /\ DOMAIN Append(a, t) = 1..(Len(a) + 1) /\ Len(a) \in Nat /\ DOMAIN a = 1..Len(a)
      /\ \A i \in 1..Len(a) : Append(a, t)[i] = a[i]
      /\ Append(a, t)[Len(a) + 1] = t
  BY <1>1, AppendProperties
<1>3. t \in Int /\ \A i \in 1..Len(a) : a[i] \in Int
  BY <1>1, TerminalAssumption, ElementOfSeq DEF Data
<1>4. InOrder(a) /\ \A i \in DOMAIN a : a[i] < t
  OBVIOUS
<1> HIDE DEF a
<1>5. InOrder(Append(a, t))
  <2> SUFFICES ASSUME NEW i \in 1..(Len(a) + 1), NEW j \in 1..(Len(a) + 1), i < j
               PROVE  Append(a, t)[i] < Append(a, t)[j]
    BY <1>2 DEF InOrder
  <2>1. i \in 1..Len(a) /\ Append(a, t)[i] = a[i] /\ a[i] < t
    BY <1>2, <1>4
  <2>2. CASE j = Len(a) + 1
    BY <1>2, <2>1, <2>2
  <2>3. CASE j \in 1..Len(a)
    BY <1>2, <1>4, <2>1, <2>3 DEF InOrder
  <2>4. j = Len(a) + 1 \/ j \in 1..Len(a)
    BY <1>2
  <2> QED
    BY <2>2, <2>3, <2>4
<1>6. \A i \in DOMAIN Append(a, t) : Append(a, t)[i] <= t
  <2> SUFFICES ASSUME NEW i \in 1..(Len(a) + 1) PROVE Append(a, t)[i] <= t
    BY <1>2
  <2>1. CASE i = Len(a) + 1
    BY <1>2, <1>3, <2>1
  <2>2. CASE i \in 1..Len(a)
    BY <1>2, <1>3, <1>4, <2>2
  <2> QED
    BY <1>2, <2>1, <2>2
<1> QED
  BY <1>1, <1>5, <1>6 DEF a

(* Every step keeps the data in order and announced.                       *)
LEMMA DataStep == ReaderInv /\ DataInv /\ [Next]_vars => DataInv'
<1> SUFFICES ASSUME ReaderInv, DataInv, [Next]_vars PROVE DataInv'
  OBVIOUS
<1> USE DEF DataInv
<1>1. CASE /\ UNCHANGED <<bufferVars, shown, tempBuffer, m_reader_stopped>>
           /\ readerPc' # "append" /\ readerPc # "append"
  BY <1>1 DEF bufferVars, BufferInv, DataAnnounced, ReadBefore, InOrder
<1>2. CASE UNCHANGED <<bufferVars, shown, tempBuffer, m_reader_stopped, readerPc>>
  BY <1>2 DEF bufferVars, BufferInv, DataAnnounced, ReadBefore, InOrder
<1>3. CASE ReaderRead
  <2> DEFINE a == shown \o m_read_buffer
  <2>1. /\ UNCHANGED <<m_read_buffer, notifications, shown, m_reader_stopped>>
        /\ readerPc = "read" /\ a' = a
        /\ \/ tempBuffer < MaxData /\ tempBuffer' = tempBuffer + 1 /\ readerPc' = "append"
           \/ tempBuffer' = tempBuffer /\ readerPc' = "test"
    BY <1>3 DEF ReaderRead, bufferVars, textVars
  <2>2. BufferInv' /\ DataAnnounced'
    BY <2>1, TerminalAssumption DEF BufferInv, DataAnnounced, Data
  <2>3. InOrder(a)'
    BY <2>1 DEF InOrder
  <2>4. a \in Seq(Data) /\ tempBuffer \in Int /\ \A i \in DOMAIN a : a[i] <= tempBuffer
    BY <2>1, ConcatProperties DEF BufferInv, ReadBefore
  <2>5. \A i \in DOMAIN a : a[i] \in Int
    BY <2>4, ElementOfSeq, LenProperties, TerminalAssumption DEF Data
  <2> HIDE DEF a
  <2>6. ReadBefore(a)'
    BY <2>1, <2>4, <2>5 DEF ReadBefore
  <2> QED
    BY <2>2, <2>3, <2>6 DEF a
<1>4. CASE ReaderAppend
  <2>1. /\ readerPc = "append" /\ readerPc' # "append" /\ tempBuffer \in Data
        /\ m_read_buffer' = Append(m_read_buffer, tempBuffer)
        /\ UNCHANGED <<shown, tempBuffer>>
    BY <1>4 DEF ReaderAppend, textVars, BufferInv
  <2>2. /\ m_read_buffer' \in Seq(Data)
        /\ InOrder(shown' \o m_read_buffer')
        /\ \A i \in DOMAIN (shown' \o m_read_buffer') : (shown' \o m_read_buffer')[i] <= tempBuffer'
    BY <2>1, Appended, AppendProperties DEF BufferInv, ReadBefore
  <2>3. notifications' \in Nat /\ notifications' > 0
    BY <1>4 DEF ReaderAppend, BufferInv
  <2> QED
    BY <2>1, <2>2, <2>3 DEF BufferInv, DataAnnounced, ReadBefore, InOrder
<1>5. CASE ReaderStop
  BY <1>5 DEF ReaderStop, bufferVars, textVars, BufferInv, DataAnnounced, ReadBefore, InOrder
<1>6. CASE start_reader_thread
  <2>1. /\ m_read_buffer' = <<>> /\ readerPc' = "test" /\ readerPc # "append"
        /\ UNCHANGED <<shown, tempBuffer, notifications>>
    BY <1>6 DEF start_reader_thread, textVars, ReaderInv
  <2>2. InOrder(shown \o <<>>) /\ ReadBefore(shown \o <<>>)
    BY Dropped DEF BufferInv
  <2> QED
    BY <2>1, <2>2, EmptySeq DEF BufferInv, DataAnnounced, ReadBefore, InOrder
<1>7. CASE NotifiedOfData
  <2>1. /\ m_read_buffer' = <<>> /\ shown' = shown \o m_read_buffer
        /\ UNCHANGED <<readerPc, tempBuffer, m_reader_stopped>> /\ notifications' \in Nat
    BY <1>7 DEF NotifiedOfData, readerVars, BufferInv
  <2>2. /\ shown' \in Seq(Data)
        /\ InOrder((shown \o m_read_buffer) \o <<>>) /\ ReadBefore((shown \o m_read_buffer) \o <<>>)
    BY <2>1, Dropped, ConcatProperties DEF BufferInv
  <2> QED
    BY <2>1, <2>2, EmptySeq DEF BufferInv, DataAnnounced, ReadBefore, InOrder
<1>8. CASE NotifiedAfterStop
  <2>1. /\ UNCHANGED <<m_read_buffer, shown, tempBuffer, m_reader_stopped, readerPc>>
        /\ notifications' \in Nat /\ m_reader_stopped = TRUE
    BY <1>8 DEF NotifiedAfterStop, textVars, BufferInv, ReaderInv
  <2> QED
    BY <2>1 DEF BufferInv, DataAnnounced, ReadBefore, InOrder
<1>9. CASE on_show
  <2>1. /\ shown' = <<>> /\ UNCHANGED <<bufferVars, tempBuffer, m_reader_stopped, readerPc>>
    BY <1>9 DEF on_show
  <2>2. InOrder(<<>> \o m_read_buffer) /\ ReadBefore(<<>> \o m_read_buffer)
    BY Dropped DEF BufferInv
  <2> QED
    BY <2>1, <2>2, EmptySeq DEF bufferVars, BufferInv, DataAnnounced, ReadBefore, InOrder
<1>10. CASE ReaderTest
  BY <1>1, <1>10 DEF ReaderTest, textVars
<1>11. CASE OnShowStart \/ home_clicked \/ Destroy \/ Destroyed
  BY <1>2, <1>11 DEF OnShowStart, home_clicked, Destroy, Destroyed, textVars, readerVars
<1>12. CASE Typing
  BY <1>2, <1>12 DEF Typing, readerVars
<1>13. CASE UNCHANGED vars
  BY <1>2, <1>13 DEF vars, textVars, readerVars
<1> QED
  BY <1>3, <1>4, <1>5, <1>6, <1>7, <1>8, <1>9, <1>10, <1>11, <1>12, <1>13
     DEF Next, read_data, Slots, reader_notification, User, Type, Backspace, Left, Click, Enter

(* Data in the buffer of a running reader is announced, and what is shown  *)
(* and what waits is in the order of the reads, nothing twice.             *)
THEOREM DataInOrder == Spec => [](DataAnnounced /\ ShownInOrder)
<1>1. DataInv => DataAnnounced /\ ShownInOrder
  BY DEF DataInv, ShownInOrder
<1> QED
  BY ReaderInit, ReaderStep, DataInit, DataStep, <1>1, PTL DEF Spec

-----------------------------------------------------------------------------
(* The text.                                                               *)

Behind(s, b) == SubSeq(s, b + 1, Len(s))

(* What the lemmas below say of t, cell by cell.                           *)
IsBehind(t, s, b) == Len(t) = Len(s) - b /\ \A i \in 1..(Len(s) - b) : t[i] = s[b + i]

IsJoined(t, f, g) == /\ Len(t) = Len(f) + Len(g)
                     /\ \A i \in 1..Len(f) : t[i] = f[i]
                     /\ \A i \in 1..Len(g) : t[Len(f) + i] = g[i]

IsInserted(t, s, p, c) == /\ Len(t) = Len(s) + 1
                          /\ \A i \in 1..p : t[i] = s[i]
                          /\ t[p + 1] = c
                          /\ \A i \in 1..(Len(s) - p) : t[(p + 1) + i] = s[p + i]

IsWithout(t, s, p) == /\ Len(t) = Len(s) - 1
                      /\ \A i \in 1..(p - 1) : t[i] = s[i]
                      /\ \A i \in 1..(Len(s) - p) : t[(p - 1) + i] = s[p + i]

(* What stands behind a position.                                          *)
LEMMA BehindHolds ==
  ASSUME NEW S, NEW s \in Seq(S), NEW b \in 0..Len(s)
  PROVE  Behind(s, b) \in Seq(S) /\ IsBehind(Behind(s, b), s, b)
<1>1. \A i \in (b + 1)..Len(s) : s[i] \in S
  OBVIOUS
<1> QED
  BY <1>1 DEF Behind, IsBehind

(* Two sequences in a row.                                                 *)
LEMMA Joined ==
  ASSUME NEW S, NEW f \in Seq(S), NEW g \in Seq(S)
  PROVE  (f \o g) \in Seq(S) /\ IsJoined(f \o g, f, g)
BY ConcatProperties DEF IsJoined

(* A cell inserted at a position moves what stands behind it.              *)
LEMMA InsertHolds ==
  ASSUME NEW S, NEW s \in Seq(S), NEW p \in 0..Len(s), NEW c \in S
  PROVE  Insert(s, p, c) \in Seq(S) /\ IsInserted(Insert(s, p, c), s, p, c)
<1> DEFINE front == SubSeq(s, 1, p)  back == SubSeq(s, p + 1, Len(s))  first == front \o <<c>>
<1>1. /\ front \in Seq(S) /\ Len(front) = p /\ \A i \in 1..p : front[i] = s[i]
  OBVIOUS
<1>2. /\ back \in Seq(S) /\ Len(back) = Len(s) - p /\ \A i \in 1..(Len(s) - p) : back[i] = s[p + i]
  BY BehindHolds DEF Behind, IsBehind
<1>3. <<c>> \in Seq(S) /\ Len(<<c>>) = 1 /\ <<c>>[1] = c
  OBVIOUS
<1>4. Insert(s, p, c) = first \o back
  BY DEF Insert
<1> HIDE DEF front, back
<1>5. /\ first \in Seq(S) /\ Len(first) = p + 1
      /\ \A i \in 1..p : first[i] = s[i]
      /\ first[p + 1] = c
  BY <1>1, <1>3
<1> HIDE DEF first
<1>6. (first \o back) \in Seq(S) /\ IsJoined(first \o back, first, back)
  BY <1>2, <1>5, Joined
<1>7. (p + 1) + Len(back) = Len(s) + 1 /\ p + 1 \in 1..(p + 1) /\ 1..p \subseteq 1..(p + 1)
  BY <1>2
<1> QED
  BY <1>2, <1>4, <1>5, <1>6, <1>7 DEF IsJoined, IsInserted

(* A cell that is removed brings what stands behind it forward.            *)
LEMMA WithoutHolds ==
  ASSUME NEW S, NEW s \in Seq(S), NEW p \in 1..Len(s)
  PROVE  Without(s, p) \in Seq(S) /\ IsWithout(Without(s, p), s, p)
<1> DEFINE front == SubSeq(s, 1, p - 1)  back == SubSeq(s, p + 1, Len(s))
<1>1. front \in Seq(S) /\ Len(front) = p - 1 /\ \A i \in 1..(p - 1) : front[i] = s[i]
  OBVIOUS
<1>2. /\ back \in Seq(S) /\ Len(back) = Len(s) - p /\ \A i \in 1..(Len(s) - p) : back[i] = s[p + i]
  BY BehindHolds DEF Behind, IsBehind
<1>3. Without(s, p) = front \o back
  BY DEF Without
<1> HIDE DEF front, back
<1>4. (front \o back) \in Seq(S) /\ IsJoined(front \o back, front, back)
  BY <1>1, <1>2, Joined
<1>5. (p - 1) + Len(back) = Len(s) - 1
  BY <1>2
<1> QED
  BY <1>1, <1>2, <1>3, <1>4, <1>5 DEF IsJoined, IsWithout

(* What is inserted behind a position is inserted into what stands there.  *)
LEMMA BehindInsert ==
  ASSUME NEW S, NEW s \in Seq(S), NEW b \in 0..Len(s), NEW p \in b..Len(s), NEW c \in S
  PROVE  Behind(Insert(s, p, c), b) = Insert(Behind(s, b), p - b, c)
<1> DEFINE t == Insert(s, p, c)  u == Behind(s, b)  l == Behind(t, b)  r == Insert(u, p - b, c)
<1>1. p \in 0..Len(s) /\ Len(s) \in Nat /\ b \in Nat
  OBVIOUS
<1>2. t \in Seq(S) /\ IsInserted(t, s, p, c)
  BY <1>1, InsertHolds
<1>3. u \in Seq(S) /\ IsBehind(u, s, b)
  BY BehindHolds
<1> HIDE DEF t, u
<1>4. b \in 0..Len(t) /\ Len(t) - b = Len(s) + 1 - b
  BY <1>1, <1>2 DEF IsInserted
<1>5. l \in Seq(S) /\ IsBehind(l, t, b)
  BY <1>2, <1>4, BehindHolds
<1>6. p - b \in 0..Len(u) /\ Len(u) - (p - b) = Len(s) - p /\ Len(u) + 1 = Len(s) + 1 - b
  BY <1>1, <1>3 DEF IsBehind
<1>7. r \in Seq(S) /\ IsInserted(r, u, p - b, c)
  BY <1>3, <1>6, InsertHolds
<1> HIDE DEF l, r
<1>8. ASSUME NEW i \in 1..(Len(s) + 1 - b) PROVE l[i] = r[i]
  <2>1. CASE i \in 1..(p - b)
    <3>1. b + i \in 1..p /\ i \in 1..(Len(s) - b)
      BY <1>1, <2>1
    <3> QED
      BY <1>2, <1>3, <1>4, <1>5, <1>7, <2>1, <3>1 DEF IsInserted, IsBehind
  <2>2. CASE i = (p - b) + 1
    <3>1. b + i = p + 1
      BY <1>1, <2>2
    <3> QED
      BY <1>2, <1>4, <1>5, <1>7, <2>2, <3>1 DEF IsInserted, IsBehind
  <2>3. CASE i \notin 1..(p - b) /\ i # (p - b) + 1
    <3> DEFINE j == i - ((p - b) + 1)
    <3>1. j \in 1..(Len(s) - p) /\ i = ((p - b) + 1) + j /\ b + i = (p + 1) + j
      BY <1>1, <2>3
    <3>2. (p - b) + j \in 1..(Len(s) - b) /\ b + ((p - b) + j) = p + j
      BY <1>1, <3>1
    <3> HIDE DEF j
    <3>3. l[i] = s[p + j]
      BY <1>2, <1>4, <1>5, <3>1 DEF IsInserted, IsBehind
    <3>4. r[i] = u[(p - b) + j]
      BY <1>6, <1>7, <3>1 DEF IsInserted, IsBehind
    <3>5. u[(p - b) + j] = s[p + j]
      BY <1>3, <3>2 DEF IsInserted, IsBehind
    <3> QED
      BY <3>3, <3>4, <3>5
  <2> QED
    BY <2>1, <2>2, <2>3
<1>9. l = r
  BY <1>4, <1>5, <1>6, <1>7, <1>8, SeqEqual DEF IsInserted, IsBehind
<1> QED
  BY <1>9 DEF l, r, t, u

(* What is erased behind a position is erased from what stands there.      *)
LEMMA BehindWithout ==
  ASSUME NEW S, NEW s \in Seq(S), NEW b \in 0..Len(s), NEW p \in (b + 1)..Len(s)
  PROVE  Behind(Without(s, p), b) = Without(Behind(s, b), p - b)
<1> DEFINE t == Without(s, p)  u == Behind(s, b)  l == Behind(t, b)  r == Without(u, p - b)
<1>1. p \in 1..Len(s) /\ Len(s) \in Nat /\ b \in Nat
  OBVIOUS
<1>2. t \in Seq(S) /\ IsWithout(t, s, p)
  BY <1>1, WithoutHolds
<1>3. u \in Seq(S) /\ IsBehind(u, s, b)
  BY BehindHolds
<1> HIDE DEF t, u
<1>4. b \in 0..Len(t) /\ Len(t) - b = Len(s) - 1 - b
  BY <1>1, <1>2 DEF IsWithout
<1>5. l \in Seq(S) /\ IsBehind(l, t, b)
  BY <1>2, <1>4, BehindHolds
<1>6. p - b \in 1..Len(u) /\ Len(u) - (p - b) = Len(s) - p /\ Len(u) - 1 = Len(s) - 1 - b
  BY <1>1, <1>3 DEF IsBehind
<1>7. r \in Seq(S) /\ IsWithout(r, u, p - b)
  BY <1>3, <1>6, WithoutHolds
<1> HIDE DEF l, r
<1>8. ASSUME NEW i \in 1..(Len(s) - 1 - b) PROVE l[i] = r[i]
  <2>1. CASE i \in 1..((p - b) - 1)
    <3>1. b + i \in 1..(p - 1) /\ i \in 1..(Len(s) - b)
      BY <1>1, <2>1
    <3> QED
      BY <1>2, <1>3, <1>4, <1>5, <1>7, <2>1, <3>1 DEF IsWithout, IsBehind
  <2>2. CASE i \notin 1..((p - b) - 1)
    <3> DEFINE j == i - ((p - b) - 1)
    <3>1. j \in 1..(Len(s) - p) /\ i = ((p - b) - 1) + j /\ b + i = (p - 1) + j
      BY <1>1, <2>2
    <3>2. (p - b) + j \in 1..(Len(s) - b) /\ b + ((p - b) + j) = p + j
      BY <1>1, <3>1
    <3> HIDE DEF j
    <3>3. l[i] = s[p + j]
      BY <1>2, <1>4, <1>5, <3>1 DEF IsWithout, IsBehind
    <3>4. r[i] = u[(p - b) + j]
      BY <1>6, <1>7, <3>1 DEF IsWithout, IsBehind
    <3>5. u[(p - b) + j] = s[p + j]
      BY <1>3, <3>2 DEF IsWithout, IsBehind
    <3> QED
      BY <3>3, <3>4, <3>5
  <2> QED
    BY <2>1, <2>2
<1>9. l = r
  BY <1>4, <1>5, <1>6, <1>7, <1>8, SeqEqual DEF IsWithout, IsBehind
<1> QED
  BY <1>9 DEF l, r, t, u

WithData(s, b, d) == SubSeq(s, 1, b) \o d \o SubSeq(s, b + 1, Len(s))

(* Data inserted at a position leaves what stood behind it behind the data.*)
LEMMA BehindShown ==
  ASSUME NEW S, NEW s \in Seq(S), NEW b \in 0..Len(s), NEW d \in Seq(S)
  PROVE  /\ WithData(s, b, d) \in Seq(S) /\ b + Len(d) \in 0..Len(WithData(s, b, d))
         /\ Behind(WithData(s, b, d), b + Len(d)) = Behind(s, b)
<1> DEFINE t == WithData(s, b, d)  front == SubSeq(s, 1, b)  first == front \o d  back == Behind(s, b)
           n == b + Len(d)  r == Behind(t, n)
<1>1. front \in Seq(S) /\ Len(front) = b
  OBVIOUS
<1>2. back \in Seq(S)
  BY BehindHolds
<1>3. t = first \o back
  BY DEF Behind, WithData
<1> HIDE DEF t, front, back
<1>4. first \in Seq(S) /\ Len(first) = n /\ n \in Nat
  <2>1. first \in Seq(S) /\ IsJoined(first, front, d)
    BY <1>1, Joined
  <2> QED
    BY <1>1, <2>1 DEF IsJoined
<1> HIDE DEF first, n
<1>5. /\ t \in Seq(S) /\ Len(t) = n + Len(back) /\ Len(back) \in Nat
      /\ \A i \in 1..Len(back) : t[n + i] = back[i]
  <2>1. t \in Seq(S) /\ IsJoined(t, first, back)
    BY <1>2, <1>3, <1>4, Joined
  <2>2. Len(back) \in Nat
    BY <1>2
  <2>3. Len(t) = n + Len(back)
    BY <1>4, <2>1 DEF IsJoined
  <2>4. \A i \in 1..Len(back) : t[n + i] = back[i]
    BY <1>4, <2>1 DEF IsJoined
  <2> QED
    BY <2>1, <2>2, <2>3, <2>4
<1>6. n \in 0..Len(t) /\ Len(t) - n = Len(back)
  <2> DEFINE k == Len(back)  m == Len(t)
  <2>1. n \in Nat /\ k \in Nat /\ m = n + k
    BY <1>4, <1>5
  <2> HIDE DEF k, m
  <2>2. n \in 0..m /\ m - n = k
    BY <2>1
  <2> QED
    BY <2>2 DEF k, m
<1>7. r \in Seq(S) /\ Len(r) = Len(back) /\ \A i \in 1..Len(back) : r[i] = t[n + i]
  <2>1. r \in Seq(S) /\ IsBehind(r, t, n)
    BY <1>5, <1>6, BehindHolds
  <2> QED
    BY <1>6, <2>1 DEF IsBehind
<1> HIDE DEF r
<1>8. r = back
  BY <1>2, <1>5, <1>7, SeqEqual
<1> QED
  BY <1>5, <1>6, <1>8 DEF t, r, back, n

-----------------------------------------------------------------------------
(* The input.                                                              *)

TextInv == /\ text \in Seq(Cells) /\ typed \in Seq(Keys)
           /\ cursor \in 0..Len(text) /\ m_input_begin \in Nat
           /\ erased \in BOOLEAN

(* As long as nothing in front of the input was erased, what stands behind *)
(* its start is what the user typed, in every view.                        *)
InputInv == IF erased = TRUE THEN typed = <<>>
            ELSE /\ m_input_begin \in 0..Len(text)
                 /\ Behind(text, m_input_begin) = typed

(* Initially there is no text.                                             *)
LEMMA TextInit == Init => TextInv /\ InputInv
<1> SUFFICES ASSUME Init PROVE TextInv /\ InputInv
  OBVIOUS
<1>1. text = <<>> /\ typed = <<>> /\ cursor = 0 /\ m_input_begin = 0 /\ erased = FALSE
  BY DEF Init
<1>2. Behind(text, 0) = <<>>
  BY <1>1 DEF Behind
<1>3. Len(text) = 0 /\ text \in Seq(Cells) /\ typed \in Seq(Keys)
  BY <1>1
<1>4. TextInv
  <2>1. cursor \in 0..Len(text) /\ m_input_begin \in Nat
    BY <1>1, <1>3
  <2>2. erased \in BOOLEAN
    BY <1>1
  <2> QED
    BY <1>3, <2>1, <2>2 DEF TextInv
<1>5. InputInv
  <2>1. m_input_begin \in 0..Len(text) /\ Behind(text, m_input_begin) = typed
    BY <1>1, <1>2, <1>3
  <2> QED
    BY <1>1, <2>1 DEF InputInv
<1> QED
  BY <1>4, <1>5

(* Nothing stands behind the end.                                          *)
LEMMA BehindEnd == ASSUME NEW S, NEW s \in Seq(S) PROVE Behind(s, Len(s)) = <<>>
BY DEF Behind

(* The input starts anew behind a text that ends with the prompt.          *)
LEMMA InputBegins ==
  ASSUME text' \in Seq(Cells), cursor' = Len(text'), m_input_begin' = Len(text'),
         typed' = <<>>, erased' = FALSE
  PROVE  TextInv' /\ InputInv'
<1>1. Behind(text', Len(text')) = <<>>
  BY BehindEnd
<1>2. Len(text') \in Nat
  OBVIOUS
<1>3. typed' \in Seq(Keys)
  OBVIOUS
<1>4. TextInv'
  <2>1. cursor' \in 0..Len(text') /\ m_input_begin' \in Nat
    BY <1>2
  <2>2. erased' \in BOOLEAN
    OBVIOUS
  <2> QED
    BY <1>3, <2>1, <2>2 DEF TextInv
<1>5. InputInv'
  <2>1. m_input_begin' \in 0..Len(text') /\ Behind(text', m_input_begin') = typed'
    BY <1>1, <1>2
  <2> QED
    BY <2>1 DEF InputInv
<1> QED
  BY <1>4, <1>5

(* Data that is shown moves the start of the input, and not the input.     *)
LEMMA ShowStep == ASSUME TextInv, InputInv, BufferInv, NotifiedOfData PROVE TextInv' /\ InputInv'
<1>1. /\ text' = SubSeq(text, 1, InputAt) \o m_read_buffer \o SubSeq(text, InputAt + 1, Len(text))
      /\ cursor' = Len(text') /\ m_input_begin' = InputAt + Len(m_read_buffer)
      /\ typed' = typed /\ erased' = erased
  BY DEF NotifiedOfData, ShowData
<1>2. InputAt \in 0..Len(text)
  BY DEF TextInv, InputAt
<1>3. text \in Seq(Cells) /\ m_read_buffer \in Seq(Cells)
  BY DEF TextInv, BufferInv, Cells
<1>4. /\ text' \in Seq(Cells) /\ m_input_begin' \in 0..Len(text')
      /\ Behind(text', m_input_begin') = Behind(text, InputAt)
  <2> DEFINE t == WithData(text, InputAt, m_read_buffer)  n == InputAt + Len(m_read_buffer)
  <2>1. t \in Seq(Cells) /\ n \in 0..Len(t) /\ Behind(t, n) = Behind(text, InputAt)
    BY <1>2, <1>3, BehindShown
  <2>2. text' = t /\ m_input_begin' = n
    BY <1>1 DEF WithData
  <2> HIDE DEF t, n
  <2> QED
    BY <2>1, <2>2
<1>5. TextInv'
  <2>1. Len(text') \in Nat
    BY <1>4
  <2>2. cursor' \in 0..Len(text') /\ m_input_begin' \in Nat
    BY <1>1, <1>4, <2>1
  <2> QED
    BY <1>1, <1>4, <2>2 DEF TextInv
<1>6. InputInv'
  <2>1. CASE erased = TRUE
    BY <1>1, <2>1 DEF InputInv
  <2>2. CASE erased # TRUE
    <3>1. m_input_begin \in 0..Len(text) /\ Behind(text, m_input_begin) = typed
      BY <2>2 DEF InputInv
    <3>2. InputAt = m_input_begin
      BY <1>3, <3>1 DEF InputAt
    <3> QED
      BY <1>1, <1>4, <2>2, <3>1, <3>2 DEF InputInv
  <2> QED
    BY <2>1, <2>2
<1> QED
  BY <1>5, <1>6

(* A key is typed where the cursor is, or at the end.                      *)
LEMMA TypeStep == ASSUME TextInv, InputInv, NEW k \in Keys, Type(k) PROVE TextInv' /\ InputInv'
<1> DEFINE p == reset_cursor  b == m_input_begin
<1>1. /\ text' = Insert(text, p, k) /\ cursor' = p + 1 /\ m_input_begin' = b /\ erased' = erased
      /\ typed' = IF erased THEN <<>> ELSE Insert(typed, p - b, k)
  BY DEF Type
<1>2. text \in Seq(Cells) /\ typed \in Seq(Keys) /\ k \in Cells /\ b \in Nat
  BY DEF TextInv, Cells
<1>3. p \in 0..Len(text)
  BY <1>2 DEF TextInv, reset_cursor
<1>4. text' \in Seq(Cells) /\ Len(text') = Len(text) + 1
  BY <1>1, <1>2, <1>3, InsertHolds DEF IsInserted
<1>5. cursor' \in 0..Len(text')
  BY <1>1, <1>3, <1>4
<1>6. CASE erased = TRUE
  <2>1. typed' = <<>> /\ typed' \in Seq(Keys)
    BY <1>1, <1>6
  <2> QED
    BY <1>1, <1>2, <1>4, <1>5, <1>6, <2>1 DEF TextInv, InputInv
<1>7. CASE erased = FALSE
  <2>1. b \in 0..Len(text) /\ Behind(text, b) = typed
    BY <1>7 DEF InputInv
  <2>2. p \in b..Len(text)
    BY <1>2, <2>1 DEF TextInv, reset_cursor
  <2>3. typed' = Insert(typed, p - b, k)
    BY <1>1, <1>7
  <2> HIDE DEF p, b
  <2>4. Behind(text', b) = typed'
    BY <1>1, <1>2, <2>1, <2>2, <2>3, BehindInsert
  <2>5. typed' \in Seq(Keys)
    <3>1. Len(typed) = Len(text) - b
      BY <1>2, <2>1, BehindHolds DEF IsBehind
    <3>2. p - b \in 0..Len(typed)
      BY <1>2, <2>1, <2>2, <3>1
    <3> QED
      BY <1>2, <2>3, <3>2, InsertHolds
  <2>6. b \in 0..Len(text')
    BY <1>2, <1>4, <2>1
  <2> QED
    BY <1>1, <1>2, <1>4, <1>5, <1>7, <2>4, <2>5, <2>6 DEF TextInv, InputInv
<1> QED
  BY <1>6, <1>7 DEF TextInv

(* What is erased stands behind the start of the input, or ends the claim. *)
LEMMA BackspaceStep == ASSUME TextInv, InputInv, Backspace PROVE TextInv' /\ InputInv'
<1> DEFINE p == reset_cursor  b == m_input_begin
<1>1. /\ text' = Without(text, p) /\ cursor' = p - 1 /\ m_input_begin' = b /\ p > 0
      /\ erased' = (erased \/ p <= b)
      /\ typed' = IF erased' THEN <<>> ELSE Without(typed, p - b)
  BY DEF Backspace
<1>2. text \in Seq(Cells) /\ typed \in Seq(Keys) /\ b \in Nat
  BY DEF TextInv
<1>3. p \in 1..Len(text)
  BY <1>1, <1>2 DEF TextInv, reset_cursor
<1>4. text' \in Seq(Cells) /\ Len(text') = Len(text) - 1
  BY <1>1, <1>2, <1>3, WithoutHolds DEF IsWithout
<1>5. cursor' \in 0..Len(text')
  BY <1>1, <1>3, <1>4
<1>6. CASE erased' = TRUE
  <2>1. typed' = <<>> /\ typed' \in Seq(Keys)
    BY <1>1, <1>6
  <2> QED
    BY <1>1, <1>2, <1>4, <1>5, <1>6, <2>1 DEF TextInv, InputInv
<1>7. CASE erased' = FALSE
  <2>1. erased # TRUE /\ ~(p <= b)
    BY <1>1, <1>7
  <2>2. b \in 0..Len(text) /\ Behind(text, b) = typed
    BY <2>1 DEF InputInv
  <2>3. p \in (b + 1)..Len(text)
    BY <1>2, <1>3, <2>1
  <2>4. typed' = Without(typed, p - b)
    BY <1>1, <1>7
  <2> HIDE DEF p, b
  <2>5. Behind(text', b) = typed'
    BY <1>1, <1>2, <2>2, <2>3, <2>4, BehindWithout
  <2>6. typed' \in Seq(Keys)
    <3>1. Len(typed) = Len(text) - b
      BY <1>2, <2>2, BehindHolds DEF IsBehind
    <3>2. p - b \in 1..Len(typed)
      BY <1>2, <2>2, <2>3, <3>1
    <3> QED
      BY <1>2, <2>4, <3>2, WithoutHolds
  <2>7. b \in 0..Len(text')
    BY <1>2, <1>4, <2>3
  <2> QED
    BY <1>1, <1>2, <1>4, <1>5, <1>7, <2>5, <2>6, <2>7 DEF TextInv, InputInv
<1>8. erased' \in BOOLEAN
  BY <1>1
<1> QED
  BY <1>6, <1>7, <1>8

(* Every step keeps the input as the user edited it.                       *)
LEMMA TextStep == BufferInv /\ TextInv /\ InputInv /\ [Next]_vars => TextInv' /\ InputInv'
<1> SUFFICES ASSUME BufferInv, TextInv, InputInv, [Next]_vars PROVE TextInv' /\ InputInv'
  OBVIOUS
<1>1. CASE UNCHANGED <<text, typed, m_input_begin, erased>> /\ cursor' \in 0..Len(text)
  BY <1>1 DEF TextInv, InputInv
<1>2. CASE UNCHANGED textVars
  BY <1>1, <1>2 DEF textVars, TextInv
<1>3. CASE on_show
  <2>1. Prompt \in Cells
    BY DEF Cells
  <2>2. /\ text' = <<Prompt>> /\ cursor' = 1 /\ m_input_begin' = 1 /\ typed' = <<>>
        /\ erased' = FALSE
    BY <1>3 DEF on_show
  <2>3. text' \in Seq(Cells) /\ Len(text') = 1
    BY <2>1, <2>2
  <2> QED
    BY <2>2, <2>3, InputBegins
<1>4. CASE NotifiedOfData
  BY <1>4, ShowStep
<1>5. CASE \E k \in Keys : Type(k)
  BY <1>5, TypeStep
<1>6. CASE Backspace
  BY <1>6, BackspaceStep
<1>7. CASE Left
  <2>1. cursor' \in 0..Len(text)
    BY <1>7 DEF Left, TextInv, reset_cursor
  <2> QED
    BY <1>1, <1>7, <2>1 DEF Left
<1>8. CASE Enter
  <2>1. Newline \in Cells
    BY DEF Cells
  <2>2. text' \in Seq(Cells)
    BY <1>8, <2>1 DEF Enter, TextInv
  <2> QED
    BY <1>8, <2>2, InputBegins DEF Enter
<1>9. CASE \E p \in 0..Len(text) : Click(p)
  BY <1>1, <1>9 DEF Click
<1>10. CASE read_data
  BY <1>2, <1>10 DEF read_data, ReaderTest, ReaderRead, ReaderAppend, ReaderStop
<1>11. CASE start_reader_thread \/ NotifiedAfterStop \/ OnShowStart \/ Destroyed
  BY <1>2, <1>11 DEF start_reader_thread, NotifiedAfterStop, OnShowStart, Destroyed
<1>12. CASE home_clicked \/ Destroy
  BY <1>2, <1>12 DEF home_clicked, Destroy
<1>13. CASE UNCHANGED vars
  BY <1>2, <1>13 DEF vars
<1> QED
  BY <1>3, <1>4, <1>5, <1>6, <1>7, <1>8, <1>9, <1>10, <1>11, <1>12, <1>13
     DEF Next, Slots, reader_notification, User

(* As long as the user erases nothing in front of the input, the text that *)
(* Enter sends to the device is the input as the user edited it, whatever  *)
(* arrives meanwhile and wherever the mouse is clicked.                    *)
THEOREM InputKept == Spec => []InputIntact
<1>1. TextInv /\ InputInv => InputIntact
  BY DEF TextInv, InputInv, InputIntact, Behind
<1>2. DataInv => BufferInv
  BY DEF DataInv
<1> QED
  BY ReaderInit, ReaderStep, DataInit, DataStep, TextInit, TextStep, <1>1, <1>2, PTL DEF Spec

-----------------------------------------------------------------------------
(* The types.                                                              *)

RangeInv == /\ view \in {"home", "terminal"} /\ shows \in 0..MaxShows
            /\ m_reader_thread \in {"null", "joinable", "joined"}
            /\ readerPc \in {"none", "test", "read", "append", "stop", "ended"}
            /\ mainPc \in {"idle", "shown", "start", "joining", "destroyed", "terminated"}

FlagInv == m_stop_reader \in BOOLEAN

(* There are no more notifications than reads that returned data, without  *)
(* the read that is not announced yet.                                     *)
NotifiedInv == IF readerPc = "append" THEN notifications + 1 <= tempBuffer
                                      ELSE notifications <= tempBuffer

(* The ranges hold initially.                                              *)
LEMMA RangeInit == Init => RangeInv /\ FlagInv /\ NotifiedInv
<1> SUFFICES ASSUME Init PROVE RangeInv /\ FlagInv /\ NotifiedInv
  OBVIOUS
<1>1. RangeInv
  BY TerminalAssumption DEF Init, RangeInv
<1>2. FlagInv
  BY DEF Init, FlagInv
<1>3. NotifiedInv
  BY DEF Init, NotifiedInv
<1> QED
  BY <1>1, <1>2, <1>3

(* Every step keeps the ranges.                                            *)
LEMMA RangeStep == RangeInv /\ [Next]_vars => RangeInv'
<1> SUFFICES ASSUME RangeInv, [Next]_vars PROVE RangeInv'
  OBVIOUS
<1> USE DEF RangeInv
<1>1. CASE read_data
  BY <1>1 DEF read_data, ReaderTest, ReaderRead, ReaderAppend, ReaderStop
<1>2. CASE start_reader_thread
  BY <1>2 DEF start_reader_thread
<1>3. CASE NotifiedOfData \/ NotifiedAfterStop
  BY <1>3 DEF NotifiedOfData, NotifiedAfterStop, readerVars
<1>4. CASE on_show
  BY <1>4, TerminalAssumption DEF on_show
<1>5. CASE OnShowStart \/ home_clicked \/ Destroy \/ Destroyed
  BY <1>5 DEF OnShowStart, home_clicked, Destroy, Destroyed, readerVars
<1>6. CASE Typing
  BY <1>6 DEF Typing, readerVars
<1>7. CASE UNCHANGED vars
  BY <1>7 DEF vars, readerVars
<1> QED
  BY <1>1, <1>2, <1>3, <1>4, <1>5, <1>6, <1>7
     DEF Next, Slots, reader_notification, User, Type, Backspace, Left, Click, Enter

(* Every step keeps the flag a Boolean.                                    *)
LEMMA FlagStep == FlagInv /\ [Next]_vars => FlagInv'
<1> SUFFICES ASSUME FlagInv, [Next]_vars PROVE FlagInv'
  OBVIOUS
<1> USE DEF FlagInv
<1>1. CASE m_stop_reader' = m_stop_reader
  BY <1>1
<1>2. CASE m_stop_reader' = TRUE \/ m_stop_reader' = FALSE
  BY <1>2
<1>3. CASE on_show \/ home_clicked \/ Destroy
  BY <1>2, <1>3 DEF on_show, home_clicked, Destroy
<1>4. CASE read_data
  BY <1>1, <1>4 DEF read_data, ReaderTest, ReaderRead, ReaderAppend, ReaderStop
<1>5. CASE Slots
  BY <1>1, <1>5 DEF Slots, start_reader_thread, reader_notification, NotifiedOfData,
                    NotifiedAfterStop, OnShowStart, Destroyed, readerVars
<1>6. CASE Typing
  BY <1>1, <1>6 DEF Typing, readerVars
<1>7. CASE UNCHANGED vars
  BY <1>1, <1>7 DEF vars, readerVars
<1> QED
  BY <1>3, <1>4, <1>5, <1>6, <1>7 DEF Next, User, Type, Backspace, Left, Click, Enter

(* A notification is added only with the data it is for.                   *)
LEMMA NotifiedStep ==
  ReaderInv /\ BufferInv /\ NotifiedInv /\ [Next]_vars => NotifiedInv'
<1> SUFFICES ASSUME ReaderInv, BufferInv, NotifiedInv, [Next]_vars PROVE NotifiedInv'
  OBVIOUS
<1>0. notifications \in Nat /\ tempBuffer \in Nat
  BY TerminalAssumption DEF BufferInv
<1> USE DEF NotifiedInv
<1>1. CASE UNCHANGED <<notifications, readerPc, tempBuffer>>
  BY <1>1
<1>2. CASE ReaderTest \/ ReaderStop
  BY <1>2 DEF ReaderTest, ReaderStop, bufferVars
<1>3. CASE ReaderRead
  BY <1>0, <1>3 DEF ReaderRead, bufferVars
<1>4. CASE ReaderAppend
  BY <1>0, <1>4 DEF ReaderAppend
<1>5. CASE start_reader_thread
  <2>1. readerPc # "append"
    BY <1>5 DEF start_reader_thread, ReaderInv
  <2> QED
    BY <1>5, <2>1 DEF start_reader_thread
<1>6. CASE NotifiedOfData \/ NotifiedAfterStop
  BY <1>0, <1>6 DEF NotifiedOfData, NotifiedAfterStop, readerVars
<1>7. CASE on_show \/ OnShowStart \/ home_clicked \/ Destroy \/ Destroyed
  BY <1>1, <1>7 DEF on_show, OnShowStart, home_clicked, Destroy, Destroyed, readerVars, bufferVars
<1>8. CASE Typing
  BY <1>1, <1>8 DEF Typing, readerVars, bufferVars
<1>9. CASE UNCHANGED vars
  BY <1>1, <1>9 DEF vars, readerVars, bufferVars
<1> QED
  BY <1>2, <1>3, <1>4, <1>5, <1>6, <1>7, <1>8, <1>9
     DEF Next, read_data, Slots, reader_notification, User, Type, Backspace, Left, Click, Enter

(* The variables of the terminal keep their types: there are never more    *)
(* notifications than reads, and the input begins inside the text unless   *)
(* the user erased what stands in front of it.                             *)
THEOREM TypeCorrect == Spec => []TypeOK
<1>1. ReaderInv /\ BufferInv /\ TextInv /\ InputInv /\ RangeInv /\ FlagInv /\ NotifiedInv => TypeOK
  <2> SUFFICES ASSUME ReaderInv, BufferInv, TextInv, InputInv, RangeInv, FlagInv, NotifiedInv
               PROVE  TypeOK
    OBVIOUS
  <2>1. notifications \in 0..MaxData
    BY TerminalAssumption DEF BufferInv, NotifiedInv
  <2>2. {m_stop_reader, m_reader_stopped} \subseteq BOOLEAN
    BY DEF ReaderInv, FlagInv
  <2>3. ~erased => m_input_begin <= Len(text)
    <3>1. CASE erased = TRUE
      BY <3>1
    <3>2. CASE erased # TRUE
      <4>1. m_input_begin \in 0..Len(text)
        BY <3>2 DEF InputInv
      <4>2. text \in Seq(Cells)
        BY DEF TextInv
      <4>3. m_input_begin <= Len(text)
        BY <4>1, <4>2
      <4> QED
        BY <4>3
    <3> QED
      BY <3>1, <3>2
  <2> QED
    BY <2>1, <2>2, <2>3 DEF TypeOK, RangeInv, BufferInv, TextInv
<1>2. DataInv => BufferInv
  BY DEF DataInv
<1> QED
  BY ReaderInit, ReaderStep, DataInit, DataStep, TextInit, TextStep, RangeInit, RangeStep,
     FlagStep, NotifiedStep, <1>1, <1>2, PTL DEF Spec
=============================================================================
