--------------------------- MODULE Elm327_proofs ---------------------------
(***************************************************************************)
(* Proofs about the ELM327 driver.  First, that string_to_completion reads *)
(* what the adapter says: of every reply of any number of lines, of any    *)
(* modules and any bytes, on CAN and on the other protocols, and of a text *)
(* with spaces before the end of a line, one that is cut off, and one that *)
(* says nothing; the loops are followed turn by turn, by the induction     *)
(* over a set below.  Then, that the threads work together, for any set of *)
(* commands, any addresses, any capacity of the event pipe, and in every   *)
(* mode of the environment.                                                *)
(***************************************************************************)
EXTENDS ElmText, SequenceTheorems, FiniteSetTheorems, WellFoundedInduction, TLAPS

-----------------------------------------------------------------------------
(* Induction, with a set in the place of a predicate.                      *)

(* Every set of natural numbers that is not empty has a least element.     *)
LEMMA LeastElement ==
  ASSUME NEW T \in SUBSET Nat, T # {}
  PROVE  \E n \in T : \A m \in T : n <= m
<1> DEFINE R == OpToRel(<, Nat)
<1>1. IsWellFoundedOn(R, Nat)
  BY NatLessThanWellFounded
<1>2. \A m, n \in Nat : m < n => <<m, n>> \in R
  BY DEF OpToRel
<1> HIDE DEF R
<1>3. PICK n \in T : \A m \in T : ~(<<m, n>> \in R)
  BY <1>1, WFMin
<1>4. \A m \in T : ~(m < n) /\ m \in Nat /\ n \in Nat
  BY <1>2, <1>3
<1>5. \A m \in T : n <= m
  BY <1>4
<1> QED
  BY <1>5

(* A set that has 0, and with each number below N the next, has all of     *)
(* them up to N.                                                           *)
LEMMA UpTo ==
  ASSUME NEW N \in Nat, NEW S, 0 \in S, \A n \in 1..N : n - 1 \in S => n \in S
  PROVE  0..N \subseteq S
<1> DEFINE T == 0..N \ S
<1> SUFFICES ASSUME T # {} PROVE FALSE
  OBVIOUS
<1>0. T \in SUBSET Nat
  OBVIOUS
<1>1. PICK n \in T : \A m \in T : n <= m
  BY <1>0, LeastElement
<1>2. n \in 1..N
  BY <1>1
<1>3. n - 1 \in 0..N /\ n - 1 \notin T
  BY <1>1, <1>2
<1> QED
  BY <1>1, <1>2, <1>3

(* Two functions that begin with the same value and go on in the same way  *)
(* are the same.                                                           *)
LEMMA SameLoop ==
  ASSUME NEW N \in Nat, NEW f, NEW g, f[0] = g[0],
         \A n \in 1..N : f[n - 1] = g[n - 1] => f[n] = g[n]
  PROVE  f[N] = g[N]
<1> DEFINE S == {n \in 0..N : f[n] = g[n]}
<1>1. 0..N \subseteq S
  <2>1. 0 \in S
    OBVIOUS
  <2>2. \A n \in 1..N : n - 1 \in S => n \in S
    OBVIOUS
  <2> HIDE DEF S
  <2> QED
    BY <2>1, <2>2, UpTo
<1> QED
  BY <1>1

(* N steps can be made one after the other.                                *)
Steps(N, X) == [1..N -> [X -> X]]
Walks(N, X, x, step) ==
    {f \in [0..N -> X] : f[0] = x /\ \A n \in 1..N : f[n] = step[n][f[n - 1]]}

(* Some walk makes the steps.                                              *)
LEMMA LoopExists ==
  ASSUME NEW N \in Nat, NEW X, NEW x \in X, NEW step \in Steps(N, X)
  PROVE  Walks(N, X, x, step) # {}
<1>0. step \in [1..N -> [X -> X]]
  BY DEF Steps
<1> DEFINE Runs(k) == {f \in [0..k -> X] : f[0] = x /\ \A n \in 1..k : f[n] = step[n][f[n - 1]]}
           S == {k \in 0..N : Runs(k) # {}}
<1>1. 0 \in S
  <2>1. [i \in 0..0 |-> x] \in Runs(0)
    OBVIOUS
  <2> HIDE DEF Runs
  <2> QED
    BY <2>1
<1>2. ASSUME NEW k \in 1..N, k - 1 \in S PROVE k \in S
  <2>1. PICK f \in Runs(k - 1) : TRUE
    BY <1>2
  <2> DEFINE g == [i \in 0..k |-> IF i = k THEN step[k][f[k - 1]] ELSE f[i]]
  <2>2. f \in [0..k-1 -> X] /\ f[0] = x /\ \A n \in 1..k-1 : f[n] = step[n][f[n - 1]]
    BY <2>1
  <2>3. step[k][f[k - 1]] \in X
    BY <1>0, <2>2
  <2>4. g \in [0..k -> X]
    BY <2>2, <2>3
  <2>5. g[0] = x
    BY <2>2
  <2>6. ASSUME NEW n \in 1..k PROVE g[n] = step[n][g[n - 1]]
    <3>1. n \in 0..k /\ n - 1 \in 0..k /\ n - 1 # k
      OBVIOUS
    <3>2. g[n - 1] = f[n - 1]
      BY <3>1
    <3>3. CASE n = k
      BY <3>1, <3>2, <3>3
    <3>4. CASE n # k
      BY <2>2, <3>1, <3>2, <3>4
    <3> QED
      BY <3>3, <3>4
  <2> HIDE DEF g
  <2>7. g \in Runs(k)
    BY <2>4, <2>5, <2>6
  <2> HIDE DEF Runs
  <2> QED
    BY <2>7
<1>3. 0..N \subseteq S
  <2> HIDE DEF S
  <2> QED
    BY <1>1, <1>2, UpTo
<1>4. Runs(N) # {}
  BY <1>3
<1>5. Runs(N) = Walks(N, X, x, step)
  BY DEF Walks
<1> QED
  BY <1>4, <1>5

-----------------------------------------------------------------------------
(* The stream.                                                             *)

Cells == {Number(n) : n \in Nat} \cup {Space, CR, Prompt, Letter}
Blanks == {Space, CR}

(* A cell is what it is.                                                   *)
LEMMA CellsDiffer ==
  /\ \A n : Number(n)[1] = "number" /\ Number(n)[2] = n
  /\ \A n : Number(n) \notin {Space, CR, Prompt, Letter, EndOfText}
  /\ \A c \in {Space, CR, Prompt, Letter, EndOfText} : c[1] # "number"
  /\ Space # CR /\ Space # Prompt /\ CR # Prompt /\ Letter \notin {Space, CR, Prompt}
  /\ EndOfText \notin {Space, CR, Prompt, Letter}
<1>1. \A n : Number(n)[1] = "number" /\ Number(n)[2] = n
  BY DEF Number
<1>2. /\ Space[1] = "space" /\ CR[1] = "return" /\ Prompt[1] = "prompt" /\ Letter[1] = "letter"
      /\ EndOfText[1] = "end"
  BY DEF Space, CR, Prompt, Letter, EndOfText
<1> QED
  BY <1>1, <1>2

(* >> skips the blanks in front.                                           *)
LEMMA UnblankedIs ==
  ASSUME NEW cells \in Seq(Cells), NEW n \in 0..Len(cells),
         \A j \in 1..n : cells[j] \in Blanks,
         n < Len(cells) => cells[n + 1] \notin Blanks
  PROVE  Unblanked(cells) = SubSeq(cells, n + 1, Len(cells))
<1> DEFINE blanks == {i \in DOMAIN cells : \A j \in 1..i : cells[j] \in {Space, CR}}
<1>1. blanks = 1..n
  <2>1. \A i \in 1..n : i \in blanks
    BY DEF Blanks
  <2>2. ASSUME NEW i \in blanks PROVE i \in 1..n
    <3>1. i \in 1..Len(cells)
      OBVIOUS
    <3>2. CASE i > n
      <4>1. n + 1 \in 1..i
        BY <3>1, <3>2
      <4>2. cells[n + 1] \in Blanks
        BY <4>1 DEF Blanks
      <4> QED
        BY <3>1, <3>2, <4>2
    <3> QED
      BY <3>1, <3>2
  <2> QED
    BY <2>1, <2>2
<1>2. Cardinality(1..n) = n
  BY FS_Interval
<1> HIDE DEF blanks
<1> QED
  BY <1>1, <1>2 DEF Unblanked, blanks

(* What is left of a sequence from a position on.                          *)
LEMMA Suffix ==
  ASSUME NEW X, NEW cells \in Seq(X), NEW k \in 1..Len(cells) + 1
  PROVE  LET s == SubSeq(cells, k, Len(cells))
         IN /\ s \in Seq(X) /\ Len(s) = Len(cells) - k + 1
            /\ \A j \in 1..Len(s) : s[j] = cells[k + j - 1]
            /\ s = <<>> <=> k = Len(cells) + 1
            /\ k <= Len(cells) => /\ Head(s) = cells[k]
                                  /\ Tail(s) = SubSeq(cells, k + 1, Len(cells))
            /\ \A m \in 1..Len(s) + 1 :
                 SubSeq(s, m, Len(s)) = SubSeq(cells, k + m - 1, Len(cells))
<1> DEFINE N == Len(cells)
           s == SubSeq(cells, k, N)
<1>1. N \in Nat /\ k \in Nat /\ \A i \in k..N : cells[i] \in X
  OBVIOUS
<1>2. /\ s \in Seq(X) /\ Len(s) = N - k + 1
      /\ \A j \in 1..(N - k + 1) : s[j] = cells[k + j - 1]
  <2>1. k \in Int /\ N \in Int
    BY <1>1
  <2>2. /\ s \in Seq(X) /\ Len(s) = IF k <= N THEN N - k + 1 ELSE 0
        /\ \A j \in 1..(N - k + 1) : s[j] = cells[k + j - 1]
    <3> HIDE DEF N
    <3> QED
      BY <1>1, <2>1, SubSeqProperties
  <2> HIDE DEF s
  <2> QED
    BY <1>1, <2>2
<1>3. s = <<>> <=> Len(s) = 0
  <2> HIDE DEF s
  <2> QED
    BY <1>2, EmptySeq
<1>4. k <= N => Head(s) = cells[k] /\ Tail(s) = SubSeq(cells, k + 1, N)
  <2>1. SUFFICES ASSUME k <= N PROVE Head(s) = cells[k] /\ Tail(s) = SubSeq(cells, k + 1, N)
    OBVIOUS
  <2>2. k \in 1..Len(cells) /\ N \in k..Len(cells)
    BY <2>1
  <2> HIDE DEF N
  <2> QED
    BY <2>2, HeadTailOfSubSeq
<1>5. ASSUME NEW m \in 1..Len(s) + 1
      PROVE  SubSeq(s, m, Len(s)) = SubSeq(cells, k + m - 1, N)
  <2>1. CASE m = Len(s) + 1
    <3>1. Len(s) \in Int /\ m \in Int /\ Len(s) < m /\ k + m - 1 \in Int /\ N \in Int
          /\ N < k + m - 1
      BY <1>1, <1>2, <2>1
    <3> HIDE DEF s, N
    <3> QED
      BY <3>1, SubSeqEmpty
  <2>2. CASE m # Len(s) + 1
    <3>1. /\ k \in 1..Len(cells) /\ N \in 1..Len(cells)
          /\ m \in 1..(N - k + 1) /\ Len(s) \in 1..(N - k + 1) /\ k + Len(s) - 1 = N
      BY <1>1, <1>2, <2>2
    <3>2. SubSeq(SubSeq(cells, k, N), m, Len(s)) = SubSeq(cells, k + m - 1, k + Len(s) - 1)
      <4> HIDE DEF N, s
      <4> QED
        BY <3>1, SubSeqOfSubSeq
    <3> QED
      BY <3>1, <3>2
  <2> QED
    BY <2>1, <2>2
<1> HIDE DEF s, N
<1> QED
  BY <1>1, <1>2, <1>3, <1>4, <1>5 DEF s, N

(* The stream of a text from a position on, the last cell read if there is *)
(* none behind.                                                            *)
AtEnd == [rest |-> <<>>, eof |-> TRUE, fail |-> FALSE]
Behind(cells, i) == IF i <= Len(cells) THEN Stream(SubSeq(cells, i, Len(cells))) ELSE AtEnd

(* A stream with something left is peeked into.                            *)
LEMMA PeekedIs ==
  ASSUME NEW X, NEW rest \in Seq(X), rest # <<>>
  PROVE  /\ peek(Stream(rest)) = Head(rest) /\ Peeked(Stream(rest)) = Stream(rest)
         /\ Good(Stream(rest)) /\ ~Stream(rest).fail /\ Stream(rest).rest = rest
<1> DEFINE s == Stream(rest)
<1>1. s = [rest |-> rest, eof |-> FALSE, fail |-> FALSE]
  BY DEF Stream
<1>2. s.rest = rest /\ s.eof = FALSE /\ s.fail = FALSE
  BY <1>1
<1> HIDE DEF s
<1>3. Good(s)
  BY <1>2 DEF Good
<1>4. (s.eof \/ (Good(s) /\ s.rest = <<>>)) = FALSE /\ (~Good(s)) = FALSE
  BY <1>2, <1>3
<1>5. Peeked(s) = [rest |-> rest, eof |-> FALSE, fail |-> FALSE]
  BY <1>2, <1>4 DEF Peeked
<1>6. peek(s) = Head(rest)
  BY <1>2, <1>3 DEF peek
<1> QED
  BY <1>1, <1>2, <1>3, <1>5, <1>6 DEF s

(* The number in front is read, ...                                        *)
LEMMA ExtractedIs ==
  ASSUME NEW rest, NEW cells, NEW left, NEW v, cells = Unblanked(rest), Good(Stream(rest)),
         cells # <<>>, Head(cells) = Number(v), Tail(cells) = left
  PROVE  Extracted(Stream(rest)) =
           [temp |-> v, stream |-> IF left = <<>> THEN AtEnd ELSE Stream(left)]
<1>1. Stream(rest).rest = rest /\ Stream(rest).fail = FALSE
  BY DEF Stream
<1>2. Number(v)[1] = "number" /\ Number(v)[2] = v
  BY CellsDiffer
<1>3. Extracted(Stream(rest)) = [temp |-> v, stream |-> [rest |-> left, eof |-> left = <<>>,
                                                        fail |-> FALSE]]
  BY <1>1, <1>2 DEF Extracted
<1>4. CASE left = <<>>
  BY <1>3, <1>4 DEF AtEnd
<1>5. CASE left # <<>>
  <2>1. (left = <<>>) = FALSE
    BY <1>5
  <2> QED
    BY <1>3, <2>1 DEF Stream
<1> QED
  BY <1>4, <1>5

(* ... and what is none is not.                                            *)
LEMMA NothingExtracted ==
  ASSUME NEW s, NEW cells, s.fail \in BOOLEAN, s.eof \in BOOLEAN,
         cells = IF Good(s) THEN Unblanked(s.rest) ELSE <<>>,
         cells = <<>> \/ Head(cells)[1] # "number"
  PROVE  /\ Extracted(s).temp = 0 /\ Extracted(s).stream.fail
         /\ Extracted(s).stream.rest = cells
  BY DEF Extracted

(* A number, or a blank and a number, is read.                             *)
LEMMA NumberRead ==
  ASSUME NEW cells \in Seq(Cells), NEW v \in Nat, NEW i \in 1..Len(cells), NEW k \in 1..i,
         cells[i] = Number(v), k = i \/ (k = i - 1 /\ cells[k] = Space)
  PROVE  /\ peek(Behind(cells, k)) \notin {CR, Prompt}
         /\ Peeked(Behind(cells, k)) = Behind(cells, k) /\ ~Behind(cells, k).fail
         /\ Extracted(Behind(cells, k)) = [temp |-> v, stream |-> Behind(cells, i + 1)]
<1> DEFINE s == Behind(cells, k)
           rest == SubSeq(cells, k, Len(cells))
           tail == SubSeq(cells, i, Len(cells))
           left == SubSeq(cells, i + 1, Len(cells))
           n == i - k
<1>0. i \in Nat /\ k \in Nat /\ Len(cells) \in Nat /\ k <= Len(cells)
  OBVIOUS
<1>1. /\ rest \in Seq(Cells) /\ Len(rest) = Len(cells) - k + 1 /\ rest # <<>>
      /\ \A j \in 1..Len(rest) : rest[j] = cells[k + j - 1]
      /\ Head(rest) = cells[k]
      /\ \A m \in 1..Len(rest) + 1 :
           SubSeq(rest, m, Len(rest)) = SubSeq(cells, k + m - 1, Len(cells))
  <2>1. k \in 1..Len(cells) + 1 /\ k # Len(cells) + 1
    BY <1>0
  <2> QED
    BY <1>0, <2>1, Suffix
<1>2. tail # <<>> /\ Head(tail) = Number(v) /\ Tail(tail) = left
  <2>1. i \in 1..Len(cells) + 1 /\ i # Len(cells) + 1
    BY <1>0
  <2> QED
    BY <1>0, <2>1, Suffix
<1>3. left = <<>> <=> ~(i + 1 <= Len(cells))
  <2>1. i + 1 \in 1..Len(cells) + 1
    BY <1>0
  <2>2. left = <<>> <=> i + 1 = Len(cells) + 1
    BY <2>1, Suffix
  <2> QED
    BY <1>0, <2>2
<1>4. s = Stream(rest)
  BY <1>0 DEF Behind
<1> HIDE DEF s
<1>5. peek(s) = cells[k] /\ Peeked(s) = s /\ Good(s) /\ ~s.fail
  <2> HIDE DEF rest
  <2> QED
    BY <1>1, <1>4, PeekedIs
<1>6. cells[k] \notin {CR, Prompt}
  BY CellsDiffer
<1>8. Unblanked(rest) = tail
  <2>1. n \in 0..Len(rest) /\ n < Len(rest) /\ n + 1 \in 1..Len(rest)
    BY <1>0, <1>1
  <2>2. rest[n + 1] = cells[i]
    BY <1>0, <1>1, <2>1
  <2>3. \A j \in 1..n : rest[j] \in Blanks
    BY <1>0, <1>1 DEF Blanks
  <2>4. rest[n + 1] \notin Blanks
    BY <2>2, CellsDiffer DEF Blanks
  <2>5. SubSeq(rest, n + 1, Len(rest)) = tail
    <3>1. k + (n + 1) - 1 = i
      BY <1>0
    <3>2. n + 1 \in 1..Len(rest) + 1
      BY <1>0, <1>1
    <3> HIDE DEF rest, n
    <3> QED
      BY <1>1, <3>1, <3>2
  <2> HIDE DEF rest, n, tail
  <2> QED
    BY <1>1, <2>1, <2>3, <2>4, <2>5, UnblankedIs
<1>9. Behind(cells, i + 1) = IF left = <<>> THEN AtEnd ELSE Stream(left)
  BY <1>3 DEF Behind
<1> HIDE DEF rest, tail, left
<1>10. Extracted(s) = [temp |-> v, stream |-> Behind(cells, i + 1)]
  BY <1>2, <1>4, <1>5, <1>8, <1>9, ExtractedIs
<1>11. s = Behind(cells, k)
  BY DEF s
<1> QED
  BY <1>5, <1>6, <1>10, <1>11

-----------------------------------------------------------------------------
(* A line.                                                                 *)

(* The numbers in front of a text, with a space between them.              *)
Starts(cells, numbers) ==
    /\ 2 * Len(numbers) - 1 <= Len(cells)
    /\ \A j \in 1..Len(numbers) : cells[2 * j - 1] = Number(numbers[j])
    /\ \A j \in 1..Len(numbers) - 1 : cells[2 * j] = Space

(* Numbers with spaces between them are cells, and begin with themselves.  *)
LEMMA SpacedIs ==
  ASSUME NEW numbers \in Seq(Nat), numbers # <<>>
  PROVE  /\ Spaced(numbers) \in Seq(Cells) /\ Len(Spaced(numbers)) = 2 * Len(numbers) - 1
         /\ Starts(Spaced(numbers), numbers)
<1> DEFINE k == Len(numbers)
           e(i) == IF i % 2 = 1 THEN Number(numbers[(i + 1) \div 2]) ELSE Space
           s == [i \in 1..2 * k - 1 |-> e(i)]
<1>1. k \in Nat /\ k > 0 /\ 2 * k - 1 \in Nat /\ \A j \in 1..k : numbers[j] \in Nat
  OBVIOUS
<1>2. \A i \in 1..2 * k - 1 : e(i) \in Cells
  <2>1. ASSUME NEW i \in 1..2 * k - 1, i % 2 = 1 PROVE (i + 1) \div 2 \in 1..k
    BY <1>1, <2>1
  <2> HIDE DEF k
  <2> QED
    BY <1>1, <2>1 DEF Cells
<1>3. s \in Seq(Cells) /\ Len(s) = 2 * k - 1
  <2> HIDE DEF k, e
  <2> QED
    BY <1>1, <1>2
<1>4. ASSUME NEW j \in 1..k PROVE s[2 * j - 1] = Number(numbers[j])
  <2>1. 2 * j - 1 \in 1..2 * k - 1 /\ (2 * j - 1) % 2 = 1 /\ ((2 * j - 1) + 1) \div 2 = j
    BY <1>1
  <2> HIDE DEF k
  <2> QED
    BY <2>1
<1>5. ASSUME NEW j \in 1..k - 1 PROVE s[2 * j] = Space
  <2>1. 2 * j \in 1..2 * k - 1 /\ (2 * j) % 2 # 1
    BY <1>1
  <2> HIDE DEF k
  <2> QED
    BY <2>1
<1>6. s = Spaced(numbers)
  BY DEF Spaced
<1> HIDE DEF s, e
<1> QED
  BY <1>1, <1>3, <1>4, <1>5, <1>6 DEF Starts

(* More text behind does not change what a text starts with.               *)
LEMMA StartsStill ==
  ASSUME NEW numbers \in Seq(Nat), NEW cells \in Seq(Cells), NEW more \in Seq(Cells),
         Starts(cells, numbers)
  PROVE  Starts(cells \o more, numbers)
<1>1. /\ cells \o more \in Seq(Cells) /\ Len(cells \o more) = Len(cells) + Len(more)
      /\ \A i \in 1..Len(cells) : (cells \o more)[i] = cells[i]
  OBVIOUS
<1>2. Len(numbers) \in Nat /\ Len(cells) \in Nat /\ Len(more) \in Nat
  OBVIOUS
<1>3. \A j \in 1..Len(numbers) : 2 * j - 1 \in 1..Len(cells)
  BY <1>2 DEF Starts
<1>4. \A j \in 1..Len(numbers) - 1 : 2 * j \in 1..Len(cells)
  BY <1>2 DEF Starts
<1> HIDE DEF Cells
<1> QED
  BY <1>1, <1>2, <1>3, <1>4 DEF Starts

(* The stream when j of the numbers were read.                             *)
Reading(cells, j) == Behind(cells, IF j = 0 THEN 1 ELSE 2 * j)

(* The next number is read.                                                *)
LEMMA NextNumber ==
  ASSUME NEW cells \in Seq(Cells), NEW numbers \in Seq(Nat), Starts(cells, numbers),
         NEW j \in 1..Len(numbers)
  PROVE  LET s == Reading(cells, j - 1)
         IN /\ peek(s) \notin {CR, Prompt} /\ Peeked(s) = s /\ ~s.fail
            /\ Extracted(s) = [temp |-> numbers[j], stream |-> Reading(cells, j)]
<1> DEFINE i == 2 * j - 1
           k == IF j = 1 THEN 1 ELSE 2 * (j - 1)
<1>1. j \in Nat /\ j > 0 /\ Len(numbers) \in Nat /\ numbers[j] \in Nat /\ Len(cells) \in Nat
  OBVIOUS
<1>2. i \in 1..Len(cells) /\ k \in 1..i /\ i + 1 = 2 * j
  BY <1>1 DEF Starts
<1>3. cells[i] = Number(numbers[j])
  BY DEF Starts
<1>4. k = i \/ (k = i - 1 /\ cells[k] = Space)
  <2>1. CASE j = 1
    BY <2>1
  <2>2. CASE j # 1
    <3>1. j - 1 \in 1..Len(numbers) - 1 /\ k = 2 * (j - 1) /\ k = i - 1
      BY <1>1, <2>2
    <3>2. cells[2 * (j - 1)] = Space
      BY <3>1 DEF Starts
    <3> QED
      BY <3>1, <3>2
  <2> QED
    BY <2>1, <2>2
<1>5. Reading(cells, j - 1) = Behind(cells, k) /\ Reading(cells, j) = Behind(cells, i + 1)
  BY <1>1, <1>2 DEF Reading
<1> HIDE DEF i, k
<1> QED
  BY <1>1, <1>2, <1>3, <1>4, <1>5, NumberRead

(* A line has one header, which is not 0, and at least one byte.  Its      *)
(* numbers may be of any size: those the adapter writes, bytes and 11-bit  *)
(* CAN identifiers, fit the 32 bits they are read into.                    *)
Lines(is_CAN) ==
    {l \in [header : Seq(Nat), data : Seq(0..255)] :
       /\ Len(l.header) = IF is_CAN THEN 1 ELSE 3
       /\ HeaderValue(l.header) # 0 /\ l.data # <<>>}

(* What a line is made of, and its numbers, header first.                  *)
LEMMA LineIs ==
  ASSUME NEW is_CAN \in BOOLEAN, NEW l \in Lines(is_CAN)
  PROVE  /\ l.header \in Seq(Nat) /\ l.data \in Seq(Nat) /\ l.data \in Seq(0..255)
         /\ Len(l.header) \in Nat /\ Len(l.header) > 0 /\ Len(l.data) \in Nat /\ Len(l.data) > 0
         /\ HeaderValue(l.header) \in Nat
         /\ l.header \o l.data \in Seq(Nat)
         /\ Len(l.header \o l.data) = Len(l.header) + Len(l.data)
         /\ \A i \in 1..Len(l.header) : (l.header \o l.data)[i] = l.header[i]
         /\ \A i \in 1..Len(l.data) : (l.header \o l.data)[Len(l.header) + i] = l.data[i]
<1>1. l.header \in Seq(Nat) /\ l.data \in Seq(0..255) /\ l.data # <<>>
      /\ Len(l.header) = IF is_CAN THEN 1 ELSE 3
  BY DEF Lines
<1>2. l.data \in Seq(Nat)
  <2>1. 0..255 \subseteq Nat
    OBVIOUS
  <2>2. Seq(0..255) \subseteq Seq(Nat)
    BY <2>1, SeqMonotonic
  <2> QED
    BY <1>1, <2>2
<1> DEFINE h == l.header
           d == l.data
<1> HIDE DEF h, d
<1>3. HeaderValue(h) \in Nat
  <2>1. h \in Seq(Nat) /\ (Len(h) = 1 \/ Len(h) = 3)
    BY <1>1 DEF h
  <2>2. CASE Len(h) = 1
    <3>1. h[1] \in Nat
      BY <2>1, <2>2
    <3> QED
      BY <2>2, <3>1 DEF HeaderValue
  <2>3. CASE Len(h) = 3
    <3>0. \A i \in 1..Len(h) : h[i] \in Nat
      BY <2>1
    <3>1. h[1] \in Nat /\ h[2] \in Nat /\ h[3] \in Nat /\ Len(h) # 1
      BY <2>3, <3>0
    <3>2. PICK a \in Nat, b \in Nat, c \in Nat : h[1] = a /\ h[2] = b /\ h[3] = c
      BY <3>1, Zenon
    <3>3. HeaderValue(h) = 65536 * a + 256 * b + c
      BY <3>1, <3>2 DEF HeaderValue
    <3> QED
      BY <3>3
  <2> QED
    BY <2>1, <2>2, <2>3
<1>4. /\ h \o d \in Seq(Nat) /\ Len(h \o d) = Len(h) + Len(d)
      /\ \A i \in 1..Len(h) + Len(d) : (h \o d)[i] = IF i <= Len(h) THEN h[i] ELSE d[i - Len(h)]
  <2>1. h \in Seq(Nat) /\ d \in Seq(Nat)
    BY <1>1, <1>2 DEF h, d
  <2> QED
    BY <2>1, ConcatProperties
<1>5. Len(h) \in Nat /\ Len(h) > 0 /\ Len(d) \in Nat /\ Len(d) > 0
  BY <1>1 DEF h, d
<1>6. \A i \in 1..Len(h) : (h \o d)[i] = h[i]
  BY <1>4, <1>5
<1>7. \A i \in 1..Len(d) : (h \o d)[Len(h) + i] = d[i]
  BY <1>4, <1>5
<1> QED
  BY <1>1, <1>2, <1>3, <1>4, <1>5, <1>6, <1>7 DEF h, d

(* get_header reads the header of a line.                                  *)
LEMMA HeaderRead ==
  ASSUME NEW is_CAN \in BOOLEAN, NEW l \in Lines(is_CAN), NEW cells \in Seq(Cells),
         Starts(cells, l.header \o l.data)
  PROVE  get_header(Reading(cells, 0), is_CAN) =
           [header |-> HeaderValue(l.header), stream |-> Reading(cells, Len(l.header)),
            over |-> FALSE]
<1> DEFINE numbers == l.header \o l.data
           r(h, j) == [header |-> h, stream |-> Reading(cells, j), over |-> FALSE]
<1>1. l.header \in Seq(Nat) /\ l.data \in Seq(Nat) /\ HeaderValue(l.header) \in Nat
  BY LineIs
<1>2. /\ numbers \in Seq(Nat) /\ Len(numbers) = Len(l.header) + Len(l.data)
      /\ \A i \in 1..Len(l.header) : numbers[i] = l.header[i]
      /\ Len(l.header) \in Nat /\ Len(l.data) \in Nat
  BY LineIs, ZenonT(60)
<1> HIDE DEF numbers
<1>3. ASSUME NEW h \in Nat, NEW j \in 1..Len(l.header)
      PROVE  header_turn(r(h, j - 1)) = r(h * 256 + l.header[j], j)
  <2> DEFINE s == Reading(cells, j - 1)
  <2>1. j \in 1..Len(numbers)
    <3> DEFINE a == Len(l.header)
               b == Len(l.data)
    <3>1. a \in Nat /\ b \in Nat /\ Len(numbers) = a + b /\ j \in 1..a
      BY <1>2
    <3> HIDE DEF a, b
    <3> QED
      BY <3>1
  <2>2. /\ peek(s) # CR /\ Peeked(s) = s /\ ~s.fail
        /\ Extracted(s) = [temp |-> l.header[j], stream |-> Reading(cells, j)]
    <3>1. Starts(cells, numbers) /\ numbers[j] = l.header[j]
      BY <1>2 DEF numbers
    <3> QED
      BY <1>2, <2>1, <3>1, NextNumber
  <2>3. r(h, j - 1).over = FALSE /\ r(h, j - 1).stream = s /\ r(h, j - 1).header = h
    OBVIOUS
  <2> DEFINE q == r(h, j - 1)
             e == Extracted(s)
  <2>5. ~(q.over \/ q.stream.fail) /\ peek(q.stream) # CR /\ Peeked(q.stream) = s
    BY <2>2, <2>3
  <2>6. e.temp = l.header[j] /\ e.stream = Reading(cells, j)
    BY <2>2
  <2> HIDE DEF r, s, q, e
  <2>4. header_turn(q) =
          [header |-> h * 256 + l.header[j], stream |-> Reading(cells, j), over |-> FALSE]
    BY <2>3, <2>5, <2>6 DEF header_turn, q, e
  <2> QED
    BY <2>4 DEF r, q
<1>4. CASE is_CAN
  <2>1. Len(l.header) = 1
    BY <1>4 DEF Lines
  <2>2. header_turn(r(0, 1 - 1)) = r(0 * 256 + l.header[1], 1)
    BY <1>3, <2>1
  <2>3. 0 * 256 + l.header[1] = HeaderValue(l.header)
    BY <1>1, <2>1 DEF HeaderValue
  <2> HIDE DEF r
  <2>4. header_turn(r(0, 0)) = r(HeaderValue(l.header), 1)
    BY <2>2, <2>3
  <2> QED
    BY <1>4, <2>1, <2>4 DEF get_header, r
<1>5. CASE ~is_CAN
  <2>1. Len(l.header) = 3
    BY <1>5 DEF Lines
  <2>2. PICK a \in Nat, b \in Nat, c \in Nat :
          l.header[1] = a /\ l.header[2] = b /\ l.header[3] = c
    <3>0. \A i \in 1..Len(l.header) : l.header[i] \in Nat
      BY <1>1
    <3>1. l.header[1] \in Nat /\ l.header[2] \in Nat /\ l.header[3] \in Nat
      BY <2>1, <3>0
    <3> QED
      BY <3>1, Zenon
  <2>3. HeaderValue(l.header) = 65536 * a + 256 * b + c
    BY <2>1, <2>2 DEF HeaderValue
  <2> HIDE DEF r
  <2>4. 1 \in 1..Len(l.header) /\ 2 \in 1..Len(l.header) /\ 3 \in 1..Len(l.header)
    BY <2>1
  <2>7. header_turn(r(0, 0)) = r(a, 1)
    <3>1. header_turn(r(0, 1 - 1)) = r(0 * 256 + l.header[1], 1)
      BY <1>3, <2>4
    <3>2. 0 * 256 + l.header[1] = a /\ 1 - 1 = 0
      BY <2>2
    <3> QED
      BY <3>1, <3>2
  <2>8. header_turn(r(a, 1)) = r(a * 256 + b, 2)
    <3>1. header_turn(r(a, 2 - 1)) = r(a * 256 + l.header[2], 2)
      BY <1>3, <2>4
    <3> QED
      BY <2>2, <3>1
  <2>9. header_turn(r(a * 256 + b, 2)) = r((a * 256 + b) * 256 + c, 3)
    <3>1. a * 256 + b \in Nat
      OBVIOUS
    <3>2. header_turn(r(a * 256 + b, 3 - 1)) = r((a * 256 + b) * 256 + l.header[3], 3)
      BY <1>3, <2>4, <3>1
    <3> QED
      BY <2>2, <3>2
  <2>10. (a * 256 + b) * 256 + c = HeaderValue(l.header)
    BY <2>3
  <2>11. header_turn(header_turn(header_turn(r(0, 0)))) = r(HeaderValue(l.header), 3)
    BY <2>7, <2>8, <2>9, <2>10
  <2> QED
    BY <1>5, <2>1, <2>11 DEF get_header, r
<1> QED
  BY <1>4, <1>5

-----------------------------------------------------------------------------
(* The bytes of a line.                                                    *)

(* What the loop computes is what satisfies its equation.                  *)
IsDataLoop(g, N, s, header, obd_data) ==
    /\ g = [n \in 0..N |-> g[n]] /\ N = Turns(s)
    /\ g[0] = [obd_data |-> obd_data, stream |-> s]
    /\ \A n \in 1..N : g[n] = data_turn(g[n - 1], header)

(* data_loop returns the last value of the loop.                           *)
LEMMA DataLoopIs ==
  ASSUME NEW s, NEW header, NEW obd_data, NEW N \in Nat, NEW g,
         IsDataLoop(g, N, s, header, obd_data)
  PROVE  data_loop(s, header, obd_data) = g[N]
<1>0. /\ g = [n \in 0..N |-> g[n]] /\ N = Turns(s)
      /\ g[0] = [obd_data |-> obd_data, stream |-> s]
      /\ \A n \in 1..N : g[n] = data_turn(g[n - 1], header)
  BY DEF IsDataLoop
<1> DEFINE Step(f) == [n \in 0..N |-> IF n = 0 THEN [obd_data |-> obd_data, stream |-> s]
                                      ELSE data_turn(f[n - 1], header)]
           turn == CHOOSE f : f = Step(f)
<1>1. g = Step(g)
  <2>1. \A n \in 0..N : g[n] = IF n = 0 THEN [obd_data |-> obd_data, stream |-> s]
                               ELSE data_turn(g[n - 1], header)
    <3>1. \A n \in 0..N : n # 0 => n \in 1..N
      OBVIOUS
    <3> QED
      BY <1>0, <3>1, Zenon
  <2> DEFINE e(n) == IF n = 0 THEN [obd_data |-> obd_data, stream |-> s]
                     ELSE data_turn(g[n - 1], header)
  <2>2. \A n \in 0..N : g[n] = e(n)
    BY <2>1
  <2> HIDE DEF e
  <2>3. g = [n \in 0..N |-> e(n)]
    BY <1>0, <2>2
  <2> QED
    BY <2>3 DEF e
<1>2. turn = Step(turn)
  BY <1>1
<1>3. data_loop(s, header, obd_data) = turn[N]
  BY <1>0 DEF data_loop
<1> HIDE DEF turn
<1>4. turn[0] = g[0]
  BY <1>0, <1>2
<1>5. ASSUME NEW n \in 1..N PROVE turn[n] = data_turn(turn[n - 1], header)
  <2>1. n \in 0..N /\ n # 0
    OBVIOUS
  <2> QED
    BY <1>2, <2>1
<1>6. turn[N] = g[N]
  <2>1. \A n \in 1..N : turn[n - 1] = g[n - 1] => turn[n] = g[n]
    BY <1>0, <1>5
  <2> QED
    BY <1>4, <2>1, SameLoop
<1> QED
  BY <1>3, <1>6

(* What was read of a module before, followed by these bytes.              *)
Added(obd_data, header, bytes) ==
    IF bytes = <<>> THEN obd_data
    ELSE [h \in DOMAIN obd_data \cup {header} |->
            (IF h \in DOMAIN obd_data THEN obd_data[h] ELSE <<>>)
            \o (IF h = header THEN bytes ELSE <<>>)]

IsData(obd_data) ==
    /\ obd_data = [h \in DOMAIN obd_data |-> obd_data[h]]
    /\ \A h \in DOMAIN obd_data : obd_data[h] \in Seq(Nat)

(* push_back adds a byte to those a header has.                            *)
LEMMA Pushed ==
  ASSUME NEW obd_data, IsData(obd_data), NEW header, NEW bytes \in Seq(Nat), NEW b \in Nat
  PROVE  push_back(Added(obd_data, header, bytes), header, b)
           = Added(obd_data, header, Append(bytes, b))
<1> DEFINE old(h) == IF h \in DOMAIN obd_data THEN obd_data[h] ELSE <<>>
           more(h) == IF h = header THEN bytes ELSE <<>>
           last(h) == IF h = header THEN <<b>> ELSE <<>>
           longer(h) == IF h = header THEN Append(bytes, b) ELSE <<>>
           D == DOMAIN obd_data \cup {header}
<1>1. Append(bytes, b) # <<>>
  OBVIOUS
<1>2. Added(obd_data, header, Append(bytes, b)) = [h \in D |-> old(h) \o longer(h)]
  BY <1>1 DEF Added
<1>3. CASE bytes = <<>>
  <2>1. Append(bytes, b) = <<b>>
    BY <1>3
  <2>2. push_back(obd_data, header, b) = [h \in D |-> old(h) \o last(h)]
    BY DEF push_back
  <2>3. Added(obd_data, header, bytes) = obd_data
    BY <1>3 DEF Added
  <2>4. \A h \in D : longer(h) = last(h)
    BY <2>1
  <2> HIDE DEF old, last, longer, D
  <2> QED
    BY <1>2, <2>2, <2>3, <2>4
<1>4. CASE bytes # <<>>
  <2> DEFINE A == [h \in D |-> old(h) \o more(h)]
  <2>1. Added(obd_data, header, bytes) = A
    BY <1>4 DEF Added
  <2>2. DOMAIN A = D /\ D \cup {header} = D
    OBVIOUS
  <2>3. push_back(A, header, b) = [h \in D |-> A[h] \o last(h)]
    <3>1. push_back(A, header, b) = [h \in D |-> (IF h \in D THEN A[h] ELSE <<>>) \o last(h)]
      <4> HIDE DEF A
      <4> QED
        BY <2>2 DEF push_back
    <3> HIDE DEF A, D, last
    <3> QED
      BY <3>1
  <2>4. ASSUME NEW h \in D PROVE A[h] \o last(h) = old(h) \o longer(h)
    <3>1. old(h) \in Seq(Nat)
      BY DEF IsData
    <3>5. <<b>> \in Seq(Nat) /\ Append(bytes, b) = bytes \o <<b>>
      BY AppendIsConcat
    <3>2. A[h] = old(h) \o more(h)
      OBVIOUS
    <3> HIDE DEF old, A
    <3>3. CASE h = header
      <4>1. (old(h) \o bytes) \o <<b>> = old(h) \o (bytes \o <<b>>)
        BY <3>1, <3>5, ConcatAssociative
      <4> QED
        BY <3>2, <3>3, <3>5, <4>1
    <3>4. CASE h # header
      <4>1. (old(h) \o <<>>) \o <<>> = old(h) \o <<>>
        BY <3>1, ConcatEmptySeq
      <4> QED
        BY <3>2, <3>4, <4>1
    <3> QED
      BY <3>3, <3>4
  <2> HIDE DEF A, old, last, longer, D
  <2>5. [h \in D |-> A[h] \o last(h)] = [h \in D |-> old(h) \o longer(h)]
    BY <2>4
  <2> QED
    BY <1>2, <2>1, <2>3, <2>5
<1> QED
  BY <1>3, <1>4

(* The loop when n bytes of a line were read.                              *)
DataRead(cells, l, obd_data, n) ==
    [obd_data |-> Added(obd_data, HeaderValue(l.header), SubSeq(l.data, 1, n)),
     stream |-> Reading(cells, Len(l.header) + n)]

(* A turn reads the next.                                                  *)
LEMMA ByteRead ==
  ASSUME NEW is_CAN \in BOOLEAN, NEW l \in Lines(is_CAN), NEW cells \in Seq(Cells),
         Starts(cells, l.header \o l.data), NEW obd_data, IsData(obd_data),
         NEW n \in 1..Len(l.data)
  PROVE  data_turn(DataRead(cells, l, obd_data, n - 1), HeaderValue(l.header))
           = DataRead(cells, l, obd_data, n)
<1> DEFINE header == HeaderValue(l.header)
           numbers == l.header \o l.data
           a == Len(l.header)
           j == a + n
           bytes == SubSeq(l.data, 1, n - 1)
           s == Reading(cells, j - 1)
           b == l.data[n]
           r == [obd_data |-> Added(obd_data, header, bytes), stream |-> s]
<1>1. /\ n \in Nat /\ a \in Nat /\ n > 0 /\ n - 1 \in Nat /\ n <= Len(l.data)
      /\ Len(l.data) \in Nat /\ l.data \in Seq(Nat) /\ l.data \in Seq(0..255)
      /\ numbers \in Seq(Nat) /\ Len(numbers) = a + Len(l.data) /\ numbers[j] = b
  <2>1. /\ a \in Nat /\ Len(l.data) \in Nat /\ l.data \in Seq(Nat) /\ l.data \in Seq(0..255)
        /\ numbers \in Seq(Nat) /\ Len(numbers) = a + Len(l.data)
    BY LineIs, ZenonT(60)
  <2>4. \A i \in 1..Len(l.data) : numbers[a + i] = l.data[i]
    BY LineIs
  <2>2. n \in Nat /\ n > 0 /\ n - 1 \in Nat /\ n <= Len(l.data)
    BY <2>1
  <2>3. numbers[j] = b
    BY <2>4
  <2> QED
    BY <2>1, <2>2, <2>3
<1>2. b \in Nat /\ b % 256 = b
  <2>1. b \in 0..255
    BY <1>1, ElementOfSeq
  <2> HIDE DEF b
  <2> QED
    BY <2>1
<1>3. bytes \in Seq(Nat) /\ Append(bytes, b) = SubSeq(l.data, 1, n)
  BY <1>1
<1>4. DataRead(cells, l, obd_data, n - 1) = r
  <2>1. a + (n - 1) = j - 1
    BY <1>1
  <2> QED
    BY <2>1 DEF DataRead
<1>5. /\ peek(s) # CR /\ Peeked(s) = s /\ ~s.fail
      /\ Extracted(s) = [temp |-> b, stream |-> Reading(cells, j)]
  <2>1. j \in 1..Len(numbers)
    <3> DEFINE d == Len(l.data)
    <3>1. d \in Nat /\ Len(numbers) = a + d /\ n <= d
      BY <1>1
    <3> HIDE DEF d, a, numbers
    <3> QED
      BY <1>1, <3>1
  <2> HIDE DEF j, numbers
  <2> QED
    BY <1>1, <2>1, NextNumber DEF numbers
<1>6. r.stream = s /\ r.obd_data = Added(obd_data, header, bytes)
  OBVIOUS
<1> DEFINE e == Extracted(s)
<1>7. e.temp = b /\ e.stream = Reading(cells, j)
  BY <1>5
<1> HIDE DEF r, e, s
<1>8. data_turn(r, header) = [obd_data |-> push_back(r.obd_data, header, e.temp % 256),
                              stream |-> e.stream]
  BY <1>5, <1>6 DEF data_turn, e
<1>9. push_back(Added(obd_data, header, bytes), header, b)
        = Added(obd_data, header, SubSeq(l.data, 1, n))
  <2> HIDE DEF bytes, header, b
  <2>1. push_back(Added(obd_data, header, bytes), header, b)
          = Added(obd_data, header, Append(bytes, b))
    BY <1>2, <1>3, Pushed, ZenonT(60)
  <2> QED
    BY <1>3, <2>1
<1> HIDE DEF b, bytes
<1> QED
  BY <1>2, <1>4, <1>6, <1>7, <1>8, <1>9 DEF DataRead

(* How many turns are made for the rest of a line.                         *)
LEMMA TurnsLeft ==
  ASSUME NEW cells \in Seq(Cells), NEW j \in Nat, j > 0, 2 * j <= Len(cells)
  PROVE  Turns(Reading(cells, j)) = Len(cells) - 2 * j + 2
<1> DEFINE rest == SubSeq(cells, 2 * j, Len(cells))
<1>1. 2 * j \in 1..Len(cells) + 1 /\ Len(cells) \in Nat
  OBVIOUS
<1>2. Len(rest) = Len(cells) - 2 * j + 1
  BY <1>1, Suffix
<1>3. Reading(cells, j) = Stream(rest)
  BY DEF Reading, Behind
<1>4. Stream(rest).rest = rest
  BY DEF Stream
<1> HIDE DEF rest
<1> QED
  BY <1>1, <1>2, <1>3, <1>4 DEF Turns

(* At the beginning no byte was read.                                      *)
LEMMA NoByteRead ==
  ASSUME NEW is_CAN \in BOOLEAN, NEW l \in Lines(is_CAN), NEW cells, NEW obd_data
  PROVE  DataRead(cells, l, obd_data, 0) =
           [obd_data |-> obd_data, stream |-> Reading(cells, Len(l.header))]
<1>1. SubSeq(l.data, 1, 0) = <<>>
  BY SubSeqEmpty
<1>2. Len(l.header) + 0 = Len(l.header)
  BY LineIs
<1> QED
  BY <1>1, <1>2 DEF DataRead, Added

(* A line leaves turns for the end of its loop.                            *)
LEMMA Room ==
  ASSUME NEW a \in Nat, NEW d \in Nat, NEW M \in Nat, a > 0, d > 0, 2 * (a + d) <= M
  PROVE  /\ M - 2 * a + 2 \in Nat /\ M - 2 * a + 2 >= d /\ 2 * a <= M
         /\ 2 * (a + d) \in 1..M + 1 /\ 2 * (a + d) # M + 1 /\ a + d # 0
  OBVIOUS

(* The cell behind j numbers.                                              *)
Follows(cells, j, c) == 2 * j <= Len(cells) /\ cells[2 * j] = c

(* A line that ends with a carriage return is read up to it.               *)
LEMMA LineRead ==
  ASSUME NEW is_CAN \in BOOLEAN, NEW l \in Lines(is_CAN), NEW cells \in Seq(Cells),
         Starts(cells, l.header \o l.data), NEW obd_data, IsData(obd_data),
         Follows(cells, Len(l.header) + Len(l.data), CR)
  PROVE  data_loop(Reading(cells, Len(l.header)), HeaderValue(l.header), obd_data)
           = DataRead(cells, l, obd_data, Len(l.data))
<1>a. PICK a \in Nat : a = Len(l.header)
  BY LineIs
<1>d. PICK d \in Nat : d = Len(l.data)
  BY LineIs
<1> DEFINE header == HeaderValue(l.header)
           s == Reading(cells, a)
           at(n) == IF n <= d THEN n ELSE d
           r(n) == DataRead(cells, l, obd_data, n)
<1>0. PICK M \in Nat : M = Len(cells)
  OBVIOUS
<1>1. a > 0 /\ d > 0 /\ 2 * (a + d) <= M
  <2>1. Len(l.header) > 0 /\ Len(l.data) > 0
    BY LineIs
  <2>2. 2 * (a + d) <= M
    BY <1>0, <1>a, <1>d DEF Follows
  <2> QED
    BY <1>a, <1>d, <2>1, <2>2
<1>2. PICK N \in Nat : N = M - 2 * a + 2 /\ N >= d /\ 2 * a <= M
  BY <1>1, Room
<1>3. N = Turns(s)
  BY <1>0, <1>1, <1>2, TurnsLeft
<1> DEFINE g == [n \in 0..N |-> r(at(n))]
<1>4. g[0] = [obd_data |-> obd_data, stream |-> s]
  <2>1. at(0) = 0 /\ 0 \in 0..N
    BY <1>1, <1>2
  <2>2. r(0) = [obd_data |-> obd_data, stream |-> s]
    BY <1>a, NoByteRead
  <2> HIDE DEF r, at, s
  <2> QED
    BY <2>1, <2>2
<1>5. data_turn(r(d), header) = r(d)
  <2> DEFINE i == 2 * (a + d)
             rest == SubSeq(cells, i, Len(cells))
  <2>0. i \in 1..Len(cells) + 1 /\ i # Len(cells) + 1 /\ i <= Len(cells) /\ a + d # 0
    BY <1>0, <1>1, Room
  <2>1. rest \in Seq(Cells) /\ rest # <<>> /\ Head(rest) = CR
    <3>1. cells[i] = CR
      BY <1>a, <1>d DEF Follows
    <3> HIDE DEF i
    <3> QED
      BY <2>0, <3>1, Suffix
  <2>2. r(d).stream = Stream(rest)
    <3>1. r(d).stream = Reading(cells, a + d)
      BY <1>a DEF DataRead
    <3>2. Reading(cells, a + d) = Stream(rest)
      BY <2>0 DEF Reading, Behind
    <3> HIDE DEF r, rest
    <3> QED
      BY <3>1, <3>2
  <2>3. peek(r(d).stream) = CR
    <3> HIDE DEF rest, r
    <3> QED
      BY <2>1, <2>2, PeekedIs
  <2> HIDE DEF r
  <2> QED
    BY <2>3 DEF data_turn
<1>6. ASSUME NEW n \in 1..N PROVE g[n] = data_turn(g[n - 1], header)
  <2>1. n \in 0..N /\ n - 1 \in 0..N /\ n \in Nat
    BY <1>2
  <2>2. g[n] = r(at(n)) /\ g[n - 1] = r(at(n - 1))
    <3> HIDE DEF r, at
    <3> QED
      BY <2>1
  <2>3. CASE n <= d
    <3>1. n \in 1..d /\ at(n) = n /\ at(n - 1) = n - 1
      BY <1>1, <2>1, <2>3
    <3>2. data_turn(r(n - 1), header) = r(n)
      BY <1>d, <3>1, ByteRead
    <3> HIDE DEF r, at, g, header
    <3> QED
      BY <2>2, <3>1, <3>2
  <2>4. CASE ~(n <= d)
    <3>1. at(n) = d /\ at(n - 1) = d
      BY <1>1, <2>1, <2>4
    <3> HIDE DEF r, at, g, header
    <3> QED
      BY <1>5, <2>2, <3>1
  <2> QED
    BY <2>3, <2>4
<1>7. data_loop(s, header, obd_data) = g[N]
  <2>1. g = [n \in 0..N |-> g[n]]
    <3> HIDE DEF r, at
    <3> QED
      OBVIOUS
  <2> HIDE DEF g, s, header
  <2>2. IsDataLoop(g, N, s, header, obd_data)
    BY <1>3, <1>4, <1>6, <2>1 DEF IsDataLoop
  <2> QED
    BY <2>2, DataLoopIs
<1>8. g[N] = r(d)
  <2>1. N \in 0..N /\ at(N) = d
    BY <1>1, <1>2
  <2> HIDE DEF r, at
  <2> QED
    BY <2>1
<1> QED
  BY <1>7, <1>8, <1>a, <1>d

(* What is left when the end was passed.                                   *)
PastEnd == [rest |-> <<>>, eof |-> TRUE, fail |-> TRUE]

(* At the end, which was seen, 0 is read.                                  *)
LEMMA EndRead ==
  ASSUME NEW obd_data, IsData(obd_data), NEW header, NEW bytes \in Seq(Nat)
  PROVE  data_turn([obd_data |-> Added(obd_data, header, bytes), stream |-> AtEnd], header)
           = [obd_data |-> Added(obd_data, header, Append(bytes, 0)), stream |-> PastEnd]
<1> DEFINE A == Added(obd_data, header, bytes)
           r == [obd_data |-> A, stream |-> AtEnd]
           e == Extracted(Peeked(AtEnd))
<1>1. AtEnd.rest = <<>> /\ AtEnd.eof = TRUE /\ AtEnd.fail = FALSE
  BY DEF AtEnd
<1>2. ~Good(AtEnd) /\ peek(AtEnd) = EndOfText
  BY <1>1 DEF Good, peek
<1>3. Peeked(AtEnd) = PastEnd
  <2>1. (AtEnd.eof \/ (Good(AtEnd) /\ AtEnd.rest = <<>>)) = TRUE /\ (~Good(AtEnd)) = TRUE
    BY <1>1, <1>2
  <2> QED
    BY <1>1, <2>1 DEF Peeked, PastEnd
<1>4. e = [temp |-> 0, stream |-> PastEnd]
  <2>1. PastEnd.eof = TRUE /\ PastEnd.fail = TRUE
    BY DEF PastEnd
  <2>2. ~Good(PastEnd) /\ (PastEnd.eof \/ <<>> = <<>>) = TRUE
    BY <2>1 DEF Good
  <2>3. Extracted(PastEnd) = [temp |-> 0, stream |-> [rest |-> <<>>, eof |-> TRUE, fail |-> TRUE]]
    BY <2>2 DEF Extracted
  <2> QED
    BY <1>3, <2>3 DEF PastEnd
<1>5. e.temp % 256 = 0 /\ e.stream = PastEnd
  <2> HIDE DEF e
  <2> QED
    BY <1>4
<1>6. r.stream = AtEnd /\ r.obd_data = A
  OBVIOUS
<1>7. ~(r.stream.fail \/ peek(r.stream) = CR)
  <2> HIDE DEF r
  <2> QED
    BY <1>1, <1>2, <1>6, CellsDiffer
<1>8. push_back(A, header, 0) = Added(obd_data, header, Append(bytes, 0))
  BY Pushed
<1> HIDE DEF r, A
<1>9. data_turn(r, header) = [obd_data |-> push_back(r.obd_data, header, e.temp % 256),
                              stream |-> e.stream]
  <2>1. e = Extracted(Peeked(r.stream))
    BY <1>6
  <2> HIDE DEF e
  <2> QED
    BY <1>7, <2>1 DEF data_turn
<1> HIDE DEF e
<1> QED
  BY <1>5, <1>6, <1>8, <1>9 DEF r, A

(* Nothing is behind j numbers.                                            *)
CutOff(cells, j) == Len(cells) = 2 * j - 1

(* The byte behind the end of a line that was cut off is 0.                *)
LEMMA CutRead ==
  ASSUME NEW is_CAN \in BOOLEAN, NEW l \in Lines(is_CAN), NEW cells \in Seq(Cells),
         Starts(cells, l.header \o l.data), NEW obd_data, IsData(obd_data),
         CutOff(cells, Len(l.header) + Len(l.data))
  PROVE  data_loop(Reading(cells, Len(l.header)), HeaderValue(l.header), obd_data)
           = [obd_data |-> Added(obd_data, HeaderValue(l.header), Append(l.data, 0)),
              stream |-> PastEnd]
<1>a. PICK a \in Nat : a = Len(l.header)
  BY LineIs
<1>d. PICK d \in Nat : d = Len(l.data)
  BY LineIs
<1>0. PICK M \in Nat : M = Len(cells)
  OBVIOUS
<1> DEFINE header == HeaderValue(l.header)
           s == Reading(cells, a)
           r(n) == DataRead(cells, l, obd_data, n)
           last == [obd_data |-> Added(obd_data, header, Append(l.data, 0)), stream |-> PastEnd]
<1>1. a > 0 /\ d > 0 /\ M = 2 * (a + d) - 1
  <2>1. Len(l.header) > 0 /\ Len(l.data) > 0
    BY LineIs
  <2>2. M = 2 * (a + d) - 1
    BY <1>0, <1>a, <1>d DEF CutOff
  <2> QED
    BY <1>a, <1>d, <2>1, <2>2
<1>2. PICK N \in Nat : N = 2 * d + 1
  OBVIOUS
<1>3. N = Turns(s)
  <2>1. 2 * a <= M /\ M - 2 * a + 2 = 2 * d + 1
    BY <1>1
  <2> QED
    BY <1>0, <1>1, <1>2, <2>1, TurnsLeft
<1> DEFINE g == [n \in 0..N |-> IF n <= d THEN r(n) ELSE last]
<1>4. g[0] = [obd_data |-> obd_data, stream |-> s]
  <2>1. 0 <= d /\ 0 \in 0..N
    OBVIOUS
  <2>2. r(0) = [obd_data |-> obd_data, stream |-> s]
    BY <1>a, NoByteRead
  <2> HIDE DEF r, last, s
  <2> QED
    BY <2>1, <2>2
<1>5. data_turn(r(d), header) = last
  <2>1. Reading(cells, a + d) = AtEnd
    <3>1. a + d # 0 /\ ~(2 * (a + d) <= M)
      BY <1>1
    <3> QED
      BY <1>0, <3>1 DEF Reading, Behind
  <2>2. SubSeq(l.data, 1, d) = l.data /\ l.data \in Seq(Nat)
    <3>1. l.data \in Seq(Nat)
      BY LineIs
    <3> QED
      BY <1>d, <3>1
  <2>3. r(d) = [obd_data |-> Added(obd_data, header, l.data), stream |-> AtEnd]
    BY <1>a, <2>1, <2>2 DEF DataRead
  <2> HIDE DEF r, header
  <2> QED
    BY <2>2, <2>3, EndRead
<1>6. data_turn(last, header) = last
  <2>1. last.stream.fail = TRUE
    BY DEF PastEnd
  <2> HIDE DEF last
  <2> QED
    BY <2>1 DEF data_turn
<1>7. ASSUME NEW n \in 1..N PROVE g[n] = data_turn(g[n - 1], header)
  <2>1. n \in 0..N /\ n - 1 \in 0..N /\ n \in Nat
    BY <1>2
  <2>2. CASE n <= d
    <3>1. n \in 1..d /\ n - 1 <= d
      BY <2>1, <2>2
    <3>2. data_turn(r(n - 1), header) = r(n)
      BY <1>d, <3>1, ByteRead
    <3> HIDE DEF r, last, header
    <3>3. g[n] = r(n) /\ g[n - 1] = r(n - 1)
      BY <2>1, <2>2, <3>1
    <3> HIDE DEF g
    <3> QED
      BY <3>2, <3>3
  <2>3. CASE n = d + 1
    <3>1. ~(n <= d) /\ n - 1 <= d /\ n - 1 = d
      BY <2>3
    <3> HIDE DEF r, last, header
    <3>2. g[n] = last /\ g[n - 1] = r(d)
      BY <2>1, <3>1
    <3> HIDE DEF g
    <3> QED
      BY <1>5, <3>2
  <2>4. CASE n > d + 1
    <3>1. ~(n <= d) /\ ~(n - 1 <= d)
      BY <2>1, <2>4
    <3> HIDE DEF r, last, header
    <3>2. g[n] = last /\ g[n - 1] = last
      BY <2>1, <3>1
    <3> HIDE DEF g
    <3> QED
      BY <1>6, <3>2
  <2> QED
    BY <2>1, <2>2, <2>3, <2>4
<1>8. data_loop(s, header, obd_data) = g[N]
  <2>1. g = [n \in 0..N |-> g[n]]
    <3> HIDE DEF r, last
    <3> QED
      OBVIOUS
  <2> HIDE DEF g, s, header
  <2>2. IsDataLoop(g, N, s, header, obd_data)
    BY <1>3, <1>4, <1>7, <2>1 DEF IsDataLoop
  <2> QED
    BY <2>2, DataLoopIs
<1>9. g[N] = last
  <2>1. N \in 0..N /\ ~(N <= d)
    BY <1>1, <1>2
  <2> HIDE DEF r, last
  <2> QED
    BY <2>1
<1> QED
  BY <1>8, <1>9, <1>a, <1>d

-----------------------------------------------------------------------------
(* A text with a space behind every number.                                *)

Airy(cells) == \A i \in DOMAIN cells, v \in Nat :
                 cells[i] = Number(v) => i < Len(cells) /\ cells[i + 1] = Space

Spaces(cells) == {i \in 1..Len(cells) : cells[i] = Space}
Failed == [rest : Seq(Cells), eof : BOOLEAN, fail : {TRUE}]
Ahead(cells) == {Behind(cells, i) : i \in Spaces(cells)} \cup Failed

(* The loop of the bytes when these were read.                             *)
Loop(obd_data, header, bytes, s) ==
    [obd_data |-> Added(obd_data, header, bytes), stream |-> s]

(* Appending to the second of two sequences.                               *)
LEMMA AppendedBehind ==
  ASSUME NEW p \in Seq(Nat), NEW b \in Seq(Nat), NEW c \in Nat
  PROVE  Append(p \o b, c) = p \o Append(b, c) /\ Append(b, c) \in Seq(Nat)
<1>1. p \o b \in Seq(Nat) /\ <<c>> \in Seq(Nat) /\ Append(b, c) \in Seq(Nat)
  OBVIOUS
<1>2. Append(p \o b, c) = (p \o b) \o <<c>>
  BY <1>1, AppendIsConcat
<1>3. Append(b, c) = b \o <<c>>
  BY AppendIsConcat
<1>4. (p \o b) \o <<c>> = p \o (b \o <<c>>)
  BY <1>1, ConcatAssociative, SMTT(30)
<1> QED
  BY <1>1, <1>2, <1>3, <1>4

(* A sequence with a 0 behind it.                                          *)
LEMMA ByteBehind ==
  ASSUME NEW p \in Seq(Nat)
  PROVE  Append(p, 0) \in Seq(Nat) /\ Append(p, 0) # <<>>
<1>1. PICK n \in Nat : n = Len(p)
  OBVIOUS
<1>2. Append(p, 0) \in Seq(Nat) /\ Len(Append(p, 0)) = n + 1
  BY <1>1
<1>3. Len(Append(p, 0)) # 0
  BY <1>2
<1>4. Len(<<>>) = 0
  OBVIOUS
<1> QED
  BY <1>2, <1>3, <1>4, Zenon

(* What >> finds behind the blanks at a position.                          *)
LEMMA UnblankedFrom ==
  ASSUME NEW cells \in Seq(Cells), NEW i \in 1..Len(cells), NEW m \in i..Len(cells) + 1,
         \A j \in i..m - 1 : cells[j] \in Blanks,
         m <= Len(cells) => cells[m] \notin Blanks
  PROVE  Unblanked(SubSeq(cells, i, Len(cells))) = SubSeq(cells, m, Len(cells))
<1>0. PICK M \in Nat : M = Len(cells)
  OBVIOUS
<1>n. PICK n \in Nat : n = m - i
  OBVIOUS
<1> DEFINE rest == SubSeq(cells, i, Len(cells))
<1>1. /\ rest \in Seq(Cells) /\ Len(rest) = M - i + 1
      /\ \A j \in 1..Len(rest) : rest[j] = cells[i + j - 1]
      /\ \A j \in 1..Len(rest) + 1 :
           SubSeq(rest, j, Len(rest)) = SubSeq(cells, i + j - 1, Len(cells))
  <2>1. i \in 1..Len(cells) + 1
    OBVIOUS
  <2> QED
    BY <1>0, <2>1, Suffix
<1> HIDE DEF rest
<1>2. n \in 0..Len(rest) /\ i + (n + 1) - 1 = m
  BY <1>0, <1>n, <1>1
<1>3. ASSUME NEW j \in 1..n PROVE rest[j] \in Blanks
  <2>1. j \in 1..Len(rest) /\ i + j - 1 \in i..m - 1
    BY <1>0, <1>n, <1>1
  <2> QED
    BY <1>1, <2>1
<1>4. n < Len(rest) => rest[n + 1] \notin Blanks
  <2>1. ASSUME n < Len(rest) PROVE rest[n + 1] = cells[m] /\ m <= Len(cells)
    <3>1. n + 1 \in 1..Len(rest) /\ m <= M
      BY <1>0, <1>n, <1>1, <2>1
    <3>2. rest[n + 1] = cells[i + (n + 1) - 1]
      BY <1>1, <3>1
    <3> QED
      BY <1>0, <1>2, <3>1, <3>2
  <2> QED
    BY <2>1
<1>5. SubSeq(rest, n + 1, Len(rest)) = SubSeq(cells, m, Len(cells))
  <2>1. n + 1 \in 1..Len(rest) + 1
    BY <1>1, <1>2
  <2> QED
    BY <1>1, <1>2, <2>1
<1>6. Unblanked(rest) = SubSeq(rest, n + 1, Len(rest))
  BY <1>1, <1>2, <1>3, <1>4, UnblankedIs
<1> QED
  BY <1>5, <1>6 DEF rest

(* From a space on, the next number is read and the space behind it is     *)
(* reached, or there is none and the stream fails.                         *)
GoesOn(cells, i, header, obd_data, bytes) ==
    \E b \in Nat, s \in Ahead(cells) :
      /\ data_turn(Loop(obd_data, header, bytes, Behind(cells, i)), header)
           = Loop(obd_data, header, Append(bytes, b), s)
      /\ s \in Failed \/ \E j \in Spaces(cells) : j > i /\ s = Behind(cells, j)

(* Each turn goes on so.                                                   *)
LEMMA AiryTurn ==
  ASSUME NEW cells \in Seq(Cells), Airy(cells), NEW i \in Spaces(cells), NEW header,
         NEW obd_data, IsData(obd_data), NEW bytes \in Seq(Nat)
  PROVE  GoesOn(cells, i, header, obd_data, bytes)
<1>0. PICK M \in Nat : M = Len(cells)
  OBVIOUS
<1>i. i \in 1..M /\ i \in 1..Len(cells) /\ cells[i] = Space
  BY <1>0 DEF Spaces
<1> DEFINE rest == SubSeq(cells, i, Len(cells))
           A == Added(obd_data, header, bytes)
           r == [obd_data |-> A, stream |-> Stream(rest)]
           e == Extracted(Stream(rest))
           full == {j \in i..M : cells[j] \notin Blanks}
<1>1. Behind(cells, i) = Stream(rest)
  BY <1>0, <1>i DEF Behind
<1>2. rest \in Seq(Cells) /\ rest # <<>> /\ Head(rest) = Space
  <2>1. i \in 1..Len(cells) + 1 /\ i # Len(cells) + 1 /\ i <= Len(cells)
    BY <1>0, <1>i
  <2> QED
    BY <1>i, <2>1, Suffix
<1> HIDE DEF rest
<1>3. /\ peek(Stream(rest)) # CR /\ Peeked(Stream(rest)) = Stream(rest) /\ Good(Stream(rest))
      /\ ~Stream(rest).fail /\ Stream(rest).rest = rest
  BY <1>2, PeekedIs, CellsDiffer
<1>4. data_turn(r, header) = [obd_data |-> push_back(A, header, e.temp % 256),
                              stream |-> e.stream]
  <2>1. r.stream = Stream(rest) /\ r.obd_data = A
    OBVIOUS
  <2> HIDE DEF r, A
  <2> QED
    BY <1>3, <2>1 DEF data_turn
<1> HIDE DEF e
<1>5. ASSUME NEW b \in Nat PROVE push_back(A, header, b) = Added(obd_data, header, Append(bytes, b))
  BY Pushed
<1>6. SUFFICES /\ e.temp \in Nat /\ e.stream \in Ahead(cells)
               /\ \/ e.stream \in Failed
                  \/ \E j \in Spaces(cells) : j > i /\ e.stream = Behind(cells, j)
  <2>1. PICK b \in Nat : b = e.temp % 256
    BY <1>6
  <2>2. data_turn(Loop(obd_data, header, bytes, Behind(cells, i)), header)
          = Loop(obd_data, header, Append(bytes, b), e.stream)
    BY <1>1, <1>4, <1>5, <2>1 DEF Loop
  <2> QED
    BY <1>6, <2>2 DEF GoesOn
<1> HIDE DEF A, r
<1>7. CASE full = {}
  <2>1. Unblanked(rest) = <<>>
    <3>1. \A j \in i..M + 1 - 1 : cells[j] \in Blanks
      BY <1>7
    <3>2. M + 1 \in i..Len(cells) + 1 /\ ~(M + 1 <= Len(cells))
      BY <1>0, <1>i
    <3>3. Unblanked(rest) = SubSeq(cells, M + 1, Len(cells))
      BY <1>i, <3>1, <3>2, UnblankedFrom DEF rest
    <3>4. SubSeq(cells, M + 1, Len(cells)) = <<>>
      BY <1>0, SubSeqEmpty
    <3> QED
      BY <3>3, <3>4
  <2>2. e = [temp |-> 0, stream |-> PastEnd]
    <3>1. Stream(rest).eof = FALSE
      BY DEF Stream
    <3>2. (Stream(rest).eof \/ <<>> = <<>>) = TRUE
      OBVIOUS
    <3> QED
      BY <1>3, <2>1, <3>2 DEF Extracted, e, PastEnd
  <2>3. PastEnd \in Failed
    <3>1. <<>> \in Seq(Cells)
      OBVIOUS
    <3> QED
      BY <3>1 DEF PastEnd, Failed
  <2> HIDE DEF e
  <2> QED
    BY <2>2, <2>3 DEF Ahead
<1>8. CASE full # {}
  <2>1. PICK m \in full : \A j \in full : m <= j
    <3>1. full \in SUBSET Nat
      BY <1>i
    <3> HIDE DEF full
    <3> QED
      BY <1>8, <3>1, LeastElement
  <2>2. m \in i..M /\ cells[m] \notin Blanks /\ m > i /\ m \in 1..M
    BY <1>i, <2>1 DEF Blanks
  <2> DEFINE tail == SubSeq(cells, m, Len(cells))
             left == SubSeq(cells, m + 1, Len(cells))
  <2>3. Unblanked(rest) = tail
    <3>1. \A j \in i..m - 1 : cells[j] \in Blanks
      BY <2>1, <2>2
    <3>2. m \in i..Len(cells) + 1
      BY <1>0, <1>i, <2>2
    <3> QED
      BY <1>i, <2>2, <3>1, <3>2, UnblankedFrom DEF rest
  <2>4. tail \in Seq(Cells) /\ tail # <<>> /\ Head(tail) = cells[m] /\ Tail(tail) = left
    <3>1. m \in 1..Len(cells) + 1 /\ m # Len(cells) + 1 /\ m <= Len(cells)
      BY <1>0, <2>2
    <3> QED
      BY <3>1, Suffix
  <2>5. cells[m] \in Cells
    BY <1>0, <2>2
  <2> HIDE DEF tail
  <2>6. CASE \E v \in Nat : cells[m] = Number(v)
    <3>1. PICK v \in Nat : cells[m] = Number(v)
      BY <2>6
    <3>2. m + 1 \in 1..M /\ cells[m + 1] = Space
      <4>1. m \in DOMAIN cells
        BY <1>0, <2>2
      <4>2. m < Len(cells) /\ cells[m + 1] = Space
        BY <3>1, <4>1 DEF Airy
      <4> QED
        BY <1>0, <2>2, <4>2
    <3>3. left # <<>>
      <4>1. m + 1 \in 1..Len(cells) + 1 /\ m + 1 # Len(cells) + 1
        BY <1>0, <3>2
      <4> QED
        BY <4>1, Suffix
    <3> HIDE DEF left
    <3>4. e = [temp |-> v, stream |-> Stream(left)]
      BY <1>3, <2>3, <2>4, <3>1, <3>3, ExtractedIs DEF e
    <3>5. Stream(left) = Behind(cells, m + 1)
      BY <1>0, <3>2 DEF Behind, left
    <3>6. m + 1 \in Spaces(cells) /\ m + 1 > i
      BY <1>0, <2>2, <3>2 DEF Spaces
    <3>7. e.temp = v /\ e.stream = Behind(cells, m + 1)
      BY <3>4, <3>5
    <3> QED
      BY <3>6, <3>7 DEF Ahead
  <2>7. CASE ~\E v \in Nat : cells[m] = Number(v)
    <3>1. Head(tail)[1] # "number"
      <4>1. cells[m] \in {Space, CR, Prompt, Letter}
        BY <2>5, <2>7 DEF Cells
      <4> QED
        BY <2>4, <4>1, CellsDiffer
    <3>2. PICK eof \in BOOLEAN : eof = (Stream(rest).eof \/ tail = <<>>)
      OBVIOUS
    <3>3. e = [temp |-> 0, stream |-> [rest |-> tail, eof |-> eof, fail |-> TRUE]]
      BY <1>3, <2>3, <3>1, <3>2 DEF Extracted, e
    <3>4. e.temp = 0 /\ e.stream = [rest |-> tail, eof |-> eof, fail |-> TRUE]
      BY <3>3
    <3>5. e.stream \in Failed
      BY <2>4, <3>4 DEF Failed
    <3> QED
      BY <3>4, <3>5 DEF Ahead
  <2> QED
    BY <2>6, <2>7
<1> QED
  BY <1>7, <1>8

(* The bytes of the first line are read, and what runs into it.            *)
RunsOn(cells, l, obd_data) ==
    \E b \in Seq(Nat), s \in Failed :
      data_loop(Reading(cells, Len(l.header)), HeaderValue(l.header), obd_data)
        = [obd_data |-> Added(obd_data, HeaderValue(l.header), l.data \o b), stream |-> s]

(* A line that ends with a space is read past its end.                     *)
LEMMA SpacedRead ==
  ASSUME NEW is_CAN \in BOOLEAN, NEW l \in Lines(is_CAN), NEW cells \in Seq(Cells),
         Starts(cells, l.header \o l.data), NEW obd_data, IsData(obd_data),
         Follows(cells, Len(l.header) + Len(l.data), Space), Airy(cells)
  PROVE  RunsOn(cells, l, obd_data)
<1>a. PICK a \in Nat : a = Len(l.header)
  BY LineIs
<1>d. PICK d \in Nat : d = Len(l.data)
  BY LineIs
<1>0. PICK M \in Nat : M = Len(cells)
  OBVIOUS
<1>h. PICK header \in Nat : header = HeaderValue(l.header)
  BY LineIs
<1> DEFINE begin == Reading(cells, a)
           state(b, s) == Loop(obd_data, header, b, s)
           X == {state(b, s) : b \in Seq(Nat), s \in Ahead(cells)}
           r(n) == DataRead(cells, l, obd_data, n)
<1>1. a > 0 /\ d > 0 /\ 2 * (a + d) <= M /\ 2 * (a + d) \in Spaces(cells)
  <2>1. Len(l.header) > 0 /\ Len(l.data) > 0
    BY LineIs
  <2>2. 2 * (a + d) <= M /\ cells[2 * (a + d)] = Space
    BY <1>0, <1>a, <1>d DEF Follows
  <2>3. 2 * (a + d) \in 1..M
    <3>1. a > 0 /\ d > 0
      BY <1>a, <1>d, <2>1
    <3>2. 2 * (a + d) \in 1..M + 1 /\ 2 * (a + d) # M + 1
      BY <2>2, <3>1, Room
    <3> QED
      BY <3>2
  <2> QED
    BY <1>0, <1>a, <1>d, <2>1, <2>2, <2>3 DEF Spaces
<1>b. l.data \in Seq(Nat) /\ SubSeq(l.data, 1, d) = l.data
  <2>1. l.data \in Seq(Nat)
    BY LineIs
  <2> QED
    BY <1>d, <2>1
<1>2. PICK N \in Nat : N = M - 2 * a + 2 /\ N >= d /\ 2 * a <= M
  BY <1>1, Room
<1>3. N = Turns(begin)
  BY <1>0, <1>1, <1>2, TurnsLeft
<1>4. begin \in Ahead(cells)
  <2>1. 2 * a \in Spaces(cells)
    <3>1. 2 * a \in 1..M /\ a \in 1..(a + d) - 1
      BY <1>1, <1>2
    <3>2. Len(l.header \o l.data) = a + d
      <4>1. Len(l.header \o l.data) = Len(l.header) + Len(l.data)
        BY LineIs
      <4> QED
        BY <1>a, <1>d, <4>1
    <3>3. cells[2 * a] = Space
      BY <3>1, <3>2 DEF Starts
    <3> QED
      BY <1>0, <3>1, <3>3 DEF Spaces
  <2>2. begin = Behind(cells, 2 * a)
    BY <1>1 DEF Reading
  <2> QED
    BY <2>1, <2>2 DEF Ahead
<1>x. /\ \A b \in Seq(Nat), s \in Ahead(cells) : state(b, s) \in X
      /\ \A x \in X : \E b \in Seq(Nat), s \in Ahead(cells) : x = state(b, s)
  <2> HIDE DEF state
  <2> QED
    OBVIOUS
<1>s. \A b, s : state(b, s).stream = s
  BY DEF Loop
<1>f. \A b, s : s \in Failed => data_turn(state(b, s), header) = state(b, s)
  <2> SUFFICES ASSUME NEW b, NEW s \in Failed PROVE data_turn(state(b, s), header) = state(b, s)
    OBVIOUS
  <2>1. s.fail = TRUE
    BY DEF Failed
  <2> HIDE DEF state
  <2>2. state(b, s).stream = s
    BY <1>s
  <2> DEFINE q == state(b, s)
  <2> HIDE DEF q
  <2>3. q.stream.fail
    BY <2>1, <2>2 DEF q
  <2>4. data_turn(q, header) = q
    BY <2>3 DEF data_turn
  <2> QED
    BY <2>4 DEF q
<1>t. ASSUME NEW b \in Seq(Nat), NEW i \in Spaces(cells)
      PROVE  \E c \in Nat, t \in Ahead(cells) :
               /\ data_turn(state(b, Behind(cells, i)), header) = state(Append(b, c), t)
               /\ t \in Failed \/ \E j \in Spaces(cells) : j > i /\ t = Behind(cells, j)
  <2>1. GoesOn(cells, i, header, obd_data, b)
    BY AiryTurn
  <2> QED
    BY <2>1 DEF GoesOn
<1>5. ASSUME NEW x \in X PROVE data_turn(x, header) \in X
  <2> HIDE DEF state, X
  <2>1. PICK b \in Seq(Nat), s \in Ahead(cells) : x = state(b, s)
    BY <1>x
  <2>2. CASE s \in Failed
    BY <1>f, <2>1, <2>2
  <2>3. CASE s \notin Failed
    <3>1. PICK i \in Spaces(cells) : s = Behind(cells, i)
      BY <2>3 DEF Ahead
    <3>2. PICK c \in Nat, t \in Ahead(cells) : data_turn(x, header) = state(Append(b, c), t)
      BY <1>t, <2>1, <3>1
    <3>3. Append(b, c) \in Seq(Nat)
      OBVIOUS
    <3> QED
      BY <1>x, <3>2, <3>3
  <2> QED
    BY <2>2, <2>3
<1>6. r(0) = [obd_data |-> obd_data, stream |-> begin] /\ r(0) \in X
  <2>1. r(0) = [obd_data |-> obd_data, stream |-> begin]
    BY <1>a, NoByteRead
  <2>2. r(0) = state(<<>>, begin)
    BY <2>1 DEF Added, Loop
  <2>3. <<>> \in Seq(Nat)
    OBVIOUS
  <2> HIDE DEF r, state, X, begin
  <2> QED
    BY <1>4, <1>x, <2>1, <2>2, <2>3
<1>7. PICK g \in [0..N -> X] : g[0] = r(0) /\ \A n \in 1..N : g[n] = data_turn(g[n - 1], header)
  <2> DEFINE step == [n \in 1..N |-> [x \in X |-> data_turn(x, header)]]
  <2> HIDE DEF X, r
  <2>1. step \in Steps(N, X)
    BY <1>5 DEF Steps
  <2>2. \A n \in 1..N, x \in X : step[n][x] = data_turn(x, header)
    OBVIOUS
  <2> HIDE DEF step
  <2>3. PICK x0 \in X : x0 = r(0)
    BY <1>6
  <2>4. PICK g \in Walks(N, X, x0, step) : TRUE
    <3>1. Walks(N, X, x0, step) # {}
      BY <2>1, LoopExists
    <3> QED
      BY <3>1
  <2>5. g \in [0..N -> X] /\ g[0] = r(0) /\ \A n \in 1..N : g[n] = step[n][g[n - 1]]
    BY <2>3, <2>4 DEF Walks
  <2>6. \A n \in 1..N : g[n - 1] \in X
    BY <2>5
  <2> QED
    BY <2>2, <2>5, <2>6
<1> HIDE DEF X
<1>8. ASSUME NEW n \in 0..d PROVE g[n] = r(n)
  <2> DEFINE S == {k \in 0..d : g[k] = r(k)}
  <2>1. 0 \in S
    BY <1>7
  <2>2. ASSUME NEW k \in 1..d, k - 1 \in S PROVE k \in S
    <3>1. data_turn(r(k - 1), header) = r(k)
      BY <1>d, <1>h, ByteRead
    <3>2. g[k] = data_turn(g[k - 1], header) /\ g[k - 1] = r(k - 1)
      BY <1>2, <1>7, <2>2
    <3> HIDE DEF r
    <3> QED
      BY <3>1, <3>2
  <2> HIDE DEF S, r
  <2>3. 0..d \subseteq S
    BY <2>1, <2>2, UpTo
  <2> QED
    BY <2>3 DEF S
<1> DEFINE Past(n, s) == \/ s \in Failed
                         \/ \E j \in Spaces(cells) : j >= 2 * a + n /\ s = Behind(cells, j)
           ReadTo(n) == \E b \in Seq(Nat), s \in Ahead(cells) :
                          g[n] = state(l.data \o b, s) /\ Past(n, s)
<1>9. ReadTo(d)
  <2>1. l.data \o <<>> = l.data
    BY <1>b
  <2>2. r(d) = state(l.data \o <<>>, Behind(cells, 2 * (a + d)))
    <3>1. Reading(cells, a + d) = Behind(cells, 2 * (a + d))
      BY <1>1 DEF Reading
    <3> QED
      BY <1>a, <1>b, <1>h, <2>1, <3>1 DEF DataRead, Loop
  <2>3. Past(d, Behind(cells, 2 * (a + d))) /\ Behind(cells, 2 * (a + d)) \in Ahead(cells)
    <3>1. 2 * (a + d) >= 2 * a + d
      BY <1>1
    <3> QED
      BY <1>1, <3>1 DEF Ahead
  <2>4. g[d] = r(d) /\ <<>> \in Seq(Nat)
    <3> HIDE DEF r
    <3>1. d \in 0..d
      OBVIOUS
    <3> QED
      BY <1>8, <3>1
  <2> HIDE DEF Past, state, r
  <2> QED
    BY <2>2, <2>3, <2>4
<1>10. ASSUME NEW n \in 1..N, n > d, ReadTo(n - 1) PROVE ReadTo(n)
  <2>1. PICK b \in Seq(Nat), s \in Ahead(cells) :
          g[n - 1] = state(l.data \o b, s) /\ Past(n - 1, s)
    BY <1>10
  <2>2. g[n] = data_turn(g[n - 1], header)
    BY <1>7
  <2>4. CASE s \in Failed
    <3> HIDE DEF state
    <3> QED
      BY <1>f, <2>1, <2>2, <2>4
  <2>5. CASE s \notin Failed
    <3>1. PICK i \in Spaces(cells) : i >= 2 * a + (n - 1) /\ s = Behind(cells, i)
      BY <2>1, <2>5
    <3> HIDE DEF state
    <3>2. PICK e \in Seq(Nat) : e = l.data \o b
      <4>1. l.data \o b \in Seq(Nat)
        BY <1>b
      <4> QED
        BY <4>1
    <3>3. PICK c \in Nat, t \in Ahead(cells) :
            /\ data_turn(state(e, Behind(cells, i)), header) = state(Append(e, c), t)
            /\ t \in Failed \/ \E j \in Spaces(cells) : j > i /\ t = Behind(cells, j)
      BY <1>t
    <3>4. Append(e, c) = l.data \o Append(b, c) /\ Append(b, c) \in Seq(Nat)
      BY <1>b, <3>2, AppendedBehind
    <3>5. Past(n, t)
      <4>1. CASE t \in Failed
        BY <4>1
      <4>2. CASE \E j \in Spaces(cells) : j > i /\ t = Behind(cells, j)
        <5>1. PICK j \in Spaces(cells) : j > i /\ t = Behind(cells, j)
          BY <4>2
        <5>2. j \in Nat /\ i \in Nat
          BY DEF Spaces
        <5>3. j >= 2 * a + n
          BY <3>1, <5>1, <5>2
        <5> QED
          BY <5>1, <5>3
      <4> QED
        BY <3>3, <4>1, <4>2
    <3> HIDE DEF state, Past
    <3>6. g[n] = state(l.data \o Append(b, c), t)
      BY <2>1, <2>2, <3>1, <3>2, <3>3, <3>4
    <3> QED
      BY <3>4, <3>5, <3>6
  <2> QED
    BY <2>4, <2>5
<1>11. ReadTo(N)
  <2> DEFINE S == {k \in 0..N : k >= d => ReadTo(k)}
  <2> HIDE DEF ReadTo
  <2>1. 0 \in S
    BY <1>1
  <2>2. ASSUME NEW k \in 1..N, k - 1 \in S PROVE k \in S
    <3>1. CASE k < d
      BY <3>1
    <3>2. CASE k = d
      BY <1>9, <3>2
    <3>3. CASE k > d
      <4>1. k - 1 >= d
        BY <3>3
      <4> QED
        BY <1>10, <2>2, <3>3, <4>1
    <3> QED
      BY <3>1, <3>2, <3>3
  <2>3. 0..N \subseteq S
    <3> HIDE DEF S, X
    <3> QED
      BY <2>1, <2>2, UpTo
  <2> QED
    BY <1>2, <2>3
<1>12. PICK b \in Seq(Nat), s \in Ahead(cells) : g[N] = state(l.data \o b, s) /\ Past(N, s)
  BY <1>11
<1>13. s \in Failed
  <2>1. ASSUME NEW j \in Spaces(cells) PROVE ~(j >= 2 * a + N)
    <3>1. j \in 1..M
      BY <1>0 DEF Spaces
    <3> QED
      BY <1>2, <3>1
  <2> QED
    BY <1>12, <2>1
<1>14. data_loop(begin, header, obd_data) = g[N]
  <2>1. g = [n \in 0..N |-> g[n]]
    OBVIOUS
  <2> HIDE DEF r, begin
  <2>2. IsDataLoop(g, N, begin, header, obd_data)
    BY <1>3, <1>6, <1>7, <2>1 DEF IsDataLoop
  <2> QED
    BY <2>2, DataLoopIs
<1> QED
  BY <1>12, <1>13, <1>14, <1>a, <1>h DEF Loop, RunsOn

-----------------------------------------------------------------------------
(* The lines of a text.                                                    *)

(* The place of a cell in one of two texts put together.                   *)
LEMMA PutTogether ==
  ASSUME NEW X, NEW p \in Seq(X), NEW q \in Seq(X)
  PROVE  /\ p \o q \in Seq(X) /\ Len(p \o q) = Len(p) + Len(q)
         /\ \A i \in 1..Len(p) : (p \o q)[i] = p[i]
         /\ \A i \in 1..Len(q) : (p \o q)[Len(p) + i] = q[i]
         /\ SubSeq(p \o q, Len(p) + 1, Len(p \o q)) = q
<1>n. PICK n \in Nat : n = Len(p)
  OBVIOUS
<1>m. PICK m \in Nat : m = Len(q)
  OBVIOUS
<1>1. /\ p \o q \in Seq(X) /\ Len(p \o q) = n + m
      /\ \A i \in 1..n + m : (p \o q)[i] = IF i <= n THEN p[i] ELSE q[i - n]
  BY <1>n, <1>m, ConcatProperties
<1>3. \A i \in 1..n : (p \o q)[i] = p[i]
  BY <1>1
<1>4. \A i \in 1..m : (p \o q)[n + i] = q[i]
  BY <1>1
<1> DEFINE s == SubSeq(p \o q, n + 1, Len(p \o q))
<1>5. s \in Seq(X) /\ Len(s) = m /\ \A i \in 1..m : s[i] = (p \o q)[n + 1 + i - 1]
  <2>1. n + 1 \in 1..Len(p \o q) + 1
    BY <1>1
  <2>2. /\ s \in Seq(X) /\ Len(s) = Len(p \o q) - (n + 1) + 1
        /\ \A i \in 1..Len(s) : s[i] = (p \o q)[n + 1 + i - 1]
    BY <1>1, <2>1, Suffix
  <2> HIDE DEF s
  <2>3. Len(s) = m
    BY <1>1, <2>2
  <2> QED
    BY <2>2, <2>3
<1> HIDE DEF s
<1>6. s = q
  <2>1. ASSUME NEW i \in 1..m PROVE s[i] = q[i]
    <3>1. n + 1 + i - 1 = n + i
      OBVIOUS
    <3> QED
      BY <1>4, <1>5, <3>1
  <2> QED
    BY <1>m, <1>5, <2>1, SeqEqual
<1> QED
  BY <1>n, <1>m, <1>1, <1>3, <1>4, <1>6 DEF s

(* What a line says is in front of a text that begins with it, and its end *)
(* behind.                                                                 *)
LEMMA LineIn ==
  ASSUME NEW numbers \in Seq(Nat), numbers # <<>>, NEW end \in Seq(Cells), end # <<>>,
         NEW rest \in Seq(Cells)
  PROVE  LET cells == (Spaced(numbers) \o end) \o rest
         IN /\ cells \in Seq(Cells)
            /\ Len(cells) = 2 * Len(numbers) - 1 + Len(end) + Len(rest)
            /\ Starts(cells, numbers) /\ Follows(cells, Len(numbers), end[1])
            /\ \A i \in 1..Len(end) : cells[2 * Len(numbers) - 1 + i] = end[i]
            /\ \A i \in 1..Len(rest) : cells[2 * Len(numbers) - 1 + Len(end) + i] = rest[i]
            /\ SubSeq(cells, 2 * Len(numbers) + Len(end), Len(cells)) = rest
<1> DEFINE s == Spaced(numbers)
           p == s \o end
           cells == p \o rest
<1>k. PICK k \in Nat : k = Len(numbers) /\ k > 0
  OBVIOUS
<1>e. PICK e \in Nat : e = Len(end) /\ e > 0
  OBVIOUS
<1>m. PICK m \in Nat : m = Len(rest)
  OBVIOUS
<1>n. PICK n \in Nat : n = 2 * k - 1
  <2>1. 2 * k - 1 \in Nat
    BY <1>k
  <2> QED
    BY <2>1, Zenon
<1>1. s \in Seq(Cells) /\ Len(s) = n /\ Starts(s, numbers)
  BY <1>k, <1>n, SpacedIs
<1> HIDE DEF s
<1>2. /\ p \in Seq(Cells) /\ Len(p) = n + e
      /\ \A i \in 1..e : p[n + i] = end[i]
  <2>1. /\ s \o end \in Seq(Cells) /\ Len(s \o end) = Len(s) + Len(end)
        /\ \A i \in 1..Len(end) : (s \o end)[Len(s) + i] = end[i]
    BY <1>1, PutTogether, ZenonT(60)
  <2> QED
    BY <1>e, <1>1, <2>1
<1>3. Starts(p, numbers)
  BY <1>1, StartsStill
<1> HIDE DEF p
<1>4. /\ cells \in Seq(Cells) /\ Len(cells) = n + e + m
      /\ \A i \in 1..n + e : cells[i] = p[i]
      /\ \A i \in 1..m : cells[n + e + i] = rest[i]
      /\ SubSeq(cells, n + e + 1, Len(cells)) = rest
  <2>1. /\ p \o rest \in Seq(Cells) /\ Len(p \o rest) = Len(p) + Len(rest)
        /\ \A i \in 1..Len(p) : (p \o rest)[i] = p[i]
        /\ \A i \in 1..Len(rest) : (p \o rest)[Len(p) + i] = rest[i]
        /\ SubSeq(p \o rest, Len(p) + 1, Len(p \o rest)) = rest
    BY <1>2, PutTogether
  <2> QED
    BY <1>m, <1>2, <2>1
<1>5. Starts(cells, numbers)
  <2>1. p \in Seq(Cells)
    BY <1>2
  <2> QED
    BY <1>3, <2>1, StartsStill
<1> HIDE DEF cells
<1>6. ASSUME NEW i \in 1..e PROVE cells[n + i] = end[i]
  <2>1. n + i \in 1..n + e
    OBVIOUS
  <2> QED
    BY <1>2, <1>4, <2>1
<1>7. Follows(cells, k, end[1])
  <2>1. n + 1 = 2 * k /\ 2 * k <= n + e + m /\ 1 \in 1..e
    BY <1>k, <1>e, <1>n
  <2>2. cells[n + 1] = end[1]
    BY <1>6, <2>1
  <2> QED
    BY <1>4, <2>1, <2>2 DEF Follows
<1>8. n + e + 1 = 2 * k + e
  BY <1>n
<1>9. SubSeq(cells, 2 * k + e, Len(cells)) = rest
  BY <1>4, <1>8
<1> QED
  BY <1>k, <1>e, <1>m, <1>n, <1>4, <1>5, <1>6, <1>7, <1>9 DEF cells, p, s

(* A position is in front of another, the next, or behind it.              *)
LEMMA InFrontOrBehind == \A i, n \in Nat : i <= n \/ i = n + 1 \/ i > n + 1
  OBVIOUS

(* With a space at the end of every line, one is behind every number.      *)
LEMMA AirIn ==
  ASSUME NEW numbers \in Seq(Nat), numbers # <<>>, NEW rest \in Seq(Cells), Airy(rest)
  PROVE  Airy((Spaced(numbers) \o <<Space, CR>>) \o rest)
<1> DEFINE end == <<Space, CR>>
           cells == (Spaced(numbers) \o end) \o rest
<1>k. PICK k \in Nat : k = Len(numbers) /\ k > 0
  OBVIOUS
<1>m. PICK m \in Nat : m = Len(rest)
  OBVIOUS
<1>1. end \in Seq(Cells) /\ end # <<>> /\ Len(end) = 2 /\ end[1] = Space /\ end[2] = CR
  BY DEF Cells
<1> HIDE DEF end
<1>2. /\ cells \in Seq(Cells) /\ Len(cells) = 2 * k - 1 + 2 + m
      /\ Starts(cells, numbers) /\ Follows(cells, k, Space)
      /\ \A i \in 1..2 : cells[2 * k - 1 + i] = end[i]
      /\ \A i \in 1..m : cells[2 * k - 1 + 2 + i] = rest[i]
  <2>1. LET c == (Spaced(numbers) \o end) \o rest
        IN /\ c \in Seq(Cells)
           /\ Len(c) = 2 * Len(numbers) - 1 + Len(end) + Len(rest)
           /\ Starts(c, numbers) /\ Follows(c, Len(numbers), end[1])
           /\ \A i \in 1..Len(end) : c[2 * Len(numbers) - 1 + i] = end[i]
           /\ \A i \in 1..Len(rest) : c[2 * Len(numbers) - 1 + Len(end) + i] = rest[i]
    BY <1>1, LineIn
  <2> QED
    BY <1>k, <1>m, <1>1, <2>1
<1> HIDE DEF cells
<1> SUFFICES ASSUME NEW i \in DOMAIN cells, NEW v \in Nat, cells[i] = Number(v)
             PROVE  i < Len(cells) /\ cells[i + 1] = Space
  BY DEF Airy, cells, end
<1>3. i \in 1..2 * k + 1 + m /\ Len(cells) = 2 * k + 1 + m
  BY <1>2
<1>4. ASSUME NEW j \in 1..k PROVE cells[2 * j] = Space
  <2>1. CASE j = k
    BY <1>2, <2>1 DEF Follows
  <2>2. CASE j # k
    <3>1. j \in 1..Len(numbers) - 1
      BY <1>k, <2>2
    <3> QED
      BY <1>2, <3>1 DEF Starts
  <2> QED
    BY <2>1, <2>2
<1>5. CASE i <= 2 * k
  <2>1. PICK j \in 1..k : i = 2 * j \/ i = 2 * j - 1
    <3>1. i % 2 \in {0, 1} /\ i \in Nat /\ i > 0
      BY <1>3
    <3>2. CASE i % 2 = 0
      <4>1. i \div 2 \in 1..k /\ i = 2 * (i \div 2)
        BY <1>5, <3>1, <3>2
      <4> QED
        BY <4>1
    <3>3. CASE i % 2 = 1
      <4>1. PICK h \in Nat : i = 2 * h + 1
        <5>1. i \div 2 \in Nat /\ i = 2 * (i \div 2) + 1
          BY <3>1, <3>3
        <5> QED
          BY <5>1
      <4>2. h + 1 \in 1..k /\ i = 2 * (h + 1) - 1
        BY <1>5, <4>1
      <4> QED
        BY <4>2
    <3> QED
      BY <3>1, <3>2, <3>3
  <2>2. i # 2 * j
    BY <1>4, CellsDiffer
  <2>3. i = 2 * j - 1 /\ i + 1 = 2 * j /\ i < 2 * k + 1 + m
    BY <1>5, <2>1, <2>2
  <2> QED
    BY <1>3, <1>4, <2>3
<1>6. CASE i = 2 * k + 1
  <2>1. 2 * k - 1 + 2 = i
    BY <1>6
  <2>2. cells[i] = CR
    BY <1>1, <1>2, <2>1
  <2> QED
    BY <2>2, CellsDiffer
<1>7. CASE i > 2 * k + 1
  <2>1. PICK j \in 1..m : i = 2 * k - 1 + 2 + j
    <3>1. i - (2 * k + 1) \in 1..m /\ i = 2 * k - 1 + 2 + (i - (2 * k + 1))
      BY <1>3, <1>7
    <3> QED
      BY <3>1
  <2>2. rest[j] = Number(v) /\ j \in DOMAIN rest
    BY <1>m, <1>2, <2>1
  <2>3. j < m /\ rest[j + 1] = Space
    BY <1>m, <2>2 DEF Airy
  <2>4. cells[2 * k - 1 + 2 + (j + 1)] = rest[j + 1]
    BY <1>2, <2>3
  <2>5. 2 * k - 1 + 2 + (j + 1) = i + 1 /\ i < 2 * k + 1 + m
    BY <2>1, <2>3
  <2>6. cells[i + 1] = Space
    BY <2>3, <2>4, <2>5, Zenon
  <2>7. i < Len(cells)
    BY <1>3, <2>5
  <2> QED
    BY <2>6, <2>7
<1>8. i <= 2 * k \/ i = 2 * k + 1 \/ i > 2 * k + 1
  <2>1. i \in Nat /\ 2 * k \in Nat
    BY <1>3
  <2> QED
    BY <2>1, InFrontOrBehind, Zenon
<1> QED
  BY <1>5, <1>6, <1>7, <1>8, Zenon

(* Neither of two texts is empty, and together they are not.               *)
LEMMA NeitherEmpty ==
  ASSUME NEW p \in Seq(Nat), p # <<>>, NEW q \in Seq(Nat), q # <<>>
  PROVE  /\ p \o q \in Seq(Nat) /\ p \o q # <<>> /\ Len(p \o q) = Len(p) + Len(q)
         /\ Len(p \o q) \in Nat /\ Len(p \o q) > 0
<1>1. PICK n \in Nat : n = Len(p) /\ n > 0
  OBVIOUS
<1>2. PICK m \in Nat : m = Len(q) /\ m > 0
  OBVIOUS
<1>3. p \o q \in Seq(Nat) /\ Len(p \o q) = n + m
  BY <1>1, <1>2
<1> QED
  BY <1>1, <1>2, <1>3

(* The numbers of a line.                                                  *)
LEMMA NumbersAre ==
  ASSUME NEW is_CAN \in BOOLEAN, NEW l \in Lines(is_CAN)
  PROVE  /\ l.header \o l.data \in Seq(Nat) /\ l.header \o l.data # <<>>
         /\ Len(l.header \o l.data) = Len(l.header) + Len(l.data)
         /\ Len(l.header \o l.data) \in Nat /\ Len(l.header \o l.data) > 0
<1>1. l.header \in Seq(Nat) /\ l.data \in Seq(Nat)
  BY LineIs
<1>2. l.header # <<>> /\ l.data # <<>>
  <2>1. Len(l.header) > 0 /\ Len(l.data) > 0
    BY LineIs
  <2> QED
    BY <2>1
<1> QED
  BY <1>1, <1>2, NeitherEmpty

(* The loop of the lines, and the same when it is over.                    *)
Going(obd_data, s) == [obd_data |-> obd_data, stream |-> s, over |-> FALSE]
Over(obd_data, s) == [obd_data |-> obd_data, stream |-> s, over |-> TRUE]

(* A text is read from its first cell.                                     *)
LEMMA TextBegins ==
  ASSUME NEW cells \in Seq(Cells), cells # <<>>
  PROVE  Reading(cells, 0) = Stream(cells)
<1>1. PICK n \in Nat : n = Len(cells) /\ n > 0
  OBVIOUS
<1>2. SubSeq(cells, 1, Len(cells)) = cells
  OBVIOUS
<1>3. Reading(cells, 0) = Behind(cells, 1)
  BY DEF Reading
<1>4. 1 <= Len(cells)
  BY <1>1
<1> QED
  BY <1>2, <1>3, <1>4 DEF Behind

(* A turn reads a header and what the loop of the bytes makes of the rest  *)
(* of the line.                                                            *)
LEMMA LineTurn ==
  ASSUME NEW is_CAN \in BOOLEAN, NEW l \in Lines(is_CAN), NEW cells \in Seq(Cells),
         Starts(cells, l.header \o l.data), NEW obd_data, NEW D, NEW s, NEW next,
         data_loop(Reading(cells, Len(l.header)), HeaderValue(l.header), obd_data)
           = [obd_data |-> D, stream |-> s],
         next = IF s.fail THEN s ELSE got(s)
  PROVE  line_turn(Going(obd_data, Stream(cells)), is_CAN) = Going(D, next)
<1> DEFINE numbers == l.header \o l.data
           s0 == Stream(cells)
           r == Going(obd_data, s0)
           head == get_header(Peeked(s0), is_CAN)
           data == data_loop(head.stream, head.header, obd_data)
<1>1. numbers \in Seq(Nat) /\ 1 \in 1..Len(numbers)
  <2>1. numbers \in Seq(Nat) /\ Len(numbers) \in Nat /\ Len(numbers) > 0
    BY NumbersAre
  <2> HIDE DEF numbers
  <2> QED
    BY <2>1
<1>2. cells # <<>>
  <2>1. 2 * Len(numbers) - 1 <= Len(cells)
    BY DEF Starts
  <2> HIDE DEF numbers
  <2> QED
    BY <1>1, <2>1
<1>3. Reading(cells, 0) = s0
  BY <1>2, TextBegins
<1>4. peek(s0) # Prompt /\ Peeked(s0) = s0 /\ ~s0.fail
  <2>1. 1 - 1 = 0
    OBVIOUS
  <2>2. LET q == Reading(cells, 1 - 1) IN peek(q) # Prompt /\ Peeked(q) = q /\ ~q.fail
    <3> HIDE DEF s0
    <3>1. Starts(cells, numbers)
      OBVIOUS
    <3> HIDE DEF numbers
    <3>2. LET q == Reading(cells, 1 - 1) IN peek(q) \notin {CR, Prompt} /\ Peeked(q) = q /\ ~q.fail
      BY <1>1, <3>1, NextNumber
    <3> QED
      BY <3>2
  <2> HIDE DEF s0
  <2> QED
    BY <1>3, <2>1, <2>2
<1>5. head.header = HeaderValue(l.header) /\ head.stream = Reading(cells, Len(l.header))
  <2>1. get_header(Reading(cells, 0), is_CAN) =
          [header |-> HeaderValue(l.header), stream |-> Reading(cells, Len(l.header)),
           over |-> FALSE]
    BY HeaderRead
  <2>2. head = get_header(Reading(cells, 0), is_CAN)
    BY <1>3, <1>4
  <2> HIDE DEF head
  <2> QED
    BY <2>1, <2>2
<1>6. head.header # 0
  BY <1>5 DEF Lines
<1>7. data.obd_data = D /\ data.stream = s
  <2> HIDE DEF head
  <2>1. data = [obd_data |-> D, stream |-> s]
    BY <1>5
  <2> HIDE DEF data
  <2> QED
    BY <2>1
<1>8. r.stream = s0 /\ r.over = FALSE /\ r.obd_data = obd_data
  BY DEF Going
<1> HIDE DEF s0, r
<1>9. head = get_header(Peeked(r.stream), is_CAN)
      /\ data = data_loop(head.stream, head.header, r.obd_data)
  BY <1>8
<1> HIDE DEF head, data
<1>10. line_turn(r, is_CAN)
         = [obd_data |-> data.obd_data,
            stream |-> IF data.stream.fail THEN data.stream ELSE got(data.stream), over |-> FALSE]
  BY <1>4, <1>6, <1>8, <1>9 DEF line_turn
<1> QED
  BY <1>7, <1>10 DEF r, s0, Going

(* A line that ends with a carriage return is read, and nothing else.      *)
LEMMA LineKept ==
  ASSUME NEW is_CAN \in BOOLEAN, NEW l \in Lines(is_CAN), NEW rest \in Seq(Cells),
         NEW obd_data, IsData(obd_data)
  PROVE  line_turn(Going(obd_data, Stream(LineText(l, FALSE) \o rest)), is_CAN)
           = Going(Added(obd_data, HeaderValue(l.header), l.data), Stream(rest))
<1> DEFINE numbers == l.header \o l.data
           cells == (Spaced(numbers) \o <<CR>>) \o rest
           k == Len(numbers)
           a == Len(l.header)
           d == Len(l.data)
           r == DataRead(cells, l, obd_data, d)
<1>1. numbers \in Seq(Nat) /\ numbers # <<>> /\ k \in Nat /\ k > 0 /\ k = a + d
  BY NumbersAre
<1>n. PICK n \in Nat : n = Len(rest)
  OBVIOUS
<1>2. LineText(l, FALSE) \o rest = cells
  BY DEF LineText
<1>3. /\ cells \in Seq(Cells) /\ Len(cells) = 2 * k + Len(rest) /\ Len(rest) \in Nat
      /\ Starts(cells, numbers) /\ Follows(cells, k, CR)
      /\ SubSeq(cells, 2 * k + 1, Len(cells)) = rest
  <2> DEFINE end == <<CR>>
             c == (Spaced(numbers) \o end) \o rest
  <2>1. end \in Seq(Cells) /\ end # <<>> /\ Len(end) = 1 /\ end[1] = CR
    BY DEF Cells
  <2> HIDE DEF end, numbers
  <2>2. /\ c \in Seq(Cells) /\ Len(c) = 2 * Len(numbers) - 1 + Len(end) + Len(rest)
        /\ Starts(c, numbers) /\ Follows(c, Len(numbers), end[1])
        /\ SubSeq(c, 2 * Len(numbers) + Len(end), Len(c)) = rest
    BY <1>1, <2>1, LineIn, ZenonT(60)
  <2>3. Len(rest) \in Nat /\ c = cells
    BY DEF end
  <2> HIDE DEF c, cells
  <2>4. 2 * k - 1 + 1 + Len(rest) = 2 * k + Len(rest)
    BY <1>1, <2>3
  <2> QED
    BY <2>1, <2>2, <2>3, <2>4
<1> HIDE DEF cells, numbers
<1>4. data_loop(Reading(cells, a), HeaderValue(l.header), obd_data) = r
  <2>1. Follows(cells, Len(l.header) + Len(l.data), CR) /\ Starts(cells, l.header \o l.data)
    BY <1>1, <1>3 DEF numbers
  <2>2. cells \in Seq(Cells)
    BY <1>3
  <2> QED
    BY <2>1, <2>2, LineRead
<1> DEFINE s == Reading(cells, a + d)
           D == Added(obd_data, HeaderValue(l.header), l.data)
<1>5. r = [obd_data |-> D, stream |-> s]
  <2>1. SubSeq(l.data, 1, d) = l.data
    <3>1. l.data \in Seq(Nat)
      BY LineIs
    <3> QED
      BY <3>1
  <2> QED
    BY <2>1 DEF DataRead
<1>6. s = Stream(SubSeq(cells, 2 * k, Len(cells)))
  <2>1. a + d # 0 /\ 2 * (a + d) = 2 * k /\ 2 * k <= Len(cells)
    <3> HIDE DEF a, d, k
    <3>1. PICK m \in Nat : m = k /\ m > 0
      BY <1>1
    <3>2. Len(cells) = 2 * m + n /\ a + d = m
      BY <1>1, <1>3, <1>n, <3>1
    <3> QED
      BY <3>1, <3>2
  <2> QED
    BY <2>1 DEF Reading, Behind
<1>7. s.fail = FALSE /\ s.eof = FALSE /\ s.rest = SubSeq(cells, 2 * k, Len(cells))
  <2> HIDE DEF s
  <2> QED
    BY <1>6 DEF Stream
<1>8. Tail(SubSeq(cells, 2 * k, Len(cells))) = rest
  <2> HIDE DEF k
  <2>1. 2 * k \in 1..Len(cells) + 1 /\ 2 * k <= Len(cells)
    <3>1. PICK m \in Nat : m = k /\ m > 0
      BY <1>1
    <3>2. Len(cells) = 2 * m + n
      BY <1>3, <1>n, <3>1
    <3> QED
      BY <3>1, <3>2
  <2>2. Tail(SubSeq(cells, 2 * k, Len(cells))) = SubSeq(cells, 2 * k + 1, Len(cells))
    BY <1>3, <2>1, Suffix
  <2> QED
    BY <1>3, <2>2
<1>9. got(s) = Stream(rest)
  <2> HIDE DEF s
  <2> QED
    BY <1>7, <1>8 DEF got, Stream
<1>10. line_turn(Going(obd_data, Stream(cells)), is_CAN) = Going(D, got(s))
  <2>1. data_loop(Reading(cells, Len(l.header)), HeaderValue(l.header), obd_data)
          = [obd_data |-> D, stream |-> s]
    BY <1>4, <1>5
  <2>2. got(s) = IF s.fail THEN s ELSE got(s)
    BY <1>7
  <2>3. cells \in Seq(Cells) /\ Starts(cells, l.header \o l.data)
    BY <1>3 DEF numbers
  <2> HIDE DEF s, D
  <2> QED
    BY <2>1, <2>2, <2>3, LineTurn
<1> QED
  BY <1>2, <1>9, <1>10

(* A turn reads a line, and all that follows as its bytes.                 *)
TurnRunsOn(l, rest, obd_data, is_CAN) ==
    \E b \in Seq(Nat), s \in Failed :
      line_turn(Going(obd_data, Stream(LineText(l, TRUE) \o rest)), is_CAN)
        = Going(Added(obd_data, HeaderValue(l.header), l.data \o b), s)

(* The first line of a text whose lines end with a space is read, and all  *)
(* that follows is read as its bytes, until the stream fails.              *)
LEMMA SpacedTurn ==
  ASSUME NEW is_CAN \in BOOLEAN, NEW l \in Lines(is_CAN), NEW rest \in Seq(Cells), Airy(rest),
         NEW obd_data, IsData(obd_data)
  PROVE  TurnRunsOn(l, rest, obd_data, is_CAN)
<1> DEFINE numbers == l.header \o l.data
           end == <<Space, CR>>
           cells == (Spaced(numbers) \o end) \o rest
<1>1. /\ numbers \in Seq(Nat) /\ numbers # <<>>
      /\ Len(numbers) = Len(l.header) + Len(l.data)
  BY NumbersAre
<1>2. LineText(l, TRUE) \o rest = cells
  BY DEF LineText
<1>3. end \in Seq(Cells) /\ end # <<>> /\ end[1] = Space
  BY DEF Cells
<1>4. Airy(cells)
  <2> HIDE DEF numbers
  <2> QED
    BY <1>1, AirIn
<1>5. cells \in Seq(Cells) /\ Starts(cells, numbers) /\ Follows(cells, Len(numbers), Space)
  <2> HIDE DEF numbers, end
  <2>1. /\ cells \in Seq(Cells) /\ Starts(cells, numbers)
        /\ Follows(cells, Len(numbers), end[1])
    BY <1>1, <1>3, LineIn
  <2> QED
    BY <1>3, <2>1
<1>6. Follows(cells, Len(l.header) + Len(l.data), Space)
  BY <1>1, <1>5
<1> HIDE DEF cells
<1>7. PICK b \in Seq(Nat), s \in Failed :
        data_loop(Reading(cells, Len(l.header)), HeaderValue(l.header), obd_data)
          = [obd_data |-> Added(obd_data, HeaderValue(l.header), l.data \o b), stream |-> s]
  <2>1. RunsOn(cells, l, obd_data)
    BY <1>4, <1>5, <1>6, SpacedRead
  <2> QED
    BY <2>1 DEF RunsOn
<1>8. s = IF s.fail THEN s ELSE got(s)
  BY DEF Failed
<1> DEFINE D == Added(obd_data, HeaderValue(l.header), l.data \o b)
<1> HIDE DEF D
<1>9. line_turn(Going(obd_data, Stream(cells)), is_CAN) = Going(D, s)
  BY <1>5, <1>7, <1>8, LineTurn DEF D
<1> QED
  BY <1>2, <1>9 DEF D, TurnRunsOn

(* A line that is cut off is read, and a byte that is none.                *)
LEMMA CutTurn ==
  ASSUME NEW is_CAN \in BOOLEAN, NEW l \in Lines(is_CAN), NEW obd_data, IsData(obd_data)
  PROVE  line_turn(Going(obd_data, Stream(Spaced(l.header \o l.data))), is_CAN)
           = Going(Added(obd_data, HeaderValue(l.header), Append(l.data, 0)), PastEnd)
<1> DEFINE numbers == l.header \o l.data
           cells == Spaced(numbers)
           D == Added(obd_data, HeaderValue(l.header), Append(l.data, 0))
<1>1. /\ numbers \in Seq(Nat) /\ numbers # <<>>
      /\ Len(numbers) = Len(l.header) + Len(l.data)
  BY NumbersAre
<1>2. cells \in Seq(Cells) /\ Starts(cells, numbers) /\ CutOff(cells, Len(l.header) + Len(l.data))
  <2> HIDE DEF numbers
  <2>1. /\ cells \in Seq(Cells) /\ Starts(cells, numbers)
        /\ Len(cells) = 2 * Len(numbers) - 1
    BY <1>1, SpacedIs
  <2> QED
    BY <1>1, <2>1 DEF CutOff
<1> HIDE DEF cells
<1>3. data_loop(Reading(cells, Len(l.header)), HeaderValue(l.header), obd_data)
        = [obd_data |-> D, stream |-> PastEnd]
  BY <1>2, CutRead
<1>4. PastEnd = IF PastEnd.fail THEN PastEnd ELSE got(PastEnd)
  BY DEF PastEnd
<1> HIDE DEF D
<1>5. line_turn(Going(obd_data, Stream(cells)), is_CAN) = Going(D, PastEnd)
  BY <1>2, <1>3, <1>4, LineTurn
<1> QED
  BY <1>5 DEF D, cells

(* Behind the last line is an empty one, whose header is 0.                *)
LEMMA EndTurn ==
  ASSUME NEW is_CAN \in BOOLEAN, NEW obd_data
  PROVE  line_turn(Going(obd_data, Stream(<<CR, Prompt>>)), is_CAN)
           = Over(obd_data, Stream(<<CR, Prompt>>))
<1> DEFINE text == <<CR, Prompt>>
           s == Stream(text)
           h == [header |-> 0, stream |-> s, over |-> FALSE]
           r == Going(obd_data, s)
           head == get_header(Peeked(s), is_CAN)
<1>1. text \in Seq(Cells) /\ text # <<>> /\ Head(text) = CR
  BY DEF Cells
<1> HIDE DEF text
<1>2. peek(s) = CR /\ Peeked(s) = s /\ ~s.fail
  BY <1>1, PeekedIs
<1> HIDE DEF s
<1> DEFINE end == [header |-> 0, stream |-> s, over |-> TRUE]
<1>3. header_turn(h) = end
  BY <1>2 DEF header_turn
<1>4. header_turn(end) = end
  BY DEF header_turn
<1>5. head = end
  <2>1. head = IF is_CAN THEN header_turn(h) ELSE header_turn(header_turn(header_turn(h)))
    BY <1>2 DEF get_header
  <2> HIDE DEF end, head
  <2> QED
    BY <1>3, <1>4, <2>1
<1>6. head.header = 0 /\ head.stream = s
  <2> HIDE DEF head
  <2> QED
    BY <1>5
<1>7. r.stream = s /\ r.over = FALSE /\ r.obd_data = obd_data
  BY DEF Going
<1> HIDE DEF r
<1>8. head = get_header(Peeked(r.stream), is_CAN)
  BY <1>7
<1> HIDE DEF head
<1>9. line_turn(r, is_CAN) = [obd_data |-> r.obd_data, stream |-> head.stream, over |-> TRUE]
  <2>1. ~(r.over \/ r.stream.fail \/ peek(r.stream) = Prompt)
    BY <1>2, <1>7, CellsDiffer
  <2> QED
    BY <1>6, <1>8, <2>1 DEF line_turn
<1> QED
  BY <1>6, <1>7, <1>9 DEF Over, r, s, text

(* The loop of the lines stays over, and so it does when the stream fails. *)
LEMMA StaysOver ==
  ASSUME NEW is_CAN, NEW obd_data, NEW s
  PROVE  /\ line_turn(Over(obd_data, s), is_CAN) = Over(obd_data, s)
         /\ s.fail => line_turn(Going(obd_data, s), is_CAN) = Going(obd_data, s)
<1>1. line_turn(Over(obd_data, s), is_CAN) = Over(obd_data, s)
  <2> DEFINE r == Over(obd_data, s)
  <2>1. r.over = TRUE
    BY DEF Over
  <2> HIDE DEF r
  <2>2. line_turn(r, is_CAN) = r
    BY <2>1 DEF line_turn
  <2> QED
    BY <2>2 DEF r
<1>2. ASSUME s.fail PROVE line_turn(Going(obd_data, s), is_CAN) = Going(obd_data, s)
  <2> DEFINE r == Going(obd_data, s)
  <2>1. r.stream = s
    BY DEF Going
  <2> HIDE DEF r
  <2>2. line_turn(r, is_CAN) = r
    BY <1>2, <2>1 DEF line_turn
  <2> QED
    BY <2>2 DEF r
<1> QED
  BY <1>1, <1>2

(* A text that does not begin with a number has no line.                   *)
LEMMA NoHeader ==
  ASSUME NEW is_CAN \in BOOLEAN, NEW obd_data, NEW s, NEW p, NEW t, ~s.fail, peek(s) # Prompt,
         p = Peeked(s), ~p.fail, peek(p) # CR,
         Extracted(Peeked(p)) = [temp |-> 0, stream |-> t], t.fail
  PROVE  line_turn(Going(obd_data, s), is_CAN) = Over(obd_data, t)
<1> DEFINE h == [header |-> 0, stream |-> p, over |-> FALSE]
           end == [header |-> 0, stream |-> t, over |-> FALSE]
           r == Going(obd_data, s)
           head == get_header(Peeked(s), is_CAN)
           read == Extracted(Peeked(p))
<1>1. read.temp = 0 /\ read.stream = t
  OBVIOUS
<1> HIDE DEF read
<1>2. header_turn(h) = end
  <2>1. header_turn(h) = [header |-> 0 * 256 + read.temp, stream |-> read.stream, over |-> FALSE]
    BY DEF header_turn, read
  <2> QED
    BY <1>1, <2>1
<1>3. header_turn(end) = end
  BY DEF header_turn
<1>4. head = end
  <2>1. head = IF is_CAN THEN header_turn(h) ELSE header_turn(header_turn(header_turn(h)))
    BY DEF get_header
  <2> HIDE DEF end, head, h
  <2> QED
    BY <1>2, <1>3, <2>1
<1>5. head.header = 0 /\ head.stream = t
  <2> HIDE DEF head
  <2> QED
    BY <1>4
<1>6. r.stream = s /\ r.over = FALSE /\ r.obd_data = obd_data
  BY DEF Going
<1> HIDE DEF r
<1>7. head = get_header(Peeked(r.stream), is_CAN)
  BY <1>6
<1> HIDE DEF head
<1>8. line_turn(r, is_CAN) = [obd_data |-> r.obd_data, stream |-> head.stream, over |-> TRUE]
  BY <1>5, <1>6, <1>7 DEF line_turn
<1> QED
  BY <1>5, <1>6, <1>8 DEF Over, r

(* The empty text has none, ...                                            *)
LEMMA EmptyTurn ==
  ASSUME NEW is_CAN \in BOOLEAN, NEW obd_data
  PROVE  line_turn(Going(obd_data, Stream(<<>>)), is_CAN) = Over(obd_data, PastEnd)
<1> DEFINE s == Stream(<<>>)
<1>1. s.rest = <<>> /\ s.eof = FALSE /\ s.fail = FALSE
  BY DEF Stream
<1> HIDE DEF s
<1>2. Good(s) /\ peek(s) = EndOfText
  BY <1>1 DEF Good, peek
<1>3. Peeked(s) = AtEnd
  <2>1. (s.eof \/ (Good(s) /\ s.rest = <<>>)) = TRUE /\ (~Good(s)) = FALSE
    BY <1>1, <1>2
  <2> QED
    BY <1>1, <2>1 DEF Peeked, AtEnd
<1>4. AtEnd.rest = <<>> /\ AtEnd.eof = TRUE /\ AtEnd.fail = FALSE
  BY DEF AtEnd
<1>5. ~Good(AtEnd) /\ peek(AtEnd) = EndOfText
  BY <1>4 DEF Good, peek
<1>6. Peeked(AtEnd) = PastEnd
  <2>1. (AtEnd.eof \/ (Good(AtEnd) /\ AtEnd.rest = <<>>)) = TRUE /\ (~Good(AtEnd)) = TRUE
    BY <1>4, <1>5
  <2> QED
    BY <1>4, <2>1 DEF Peeked, PastEnd
<1>7. Extracted(PastEnd) = [temp |-> 0, stream |-> PastEnd] /\ PastEnd.fail
  <2>1. PastEnd.eof = TRUE /\ PastEnd.fail = TRUE
    BY DEF PastEnd
  <2>2. ~Good(PastEnd) /\ (PastEnd.eof \/ <<>> = <<>>) = TRUE
    BY <2>1 DEF Good
  <2>3. Extracted(PastEnd) = [temp |-> 0, stream |-> [rest |-> <<>>, eof |-> TRUE, fail |-> TRUE]]
    BY <2>2 DEF Extracted
  <2> QED
    BY <2>1, <2>3 DEF PastEnd
<1>8. EndOfText # Prompt /\ EndOfText # CR
  BY CellsDiffer
<1> QED
  BY <1>1, <1>2, <1>3, <1>4, <1>5, <1>6, <1>7, <1>8, NoHeader DEF s

(* ... and neither has a message.                                          *)
LEMMA MessageTurn ==
  ASSUME NEW is_CAN \in BOOLEAN, NEW obd_data
  PROVE  \E t : line_turn(Going(obd_data, Stream(Message)), is_CAN) = Over(obd_data, t)
<1> DEFINE s == Stream(Message)
           t == [rest |-> Message, eof |-> FALSE, fail |-> TRUE]
<1>1. /\ Message \in Seq(Cells) /\ Message # <<>> /\ Head(Message) = Letter
      /\ Len(Message) = 6 /\ Message[1] = Letter
  BY DEF Message, Cells
<1>2. peek(s) = Letter /\ Peeked(s) = s /\ Good(s) /\ ~s.fail /\ s.rest = Message
  BY <1>1, PeekedIs
<1>3. Letter \notin {CR, Space, Prompt} /\ Letter[1] # "number"
  BY CellsDiffer
<1>4. Unblanked(Message) = Message
  <2>1. Unblanked(Message) = SubSeq(Message, 0 + 1, Len(Message))
    <3>1. PICK n \in 0..Len(Message) : n = 0
      BY <1>1
    <3>2. Message[n + 1] \notin Blanks /\ \A j \in 1..n : Message[j] \in Blanks
      BY <1>1, <1>3, <3>1 DEF Blanks
    <3>3. Message \in Seq(Cells)
      BY <1>1
    <3>4. Unblanked(Message) = SubSeq(Message, n + 1, Len(Message))
      BY <3>2, <3>3, UnblankedIs
    <3> QED
      BY <3>1, <3>4
  <2>2. SubSeq(Message, 1, Len(Message)) = Message
    BY <1>1
  <2> QED
    BY <2>1, <2>2
<1>5. Extracted(s) = [temp |-> 0, stream |-> t]
  <2>1. s.eof = FALSE
    BY DEF Stream
  <2>2. (s.eof \/ Message = <<>>) = FALSE
    BY <1>1, <2>1
  <2> HIDE DEF s
  <2> QED
    BY <1>1, <1>2, <1>3, <1>4, <2>2 DEF Extracted
<1> HIDE DEF s
<1>6. line_turn(Going(obd_data, s), is_CAN) = Over(obd_data, t)
  <2>1. t.fail
    OBVIOUS
  <2> HIDE DEF t
  <2> QED
    BY <1>2, <1>3, <1>5, <2>1, NoHeader
<1> QED
  BY <1>6 DEF s

-----------------------------------------------------------------------------
(* What string_to_completion computes.                                     *)

(* What its loop computes is what satisfies its equation.                  *)
IsTextLoop(g, N, text, is_CAN) ==
    /\ g = [n \in 0..N |-> g[n]] /\ N = Len(text) + 1
    /\ g[0] = Going(<<>>, Stream(text))
    /\ \A n \in 1..N : g[n] = line_turn(g[n - 1], is_CAN)

(* string_to_completion returns the data of the last value of the loop.    *)
LEMMA TextLoopIs ==
  ASSUME NEW text, NEW is_CAN, NEW N \in Nat, NEW g, IsTextLoop(g, N, text, is_CAN)
  PROVE  string_to_completion(text, is_CAN) = g[N].obd_data
<1> DEFINE s == Stream(text)
           r == [obd_data |-> <<>>, stream |-> s, over |-> FALSE]
<1>0. /\ g = [n \in 0..N |-> g[n]] /\ N = Turns(s) /\ g[0] = r
      /\ \A n \in 1..N : g[n] = line_turn(g[n - 1], is_CAN)
  <2>1. s.rest = text
    BY DEF Stream
  <2> QED
    BY <2>1 DEF IsTextLoop, Going, Turns
<1> DEFINE Step(f) == [n \in 0..N |-> IF n = 0 THEN r ELSE line_turn(f[n - 1], is_CAN)]
           turn == CHOOSE f : f = Step(f)
<1>3. string_to_completion(text, is_CAN) = turn[N].obd_data
  BY <1>0 DEF string_to_completion
<1> HIDE DEF r
<1>1. g = Step(g)
  <2> DEFINE e(n) == IF n = 0 THEN r ELSE line_turn(g[n - 1], is_CAN)
  <2>1. \A n \in 0..N : g[n] = e(n)
    <3>1. \A n \in 0..N : n # 0 => n \in 1..N
      OBVIOUS
    <3> QED
      BY <1>0, <3>1, Zenon
  <2> HIDE DEF e
  <2>2. g = [n \in 0..N |-> e(n)]
    BY <1>0, <2>1
  <2> QED
    BY <2>2 DEF e
<1>2. turn = Step(turn)
  BY <1>1
<1> HIDE DEF turn
<1>4. turn[0] = g[0]
  BY <1>0, <1>2
<1>5. ASSUME NEW n \in 1..N PROVE turn[n] = line_turn(turn[n - 1], is_CAN)
  <2>1. n \in 0..N /\ n # 0
    OBVIOUS
  <2> QED
    BY <1>2, <2>1
<1>6. turn[N] = g[N]
  <2>1. \A n \in 1..N : turn[n - 1] = g[n - 1] => turn[n] = g[n]
    BY <1>0, <1>5
  <2> QED
    BY <1>4, <2>1, SameLoop
<1> QED
  BY <1>3, <1>6

(* A loop that stays where its first turn leads ends there.                *)
LEMMA OneTurn ==
  ASSUME NEW text \in Seq(Cells), NEW is_CAN, NEW r,
         line_turn(Going(<<>>, Stream(text)), is_CAN) = r, line_turn(r, is_CAN) = r
  PROVE  string_to_completion(text, is_CAN) = r.obd_data
<1> DEFINE r0 == Going(<<>>, Stream(text))
<1>1. PICK N \in Nat : N = Len(text) + 1 /\ N > 0
  OBVIOUS
<1> DEFINE g == [n \in 0..N |-> IF n = 0 THEN r0 ELSE r]
<1>2. IsTextLoop(g, N, text, is_CAN)
  <2>1. g = [n \in 0..N |-> g[n]] /\ g[0] = r0
    <3> HIDE DEF r0
    <3> QED
      OBVIOUS
  <2>2. ASSUME NEW n \in 1..N PROVE g[n] = line_turn(g[n - 1], is_CAN)
    <3>1. n \in 0..N /\ n - 1 \in 0..N /\ n # 0
      OBVIOUS
    <3> HIDE DEF r0
    <3>2. g[n] = r /\ g[n - 1] = IF n = 1 THEN r0 ELSE r
      BY <3>1
    <3> HIDE DEF g
    <3> QED
      BY <3>2 DEF r0
  <2> HIDE DEF g
  <2> QED
    BY <1>1, <2>1, <2>2 DEF IsTextLoop
<1>3. g[N] = r
  <2> HIDE DEF r0
  <2> QED
    BY <1>1
<1> HIDE DEF g
<1> QED
  BY <1>2, <1>3, TextLoopIs

-----------------------------------------------------------------------------
(* The text, line by line.                                                 *)

(* What FlattenSeq puts together, piece by piece.                          *)
Pieces(P, seqs, X) ==
    /\ P \in [0..Len(seqs) -> Seq(X)] /\ P[0] = <<>>
    /\ \A n \in 1..Len(seqs) : P[n] = P[n - 1] \o seqs[n]

(* The last piece is all of it.                                            *)
LEMMA FlattenIs ==
  ASSUME NEW X, NEW seqs \in Seq(Seq(X)), seqs # <<>>
  PROVE  \E P : Pieces(P, seqs, X) /\ FlattenSeq(seqs) = P[Len(seqs)]
<1>k. PICK k \in Nat : k = Len(seqs) /\ k > 0
  OBVIOUS
<1> DEFINE step == [n \in 1..k |-> [x \in Seq(X) |-> x \o seqs[n]]]
<1>1. step \in Steps(k, Seq(X))
  <2>1. \A n \in 1..k : seqs[n] \in Seq(X)
    BY <1>k
  <2> QED
    BY <2>1 DEF Steps
<1>2. PICK x \in Seq(X) : x = <<>>
  <2>1. <<>> \in Seq(X)
    OBVIOUS
  <2> QED
    BY <2>1
<1>s. \A n \in 1..k : seqs[n] \in Seq(X)
  BY <1>k
<1>one. 1 \in 1..k /\ 1 - 1 = 0
  BY <1>k
<1>3. \A n \in 1..k, y \in Seq(X) : step[n][y] = y \o seqs[n]
  OBVIOUS
<1> HIDE DEF step
<1>4. PICK P \in Walks(k, Seq(X), x, step) : TRUE
  <2>1. Walks(k, Seq(X), x, step) # {}
    BY <1>1, LoopExists
  <2> QED
    BY <2>1
<1>5. /\ P \in [0..k -> Seq(X)] /\ P[0] = <<>>
      /\ \A n \in 1..k : P[n] = step[n][P[n - 1]]
  BY <1>2, <1>4 DEF Walks
<1>6. ASSUME NEW n \in 1..k PROVE P[n] = P[n - 1] \o seqs[n] /\ P[n - 1] \in Seq(X)
  <2>1. P[n - 1] \in Seq(X)
    BY <1>5
  <2> QED
    BY <1>3, <1>5, <2>1
<1> DEFINE Step(f) == [i \in 1..Len(seqs) |-> IF i = 1 THEN seqs[i] ELSE f[i - 1] \o seqs[i]]
           flatten == CHOOSE f : f = Step(f)
           g == [i \in 1..k |-> P[i]]
<1>7. FlattenSeq(seqs) = flatten[Len(seqs)]
  BY <1>k DEF FlattenSeq
<1>8. g = Step(g)
  <2> DEFINE e(i) == IF i = 1 THEN seqs[i] ELSE g[i - 1] \o seqs[i]
  <2>1. ASSUME NEW i \in 1..k PROVE P[i] = e(i)
    <3>1. CASE i = 1
      <4>1. seqs[1] \in Seq(X) /\ P[1] = P[0] \o seqs[1]
        BY <1>s, <1>one, <1>6
      <4>2. P[1] = seqs[1]
        BY <1>5, <4>1
      <4> QED
        BY <3>1, <4>2
    <3>2. CASE i # 1
      <4>1. i - 1 \in 1..k
        BY <3>2
      <4>2. g[i - 1] = P[i - 1]
        BY <4>1
      <4> QED
        BY <1>6, <3>2, <4>2
    <3> QED
      BY <3>1, <3>2
  <2>2. Step(g) = [i \in 1..k |-> e(i)]
    BY <1>k
  <2> HIDE DEF e, Step
  <2> QED
    BY <2>1, <2>2
<1> HIDE DEF g
<1>9. flatten = Step(flatten)
  BY <1>8
<1> HIDE DEF flatten
<1>10. \A i \in 1..k : flatten[i] = IF i = 1 THEN seqs[i] ELSE flatten[i - 1] \o seqs[i]
  BY <1>k, <1>9
<1>11. flatten[k] = P[k]
  <2> DEFINE S == {n \in 0..k : n = 0 \/ flatten[n] = P[n]}
  <2>1. 0 \in S
    OBVIOUS
  <2>2. ASSUME NEW n \in 1..k, n - 1 \in S PROVE n \in S
    <3>1. CASE n = 1
      <4>1. seqs[1] \in Seq(X) /\ P[1] = P[0] \o seqs[1]
        BY <1>s, <1>one, <1>6
      <4>2. P[1] = seqs[1]
        BY <1>5, <4>1
      <4> QED
        BY <1>10, <3>1, <4>2
    <3>2. CASE n # 1
      <4>1. n - 1 # 0
        BY <3>2
      <4>2. flatten[n - 1] = P[n - 1]
        BY <2>2, <4>1
      <4>3. flatten[n] = flatten[n - 1] \o seqs[n]
        BY <1>10, <3>2
      <4>4. flatten[n] = P[n]
        BY <1>6, <4>2, <4>3, Zenon
      <4> QED
        BY <4>4
    <3> QED
      BY <3>1, <3>2
  <2> HIDE DEF S
  <2>3. 0..k \subseteq S
    BY <2>1, <2>2, UpTo
  <2>4. k \in S /\ k # 0
    BY <1>k, <2>3
  <2> QED
    BY <2>4 DEF S
<1>12. Pieces(P, seqs, X)
  BY <1>k, <1>5, <1>6 DEF Pieces
<1> QED
  BY <1>k, <1>7, <1>11, <1>12

(* The text of a line is cells, and some.                                  *)
LEMMA LineTextCells ==
  ASSUME NEW is_CAN \in BOOLEAN, NEW l \in Lines(is_CAN), NEW trailing \in BOOLEAN,
         NEW rest \in Seq(Cells)
  PROVE  /\ LineText(l, trailing) \in Seq(Cells) /\ LineText(l, trailing) \o rest \in Seq(Cells)
         /\ Len(LineText(l, trailing) \o rest) > Len(rest)
<1> DEFINE numbers == l.header \o l.data
           end == IF trailing THEN <<Space, CR>> ELSE <<CR>>
           p == Spaced(numbers) \o end
<1>1. numbers \in Seq(Nat) /\ numbers # <<>>
  BY NumbersAre
<1>2. end \in Seq(Cells) /\ end # <<>>
  <2>1. <<Space, CR>> \in Seq(Cells) /\ <<CR>> \in Seq(Cells)
    BY DEF Cells
  <2>2. <<Space, CR>> # <<>> /\ <<CR>> # <<>>
    OBVIOUS
  <2> QED
    BY <2>1, <2>2
<1> HIDE DEF numbers, end
<1>3. Spaced(numbers) \in Seq(Cells)
  BY <1>1, SpacedIs
<1>4. p \in Seq(Cells)
  BY <1>2, <1>3
<1>5. p \o rest \in Seq(Cells) /\ Len(p \o rest) = 2 * Len(numbers) - 1 + Len(end) + Len(rest)
  BY <1>1, <1>2, LineIn
<1> HIDE DEF p
<1>6. PICK k \in Nat : k = Len(numbers) /\ k > 0
  BY <1>1
<1>7. PICK e \in Nat : e = Len(end)
  BY <1>2
<1>8. PICK m \in Nat : m = Len(rest)
  OBVIOUS
<1>9. Len(p \o rest) > Len(rest)
  <2>1. 2 * k - 1 + e + m > m
    BY <1>6
  <2> QED
    BY <1>5, <1>6, <1>7, <1>8, <2>1
<1>10. p = LineText(l, trailing)
  BY DEF LineText, p, numbers, end
<1> QED
  BY <1>4, <1>5, <1>9, <1>10

(* The text behind n lines.                                                *)
Behinds(Q, lines, trailing, k) ==
    /\ Q \in [0..k -> Seq(Cells)] /\ Q[k] = <<CR, Prompt>>
    /\ \A n \in 1..k : Q[n - 1] = LineText(lines[n], trailing) \o Q[n]
    /\ Q[0] = Text(lines, trailing) /\ Len(Q[0]) >= k

(* From the end, each line is put in front of the text behind it.          *)
LEMMA TextIs ==
  ASSUME NEW is_CAN \in BOOLEAN, NEW lines \in Seq(Lines(is_CAN)), lines # <<>>,
         NEW trailing \in BOOLEAN, NEW k \in Nat, k = Len(lines)
  PROVE  \E Q : Behinds(Q, lines, trailing, k)
<1> DEFINE L(n) == LineText(lines[n], trailing)
           step == [m \in 1..k |-> [q \in Seq(Cells) |-> L(k - m + 1) \o q]]
           seqs == [i \in DOMAIN lines |-> L(i)]
<1>0. k > 0
  OBVIOUS
<1>1. \A n \in 1..k : lines[n] \in Lines(is_CAN)
  OBVIOUS
<1>2. ASSUME NEW n \in 1..k, NEW q \in Seq(Cells)
      PROVE  L(n) \in Seq(Cells) /\ L(n) \o q \in Seq(Cells) /\ Len(L(n) \o q) > Len(q)
  BY <1>1, LineTextCells
<1> HIDE DEF L
<1>3. step \in Steps(k, Seq(Cells))
  <2>1. \A m \in 1..k : k - m + 1 \in 1..k
    OBVIOUS
  <2> QED
    BY <1>2, <2>1 DEF Steps
<1>4. \A m \in 1..k, q \in Seq(Cells) : step[m][q] = L(k - m + 1) \o q
  OBVIOUS
<1>5. PICK x \in Seq(Cells) : x = <<CR, Prompt>>
  <2>1. <<CR, Prompt>> \in Seq(Cells)
    BY DEF Cells
  <2> QED
    BY <2>1
<1>s. \A n \in 1..k : L(n) \in Seq(Cells)
  BY <1>2, <1>5
<1> HIDE DEF step
<1>6. PICK f \in Walks(k, Seq(Cells), x, step) : TRUE
  <2>1. Walks(k, Seq(Cells), x, step) # {}
    BY <1>3, LoopExists
  <2> QED
    BY <2>1
<1>7. /\ f \in [0..k -> Seq(Cells)] /\ f[0] = <<CR, Prompt>>
      /\ \A m \in 1..k : f[m] = step[m][f[m - 1]]
  BY <1>5, <1>6 DEF Walks
<1>8. ASSUME NEW m \in 1..k PROVE f[m] = L(k - m + 1) \o f[m - 1] /\ f[m - 1] \in Seq(Cells)
  <2>0. m - 1 \in 0..k
    OBVIOUS
  <2>1. f[m - 1] \in Seq(Cells)
    BY <1>7, <2>0
  <2> QED
    BY <1>4, <1>7, <2>1
<1>9. \A m \in 0..k : Len(f[m]) >= m
  <2> DEFINE S == {m \in 0..k : Len(f[m]) >= m}
  <2>1. 0 \in S
    BY <1>7
  <2>2. ASSUME NEW m \in 1..k, m - 1 \in S PROVE m \in S
    <3>1. Len(f[m]) > Len(f[m - 1])
      <4>1. k - m + 1 \in 1..k
        OBVIOUS
      <4> QED
        BY <1>2, <1>8, <4>1
    <3>2. Len(f[m]) \in Nat /\ Len(f[m - 1]) \in Nat
      BY <1>7
    <3> QED
      BY <2>2, <3>1, <3>2
  <2> HIDE DEF S
  <2>3. 0..k \subseteq S
    BY <2>1, <2>2, UpTo
  <2> QED
    BY <2>3 DEF S
<1> DEFINE Q == [n \in 0..k |-> f[k - n]]
<1>10. Q \in [0..k -> Seq(Cells)] /\ Q[k] = <<CR, Prompt>> /\ Len(Q[0]) >= k
  <2>1. \A n \in 0..k : k - n \in 0..k
    OBVIOUS
  <2>2. Q[k] = f[0] /\ Q[0] = f[k]
    OBVIOUS
  <2> QED
    BY <1>7, <1>9, <2>1, <2>2
<1>11. ASSUME NEW n \in 1..k PROVE Q[n - 1] = L(n) \o Q[n]
  <2>1. PICK m \in 1..k : m = k - (n - 1)
    <3>1. k - (n - 1) \in 1..k
      OBVIOUS
    <3> QED
      BY <3>1
  <2>2. m - 1 = k - n /\ k - m + 1 = n
    BY <2>1
  <2>3. Q[n - 1] = f[m] /\ Q[n] = f[m - 1]
    BY <2>1, <2>2
  <2> QED
    BY <1>8, <2>2, <2>3
<1> HIDE DEF Q
<1>12. seqs \in Seq(Seq(Cells)) /\ seqs # <<>> /\ Len(seqs) = k /\ \A n \in 1..k : seqs[n] = L(n)
  <2>1. seqs = [i \in 1..k |-> L(i)]
    OBVIOUS
  <2>2. \A i \in 1..k : L(i) \in Seq(Cells)
    BY <1>2, <1>5
  <2> HIDE DEF seqs
  <2>3. seqs \in Seq(Seq(Cells)) /\ Len(seqs) = k
    BY <2>1, <2>2
  <2> QED
    BY <1>0, <2>1, <2>3
<1> HIDE DEF seqs
<1>13. PICK P : Pieces(P, seqs, Cells) /\ FlattenSeq(seqs) = P[Len(seqs)]
  BY <1>12, FlattenIs
<1>14. /\ P \in [0..k -> Seq(Cells)] /\ P[0] = <<>> /\ FlattenSeq(seqs) = P[k]
       /\ \A n \in 1..k : P[n] = P[n - 1] \o L(n)
  BY <1>12, <1>13 DEF Pieces
<1>15. P[k] \o Q[k] = Q[0]
  <2> DEFINE C(n) == P[n] \o Q[n]
             S == {n \in 0..k : C(n) = Q[0]}
  <2>1. C(0) = Q[0]
    <3>1. Q[0] \in Seq(Cells)
      BY <1>10
    <3>2. <<>> \o Q[0] = Q[0]
      BY <3>1
    <3>3. P[0] = <<>>
      BY <1>14
    <3> QED
      BY <3>2, <3>3
  <2>2. ASSUME NEW n \in 1..k PROVE C(n) = C(n - 1)
    <3>0. n \in 0..k /\ n - 1 \in 0..k
      OBVIOUS
    <3>1. PICK p \in Seq(Cells) : p = P[n - 1]
      BY <1>14, <3>0
    <3>2. PICK q \in Seq(Cells) : q = Q[n]
      BY <1>10, <3>0
    <3>3. PICK t \in Seq(Cells) : t = L(n)
      BY <1>s
    <3>4. (p \o t) \o q = p \o (t \o q)
      BY ConcatAssociative, SMTT(30)
    <3>5. P[n] = p \o t /\ Q[n - 1] = t \o q
      BY <1>11, <1>14, <3>1, <3>2, <3>3
    <3> QED
      BY <3>1, <3>2, <3>4, <3>5
  <2> HIDE DEF C
  <2>3. 0 \in S
    BY <2>1
  <2>4. \A n \in 1..k : n - 1 \in S => n \in S
    BY <2>2
  <2> HIDE DEF S
  <2>5. 0..k \subseteq S
    BY <2>3, <2>4, UpTo
  <2>6. k \in S
    BY <2>5
  <2>7. C(k) = Q[0]
    BY <2>6 DEF S
  <2> QED
    BY <2>7 DEF C
<1>16. Text(lines, trailing) = P[k] \o <<CR, Prompt>>
  BY <1>14 DEF Text, seqs, L
<1> QED
  BY <1>10, <1>11, <1>15, <1>16 DEF Behinds, L

-----------------------------------------------------------------------------
(* What the lines say.                                                     *)

(* The bytes of each header, and those of one.                             *)
Maps == UNION {[H -> Seq(Nat)] : H \in SUBSET Nat}
Of(obd_data, h) == IF h \in DOMAIN obd_data THEN obd_data[h] ELSE <<>>

(* A header that has no bytes has none to read.                            *)
LEMMA MapsAre ==
  ASSUME NEW obd_data \in Maps
  PROVE  /\ IsData(obd_data) /\ DOMAIN obd_data \in SUBSET Nat
         /\ \A h : Of(obd_data, h) \in Seq(Nat)
<1>1. PICK H \in SUBSET Nat : obd_data \in [H -> Seq(Nat)]
  BY DEF Maps
<1>2. <<>> \in Seq(Nat)
  OBVIOUS
<1> QED
  BY <1>1, <1>2 DEF IsData, Of

(* At first there is none.                                                 *)
LEMMA NoData == <<>> \in Maps /\ DOMAIN <<>> = {} /\ \A h : Of(<<>>, h) = <<>>
<1>1. DOMAIN <<>> = {} /\ <<>> \in [{} -> Seq(Nat)]
  OBVIOUS
<1> QED
  BY <1>1 DEF Maps, Of

(* What is added is behind what was there, and nothing else changes.       *)
LEMMA AddedIs ==
  ASSUME NEW obd_data \in Maps, NEW header \in Nat, NEW bytes \in Seq(Nat), bytes # <<>>
  PROVE  /\ Added(obd_data, header, bytes) \in Maps
         /\ DOMAIN Added(obd_data, header, bytes) = DOMAIN obd_data \cup {header}
         /\ Of(Added(obd_data, header, bytes), header) = Of(obd_data, header) \o bytes
         /\ \A h : h # header => Of(Added(obd_data, header, bytes), h) = Of(obd_data, h)
<1> DEFINE more(h) == IF h = header THEN bytes ELSE <<>>
           H == DOMAIN obd_data \cup {header}
           new == [h \in H |-> Of(obd_data, h) \o more(h)]
<1>1. Added(obd_data, header, bytes) = new
  BY DEF Added, Of
<1>2. H \in SUBSET Nat /\ \A h : Of(obd_data, h) \in Seq(Nat)
  BY MapsAre
<1>3. \A h : more(h) \in Seq(Nat)
  <2>1. <<>> \in Seq(Nat)
    OBVIOUS
  <2> QED
    BY <2>1
<1>4. \A h : Of(obd_data, h) \o more(h) \in Seq(Nat)
  <2> HIDE DEF more
  <2> SUFFICES ASSUME NEW h PROVE Of(obd_data, h) \o more(h) \in Seq(Nat)
    OBVIOUS
  <2>1. Of(obd_data, h) \in Seq(Nat) /\ more(h) \in Seq(Nat)
    BY <1>2, <1>3
  <2> QED
    BY <2>1
<1>5. DOMAIN new = H /\ \A h \in H : new[h] = Of(obd_data, h) \o more(h)
  <2> HIDE DEF H, more
  <2> QED
    OBVIOUS
<1>6. new \in Maps
  <2>1. new \in [H -> Seq(Nat)]
    <3> HIDE DEF H, more
    <3> QED
      BY <1>4
  <2> HIDE DEF new, H
  <2> QED
    BY <1>2, <2>1 DEF Maps
<1>7. Of(new, header) = Of(obd_data, header) \o bytes
  <2>1. header \in H /\ more(header) = bytes
    OBVIOUS
  <2> HIDE DEF new, H, more
  <2> QED
    BY <1>5, <2>1 DEF Of
<1>8. ASSUME NEW h, h # header PROVE Of(new, h) = Of(obd_data, h)
  <2>1. more(h) = <<>> /\ (h \in H <=> h \in DOMAIN obd_data)
    BY <1>8
  <2>2. Of(obd_data, h) \in Seq(Nat)
    BY <1>2
  <2>3. Of(obd_data, h) \o <<>> = Of(obd_data, h)
    BY <2>2, ConcatEmptySeq
  <2> HIDE DEF new, H, more
  <2>4. CASE h \in H
    <3>1. new[h] = Of(obd_data, h)
      BY <1>5, <2>1, <2>3, <2>4
    <3> QED
      BY <1>5, <2>4, <3>1 DEF Of
  <2>5. CASE h \notin H
    BY <1>5, <2>1, <2>5 DEF Of
  <2> QED
    BY <2>4, <2>5
<1> HIDE DEF new
<1> QED
  BY <1>1, <1>5, <1>6, <1>7, <1>8

(* The data when n lines were read: in the end, what the lines say.        *)
Collects(D, lines, k) ==
    /\ D \in [0..k -> Maps] /\ D[0] = <<>> /\ D[k] = Said(lines)
    /\ \A n \in 1..k : D[n] = Added(D[n - 1], HeaderValue(lines[n].header), lines[n].data)

(* Line by line, the data become what the lines say.                       *)
LEMMA SaidIs ==
  ASSUME NEW is_CAN \in BOOLEAN, NEW lines \in Seq(Lines(is_CAN)), lines # <<>>,
         NEW k \in Nat, k = Len(lines)
  PROVE  \E D : Collects(D, lines, k)
<1> DEFINE hv(n) == HeaderValue(lines[n].header)
           bytes(n) == lines[n].data
           step == [n \in 1..k |-> [x \in Maps |-> Added(x, hv(n), bytes(n))]]
<1>0. k > 0 /\ DOMAIN lines = 1..k
  OBVIOUS
<1>1. \A n \in 1..k : lines[n] \in Lines(is_CAN)
  OBVIOUS
<1>2. ASSUME NEW n \in 1..k PROVE hv(n) \in Nat /\ bytes(n) \in Seq(Nat) /\ bytes(n) # <<>>
  <2>1. lines[n] \in Lines(is_CAN)
    BY <1>1
  <2>2. hv(n) \in Nat /\ bytes(n) \in Seq(Nat)
    BY <2>1, LineIs
  <2>3. bytes(n) # <<>>
    BY <2>1 DEF Lines
  <2> QED
    BY <2>2, <2>3
<1> HIDE DEF hv, bytes
<1>3. step \in Steps(k, Maps)
  <2>1. \A n \in 1..k, x \in Maps : Added(x, hv(n), bytes(n)) \in Maps
    BY <1>2, AddedIs
  <2> QED
    BY <2>1 DEF Steps
<1>4. \A n \in 1..k, x \in Maps : step[n][x] = Added(x, hv(n), bytes(n))
  OBVIOUS
<1> HIDE DEF step
<1>5. PICK x \in Maps : x = <<>>
  BY NoData
<1>6. PICK D \in Walks(k, Maps, x, step) : TRUE
  <2>1. Walks(k, Maps, x, step) # {}
    BY <1>3, LoopExists
  <2> QED
    BY <2>1
<1>7. D \in [0..k -> Maps] /\ D[0] = <<>> /\ \A n \in 1..k : D[n] = step[n][D[n - 1]]
  BY <1>5, <1>6 DEF Walks
<1>8. ASSUME NEW n \in 1..k
      PROVE  /\ n - 1 \in 0..k /\ n \in 0..k /\ D[n - 1] \in Maps
             /\ D[n] = Added(D[n - 1], hv(n), bytes(n))
             /\ DOMAIN D[n] = DOMAIN D[n - 1] \cup {hv(n)}
             /\ Of(D[n], hv(n)) = Of(D[n - 1], hv(n)) \o bytes(n)
             /\ \A h : h # hv(n) => Of(D[n], h) = Of(D[n - 1], h)
  <2>1. n - 1 \in 0..k /\ n \in 0..k
    OBVIOUS
  <2>2. D[n - 1] \in Maps
    BY <1>7, <2>1
  <2>3. D[n] = Added(D[n - 1], hv(n), bytes(n))
    BY <1>4, <1>7, <2>2
  <2>4. PICK o \in Maps : o = D[n - 1]
    BY <2>2
  <2>5. hv(n) \in Nat /\ bytes(n) \in Seq(Nat) /\ bytes(n) # <<>>
    BY <1>2
  <2>6. /\ DOMAIN Added(o, hv(n), bytes(n)) = DOMAIN o \cup {hv(n)}
        /\ Of(Added(o, hv(n), bytes(n)), hv(n)) = Of(o, hv(n)) \o bytes(n)
        /\ \A h : h # hv(n) => Of(Added(o, hv(n), bytes(n)), h) = Of(o, h)
    BY <2>5, AddedIs
  <2> QED
    BY <2>1, <2>2, <2>3, <2>4, <2>6
<1> DEFINE headers(n) == {hv(i) : i \in 1..n}
<1>9. DOMAIN D[k] = headers(k)
  <2> DEFINE S == {n \in 0..k : DOMAIN D[n] = headers(n)}
  <2>1. 0 \in S
    <3>1. DOMAIN D[0] = {}
      BY <1>7, NoData
    <3>2. headers(0) = {}
      OBVIOUS
    <3> QED
      BY <3>1, <3>2
  <2>2. ASSUME NEW n \in 1..k, n - 1 \in S PROVE n \in S
    <3>1. headers(n) = headers(n - 1) \cup {hv(n)}
      <4>1. 1..n = (1..(n - 1)) \cup {n}
        OBVIOUS
      <4> QED
        BY <4>1
    <3>2. DOMAIN D[n] = DOMAIN D[n - 1] \cup {hv(n)} /\ n \in 0..k
      BY <1>8
    <3>3. DOMAIN D[n - 1] = headers(n - 1)
      BY <2>2
    <3> HIDE DEF headers
    <3> QED
      BY <3>1, <3>2, <3>3
  <2> HIDE DEF S
  <2>3. 0..k \subseteq S
    BY <2>1, <2>2, UpTo
  <2>4. k \in S
    BY <2>3
  <2> QED
    BY <2>4 DEF S
<1> DEFINE seqs(h) == [i \in DOMAIN lines |-> IF hv(i) = h THEN bytes(i) ELSE <<>>]
<1>10. ASSUME NEW h PROVE FlattenSeq(seqs(h)) = Of(D[k], h)
  <2> DEFINE q == seqs(h)
             e(i) == IF hv(i) = h THEN bytes(i) ELSE <<>>
  <2>1. \A i \in 1..k : e(i) \in Seq(Nat)
    <3>1. <<>> \in Seq(Nat)
      OBVIOUS
    <3> QED
      BY <1>2, <3>1
  <2>2. q = [i \in 1..k |-> e(i)]
    BY <1>0
  <2> HIDE DEF q
  <2>3. \A i \in 1..k : q[i] = e(i)
    BY <2>2
  <2>4. q \in Seq(Seq(Nat)) /\ Len(q) = k /\ q # <<>>
    <3> HIDE DEF e
    <3>1. q \in Seq(Seq(Nat)) /\ Len(q) = k
      BY <2>1, <2>2
    <3> QED
      BY <1>0, <3>1
  <2>5. PICK P : Pieces(P, q, Nat) /\ FlattenSeq(q) = P[Len(q)]
    BY <2>4, FlattenIs
  <2>6. /\ P \in [0..k -> Seq(Nat)] /\ P[0] = <<>> /\ FlattenSeq(q) = P[k]
        /\ \A n \in 1..k : P[n] = P[n - 1] \o q[n]
    BY <2>4, <2>5 DEF Pieces
  <2> DEFINE O(n) == Of(D[n], h)
             S == {n \in 0..k : O(n) = P[n]}
  <2>7. O(0) = <<>>
    BY <1>7, NoData
  <2>8. ASSUME NEW n \in 1..k, O(n - 1) = P[n - 1] PROVE O(n) = P[n]
    <3>1. CASE hv(n) = h
      <4>1. O(n) = O(n - 1) \o bytes(n)
        BY <1>8, <3>1
      <4>2. P[n] = P[n - 1] \o bytes(n)
        BY <2>3, <2>6, <3>1
      <4> HIDE DEF O
      <4> QED
        BY <2>8, <4>1, <4>2
    <3>2. CASE hv(n) # h
      <4>1. O(n) = O(n - 1)
        BY <1>8, <3>2
      <4>2. P[n] = P[n - 1] \o <<>>
        BY <2>3, <2>6, <3>2
      <4>3. P[n - 1] \in Seq(Nat)
        BY <1>8, <2>6
      <4>4. P[n - 1] \o <<>> = P[n - 1]
        BY <4>3, ConcatEmptySeq
      <4> HIDE DEF O
      <4> QED
        BY <2>8, <4>1, <4>2, <4>4
    <3> QED
      BY <3>1, <3>2
  <2> HIDE DEF O
  <2>9. 0 \in S
    BY <2>6, <2>7
  <2>10. \A n \in 1..k : n - 1 \in S => n \in S
    BY <2>8
  <2> HIDE DEF S
  <2>11. 0..k \subseteq S
    BY <2>9, <2>10, UpTo
  <2>12. k \in S
    BY <2>11
  <2>13. O(k) = P[k]
    BY <2>12 DEF S
  <2> QED
    BY <2>6, <2>13 DEF O, q
<1>11. D[k] = Said(lines)
  <2>1. PICK o \in Maps : o = D[k]
    BY <1>0, <1>7
  <2>2. o = [h \in DOMAIN o |-> o[h]]
    BY MapsAre DEF IsData
  <2>3. \A h \in DOMAIN o : o[h] = FlattenSeq(seqs(h))
    BY <1>10, <2>1 DEF Of
  <2>4. Said(lines) = [h \in headers(k) |-> FlattenSeq(seqs(h))]
    BY <1>0 DEF Said, hv, bytes
  <2> HIDE DEF seqs, headers
  <2> QED
    BY <1>9, <2>1, <2>2, <2>3, <2>4
<1>12. \A n \in 1..k : D[n] = Added(D[n - 1], HeaderValue(lines[n].header), lines[n].data)
  BY <1>8 DEF hv, bytes
<1> QED
  BY <1>7, <1>11, <1>12 DEF Collects

-----------------------------------------------------------------------------
(* What a callback is given.                                               *)

(* Of a text whose lines end in a return, what the lines say.              *)
LEMMA LinesRead ==
  ASSUME NEW is_CAN \in BOOLEAN, NEW lines \in Seq(Lines(is_CAN)), lines # <<>>
  PROVE  string_to_completion(Text(lines, FALSE), is_CAN) = Said(lines)
<1>1. PICK k \in Nat : k = Len(lines)
  OBVIOUS
<1>2. \A n \in 1..k : lines[n] \in Lines(is_CAN)
  BY <1>1
<1>3. PICK Q : Behinds(Q, lines, FALSE, k)
  BY <1>1, TextIs
<1>4. PICK D : Collects(D, lines, k)
  BY <1>1, SaidIs
<1>5. /\ Q \in [0..k -> Seq(Cells)] /\ Q[k] = <<CR, Prompt>>
      /\ \A n \in 1..k : Q[n - 1] = LineText(lines[n], FALSE) \o Q[n]
      /\ Q[0] = Text(lines, FALSE) /\ Len(Q[0]) >= k
  BY <1>3 DEF Behinds
<1>6. /\ D \in [0..k -> Maps] /\ D[0] = <<>> /\ D[k] = Said(lines)
      /\ \A n \in 1..k : D[n] = Added(D[n - 1], HeaderValue(lines[n].header), lines[n].data)
  BY <1>4 DEF Collects
<1>7. PICK N \in Nat : N = Len(Q[0]) + 1 /\ N > k
  <2>1. PICK q \in Seq(Cells) : q = Q[0]
    <3>1. 0 \in 0..k
      OBVIOUS
    <3> QED
      BY <1>5, <3>1
  <2>2. PICK m \in Nat : m = Len(q)
    OBVIOUS
  <2>3. m >= k
    BY <1>5, <2>1, <2>2
  <2>4. m + 1 \in Nat /\ m + 1 > k
    BY <2>3
  <2> QED
    BY <2>1, <2>2, <2>4
<1> DEFINE kept(n) == Going(D[n], Stream(Q[n]))
           end == Over(D[k], Stream(Q[k]))
           g == [n \in 0..N |-> IF n <= k THEN kept(n) ELSE end]
<1>8. ASSUME NEW n \in 1..k PROVE line_turn(kept(n - 1), is_CAN) = kept(n)
  <2>1. n - 1 \in 0..k /\ n \in 0..k
    OBVIOUS
  <2>2. PICK o \in Maps : o = D[n - 1]
    BY <1>6, <2>1
  <2>3. PICK q \in Seq(Cells) : q = Q[n]
    BY <1>5, <2>1
  <2>4. PICK l \in Lines(is_CAN) : l = lines[n]
    BY <1>2
  <2>5. IsData(o)
    BY MapsAre
  <2>6. line_turn(Going(o, Stream(LineText(l, FALSE) \o q)), is_CAN)
          = Going(Added(o, HeaderValue(l.header), l.data), Stream(q))
    BY <2>5, LineKept, ZenonT(60)
  <2>7. Q[n - 1] = LineText(l, FALSE) \o q /\ D[n] = Added(o, HeaderValue(l.header), l.data)
    BY <1>5, <1>6, <2>2, <2>3, <2>4
  <2> QED
    BY <2>2, <2>3, <2>6, <2>7
<1>9. line_turn(kept(k), is_CAN) = end
  BY <1>5, EndTurn
<1>10. line_turn(end, is_CAN) = end
  BY StaysOver
<1> HIDE DEF kept, end
<1>11. g = [n \in 0..N |-> g[n]] /\ g[0] = kept(0) /\ g[N] = end
  BY <1>7
<1>12. ASSUME NEW n \in 1..N PROVE g[n] = line_turn(g[n - 1], is_CAN)
  <2>1. CASE n <= k
    <3>1. g[n] = kept(n) /\ g[n - 1] = kept(n - 1) /\ n \in 1..k
      BY <2>1
    <3> QED
      BY <1>8, <3>1
  <2>2. CASE n = k + 1
    <3>1. g[n] = end /\ g[n - 1] = kept(k)
      BY <2>2
    <3> QED
      BY <1>9, <3>1
  <2>3. CASE n > k + 1
    <3>1. g[n] = end /\ g[n - 1] = end
      BY <2>3
    <3> QED
      BY <1>10, <3>1
  <2> QED
    BY <2>1, <2>2, <2>3
<1> HIDE DEF g
<1> DEFINE text == Text(lines, FALSE)
<1> HIDE DEF text
<1>13. IsTextLoop(g, N, text, is_CAN)
  BY <1>5, <1>6, <1>7, <1>11, <1>12 DEF IsTextLoop, kept, text
<1>14. string_to_completion(text, is_CAN) = g[N].obd_data
  BY <1>13, TextLoopIs
<1>15. end.obd_data = D[k]
  BY DEF end, Over
<1> QED
  BY <1>6, <1>11, <1>14, <1>15 DEF text

(* One line, added to nothing.                                             *)
LEMMA OneLine ==
  ASSUME NEW header \in Nat, NEW bytes \in Seq(Nat), bytes # <<>>
  PROVE  /\ DOMAIN Added(<<>>, header, bytes) = {header}
         /\ Added(<<>>, header, bytes)[header] = bytes
<1>1. PICK o \in Maps : o = <<>>
  BY NoData
<1>2. /\ DOMAIN Added(o, header, bytes) = DOMAIN o \cup {header}
      /\ Of(Added(o, header, bytes), header) = Of(o, header) \o bytes
  BY AddedIs
<1>3. DOMAIN o = {} /\ Of(o, header) = <<>>
  BY <1>1, NoData
<1>4. <<>> \o bytes = bytes
  OBVIOUS
<1> DEFINE A == Added(o, header, bytes)
<1> HIDE DEF A
<1>5. DOMAIN A = {header} /\ Of(A, header) = bytes
  BY <1>2, <1>3, <1>4 DEF A
<1>6. A[header] = bytes
  BY <1>5 DEF Of
<1> QED
  BY <1>1, <1>5, <1>6 DEF A

(* The lines of a reply.                                                   *)
LEMMA FirstLine ==
  ASSUME NEW is_CAN \in BOOLEAN, NEW lines \in Seq(Lines(is_CAN)), lines # <<>>
  PROVE  /\ lines[1] \in Lines(is_CAN) /\ 1 \in 1..Len(lines)
         /\ HeaderValue(lines[1].header) \in Nat
         /\ lines[1].data \in Seq(Nat) /\ lines[1].data # <<>>
<1>1. lines[1] \in Lines(is_CAN) /\ 1 \in 1..Len(lines)
  OBVIOUS
<1>2. lines[1].data # <<>>
  BY <1>1 DEF Lines
<1> QED
  BY <1>1, <1>2, LineIs

(* Of a text whose lines end in a space, the first line's bytes, and more  *)
(* of them.                                                                *)
LEMMA SpacedText ==
  ASSUME NEW is_CAN \in BOOLEAN, NEW lines \in Seq(Lines(is_CAN)), lines # <<>>
  PROVE  \E b \in Seq(Nat) :
           string_to_completion(Text(lines, TRUE), is_CAN)
             = Added(<<>>, HeaderValue(lines[1].header), lines[1].data \o b)
<1>1. PICK k \in Nat : k = Len(lines) /\ k > 0
  OBVIOUS
<1>2. \A n \in 1..k : lines[n] \in Lines(is_CAN)
  BY <1>1
<1>3. PICK Q : Behinds(Q, lines, TRUE, k)
  BY <1>1, TextIs
<1>4. /\ Q \in [0..k -> Seq(Cells)] /\ Q[k] = <<CR, Prompt>>
      /\ \A n \in 1..k : Q[n - 1] = LineText(lines[n], TRUE) \o Q[n]
      /\ Q[0] = Text(lines, TRUE)
  BY <1>3 DEF Behinds
<1> DEFINE A(m) == Airy(Q[k - m])
           S == {m \in 0..k : A(m)}
<1>5. A(0)
  <2>1. Len(<<CR, Prompt>>) = 2 /\ <<CR, Prompt>>[1] = CR /\ <<CR, Prompt>>[2] = Prompt
    OBVIOUS
  <2>2. \A n \in Nat : Number(n) # CR /\ Number(n) # Prompt
    BY CellsDiffer
  <2>3. DOMAIN <<CR, Prompt>> = 1..2
    OBVIOUS
  <2>4. ASSUME NEW i \in 1..2, NEW v \in Nat PROVE <<CR, Prompt>>[i] # Number(v)
    <3>1. i = 1 \/ i = 2
      OBVIOUS
    <3> QED
      BY <2>1, <2>2, <3>1
  <2>5. Airy(<<CR, Prompt>>)
    BY <2>3, <2>4 DEF Airy
  <2>6. k - 0 = k
    OBVIOUS
  <2> QED
    BY <1>4, <2>5, <2>6
<1>6. ASSUME NEW m \in 1..k, A(m - 1) PROVE A(m)
  <2>1. PICK n \in 1..k : n = k - (m - 1)
    <3>1. k - (m - 1) \in 1..k
      OBVIOUS
    <3> QED
      BY <3>1
  <2>2. k - m = n - 1 /\ n \in 0..k
    BY <2>1
  <2>3. PICK q \in Seq(Cells) : q = Q[n]
    BY <1>4, <2>2
  <2>4. PICK l \in Lines(is_CAN) : l = lines[n]
    BY <1>2
  <2>5. Airy(q)
    BY <1>6, <2>1, <2>3
  <2>6. PICK numbers \in Seq(Nat) : numbers = l.header \o l.data /\ numbers # <<>>
    BY NumbersAre
  <2>7. Airy((Spaced(numbers) \o <<Space, CR>>) \o q)
    BY <2>5, <2>6, AirIn
  <2>8. Q[n - 1] = (Spaced(numbers) \o <<Space, CR>>) \o q
    BY <1>4, <2>3, <2>4, <2>6 DEF LineText
  <2> QED
    BY <2>2, <2>7, <2>8
<1> HIDE DEF A
<1>7. 0 \in S
  BY <1>5
<1>8. \A m \in 1..k : m - 1 \in S => m \in S
  BY <1>6
<1> HIDE DEF S
<1>9. 0..k \subseteq S
  BY <1>7, <1>8, UpTo
<1>10. Airy(Q[1])
  <2>1. k - 1 \in 0..k /\ k - (k - 1) = 1
    BY <1>1
  <2>2. A(k - 1)
    BY <1>9, <2>1 DEF S
  <2> QED
    BY <2>1, <2>2 DEF A
<1>11. PICK q \in Seq(Cells) : q = Q[1]
  BY <1>1, <1>4
<1>12. PICK l \in Lines(is_CAN) : l = lines[1]
  BY FirstLine
<1>13. PICK text \in Seq(Cells) : text = Text(lines, TRUE) /\ text = LineText(l, TRUE) \o q
  <2>1. 1 \in 1..k /\ 1 - 1 = 0 /\ 0 \in 0..k
    BY <1>1
  <2>2. Q[0] = LineText(lines[1], TRUE) \o Q[1] /\ Q[0] \in Seq(Cells)
    BY <1>4, <2>1
  <2> QED
    BY <1>4, <1>11, <1>12, <2>2
<1> DEFINE D(b) == Added(<<>>, HeaderValue(l.header), l.data \o b)
<1>14. \E b \in Seq(Nat), s \in Failed :
         line_turn(Going(<<>>, Stream(text)), is_CAN) = Going(D(b), s)
  <2>1. IsData(<<>>)
    BY NoData, MapsAre
  <2>2. Airy(q)
    BY <1>10, <1>11
  <2>3. \E b \in Seq(Nat), s \in Failed :
          line_turn(Going(<<>>, Stream(LineText(l, TRUE) \o q)), is_CAN)
            = Going(Added(<<>>, HeaderValue(l.header), l.data \o b), s)
    <3>1. TurnRunsOn(l, q, <<>>, is_CAN)
      BY <2>1, <2>2, SpacedTurn
    <3> QED
      BY <3>1 DEF TurnRunsOn
  <2> QED
    BY <1>13, <2>3, Zenon
<1> HIDE DEF D
<1>15. PICK b \in Seq(Nat) :
         \E s \in Failed : line_turn(Going(<<>>, Stream(text)), is_CAN) = Going(D(b), s)
  BY <1>14
<1>16. PICK s \in Failed : line_turn(Going(<<>>, Stream(text)), is_CAN) = Going(D(b), s)
  BY <1>15
<1> DEFINE r == Going(D(b), s)
<1>17. line_turn(r, is_CAN) = r
  <2>1. s.fail
    BY DEF Failed
  <2> QED
    BY <2>1, StaysOver
<1>18. r.obd_data = D(b)
  BY DEF Going
<1> HIDE DEF r
<1>19. string_to_completion(text, is_CAN) = r.obd_data
  BY <1>16, <1>17, OneTurn DEF r
<1> QED
  BY <1>12, <1>13, <1>18, <1>19 DEF D

(* Of a line that is cut off, its bytes and one more.                      *)
LEMMA CutText ==
  ASSUME NEW is_CAN \in BOOLEAN, NEW l \in Lines(is_CAN)
  PROVE  string_to_completion(Spaced(l.header \o l.data), is_CAN)
           = Added(<<>>, HeaderValue(l.header), Append(l.data, 0))
<1>1. PICK numbers \in Seq(Nat) : numbers = l.header \o l.data /\ numbers # <<>>
  BY NumbersAre
<1>2. PICK text \in Seq(Cells) : text = Spaced(numbers)
  BY <1>1, SpacedIs
<1> DEFINE D == Added(<<>>, HeaderValue(l.header), Append(l.data, 0))
           r == Going(D, PastEnd)
<1>3. line_turn(Going(<<>>, Stream(text)), is_CAN) = r
  <2>1. IsData(<<>>)
    BY NoData, MapsAre
  <2>2. line_turn(Going(<<>>, Stream(Spaced(l.header \o l.data))), is_CAN)
          = Going(Added(<<>>, HeaderValue(l.header), Append(l.data, 0)), PastEnd)
    BY <2>1, CutTurn
  <2> QED
    BY <1>1, <1>2, <2>2
<1> HIDE DEF D
<1>4. line_turn(r, is_CAN) = r
  <2>1. PastEnd.fail
    BY DEF PastEnd
  <2> QED
    BY <2>1, StaysOver
<1>5. r.obd_data = D
  BY DEF Going
<1> HIDE DEF r
<1>6. string_to_completion(text, is_CAN) = r.obd_data
  BY <1>3, <1>4, OneTurn
<1> QED
  BY <1>1, <1>2, <1>5, <1>6 DEF D

(* Of a text that says nothing, nothing.                                   *)
LEMMA NothingSaid ==
  ASSUME NEW is_CAN \in BOOLEAN, NEW text \in {<<>>, Message}
  PROVE  string_to_completion(text, is_CAN) = <<>>
<1>1. text \in Seq(Cells)
  <2>1. Message \in Seq(Cells)
    BY DEF Message, Cells
  <2>2. <<>> \in Seq(Cells)
    OBVIOUS
  <2> QED
    BY <2>1, <2>2
<1>2. PICK t : line_turn(Going(<<>>, Stream(text)), is_CAN) = Over(<<>>, t)
  <2>1. CASE text = <<>>
    BY <2>1, EmptyTurn
  <2>2. CASE text = Message
    BY <2>2, MessageTurn
  <2> QED
    BY <2>1, <2>2
<1> DEFINE r == Over(<<>>, t)
<1>3. line_turn(r, is_CAN) = r
  BY StaysOver
<1>4. r.obd_data = <<>>
  BY DEF Over
<1> HIDE DEF r
<1>5. line_turn(Going(<<>>, Stream(text)), is_CAN) = r
  BY <1>2 DEF r
<1>6. string_to_completion(text, is_CAN) = r.obd_data
  BY <1>1, <1>3, <1>5, OneTurn
<1> QED
  BY <1>4, <1>6

(* Every reply is read as it was said: of lines that end with a return,    *)
(* the bytes of every header, in order; of lines that end with a space, of *)
(* the first header its bytes, and what runs into them; of a line that is  *)
(* cut off, its bytes and a 0.                                             *)
THEOREM ReadsAnyReply ==
  ASSUME NEW is_CAN \in BOOLEAN, NEW lines \in Seq(Lines(is_CAN)), lines # <<>>
  PROVE  ReadAsSaid(lines, is_CAN)
<1>1. PICK l \in Lines(is_CAN) : l = lines[1]
  BY FirstLine
<1>2. PICK header \in Nat : header = HeaderValue(l.header)
  BY LineIs
<1>3. PICK data \in Seq(Nat) : data = l.data /\ data # <<>>
  BY <1>1, FirstLine
<1> DEFINE spaced == string_to_completion(Text(lines, TRUE), is_CAN)
           cut == string_to_completion(Spaced(l.header \o l.data), is_CAN)
<1>4. string_to_completion(Text(lines, FALSE), is_CAN) = Said(lines)
  BY LinesRead
<1>5. PICK b \in Seq(Nat) : spaced = Added(<<>>, header, data \o b)
  BY <1>1, <1>2, <1>3, SpacedText
<1>6. cut = Added(<<>>, header, Append(data, 0))
  BY <1>2, <1>3, CutText
<1> HIDE DEF spaced, cut
<1>7. PICK more \in Seq(Nat) : more = data \o b /\ more # <<>> /\ IsPrefix(data, more)
  <2>1. data \o b \in Seq(Nat) /\ data \o b # <<>>
    BY <1>3
  <2>2. IsPrefix(data, data \o b)
    <3>1. PICK n \in Nat : n = Len(data)
      OBVIOUS
    <3>2. PICK m \in Nat : m = Len(b)
      OBVIOUS
    <3>3. Len(data \o b) = n + m /\ \A i \in 1..n : (data \o b)[i] = data[i]
      BY <3>1, <3>2
    <3>4. SubSeq(data, 1, n) = SubSeq(data \o b, 1, n)
      BY <2>1, <3>1, <3>3
    <3> QED
      BY <3>1, <3>2, <3>3, <3>4 DEF IsPrefix
  <2> QED
    BY <2>1, <2>2
<1>8. DOMAIN spaced = {header} /\ spaced[header] = more
  BY <1>5, <1>7, OneLine
<1>9. PICK last \in Seq(Nat) : last = Append(data, 0) /\ last # <<>>
  BY ByteBehind
<1>10. DOMAIN cut = {header} /\ cut[header] = last
  BY <1>6, <1>9, OneLine
<1> QED
  BY <1>1, <1>2, <1>3, <1>4, <1>7, <1>8, <1>9, <1>10 DEF ReadAsSaid, spaced, cut

(* What a module answers is a line, ...                                    *)
LEMMA LinesAre ==
  ASSUME NEW is_CAN \in BOOLEAN, NEW c \in Commands
  PROVE  LinesFor(c, is_CAN) \subseteq Lines(is_CAN)
<1>1. Address[c] \in Nat /\ Address[c] > 0
  BY CommandsAssumption
<1>2. ASSUME NEW module \in {Address[c], Address[c] + 1}
      PROVE  /\ HeaderOf(module, is_CAN) \in Seq(Nat)
             /\ Len(HeaderOf(module, is_CAN)) = IF is_CAN THEN 1 ELSE 3
             /\ HeaderValue(HeaderOf(module, is_CAN)) # 0
  <2>1. module \in Nat
    BY <1>1
  <2>2. CASE is_CAN
    <3> DEFINE h == <<2024 + module>>
    <3>0. (IF is_CAN THEN 1 ELSE 3) = 1
      BY <2>2
    <3>1. HeaderOf(module, is_CAN) = h
      BY <2>2 DEF HeaderOf
    <3>2. h \in Seq(Nat) /\ Len(h) = 1 /\ h[1] = 2024 + module
      BY <2>1
    <3> HIDE DEF h
    <3>3. HeaderValue(h) # 0
      BY <2>1, <3>2 DEF HeaderValue
    <3>4. h \in Seq(Nat) /\ Len(h) = (IF is_CAN THEN 1 ELSE 3) /\ HeaderValue(h) # 0
      BY <3>0, <3>2, <3>3
    <3> QED
      BY <3>1, <3>4, Zenon
  <2>3. CASE ~is_CAN
    <3> DEFINE h == <<72, 107, module>>
    <3>1. HeaderOf(module, is_CAN) = h
      BY <2>3 DEF HeaderOf
    <3>2. h \in Seq(Nat) /\ Len(h) = 3 /\ h[1] = 72 /\ h[2] = 107 /\ h[3] = module
      BY <2>1
    <3> HIDE DEF h
    <3>3. HeaderValue(h) # 0
      BY <2>1, <3>2 DEF HeaderValue
    <3> QED
      BY <2>3, <3>1, <3>2, <3>3
  <2> QED
    BY <2>2, <2>3
<1>3. ASSUME NEW data \in {<< 65 >>, <<65, 0, 255>>} PROVE data \in Seq(0..255) /\ data # <<>>
  <2>1. << 65 >> \in Seq(0..255) /\ << 65 >> # <<>>
    OBVIOUS
  <2>2. <<65, 0, 255>> \in Seq(0..255) /\ <<65, 0, 255>> # <<>>
    OBVIOUS
  <2> QED
    BY <2>1, <2>2
<1>4. ASSUME NEW module \in {Address[c], Address[c] + 1}, NEW data \in {<< 65 >>, <<65, 0, 255>>}
      PROVE  Line(HeaderOf(module, is_CAN), data) \in Lines(is_CAN)
  <2> DEFINE h == HeaderOf(module, is_CAN)
  <2>1. /\ h \in Seq(Nat) /\ Len(h) = IF is_CAN THEN 1 ELSE 3
        /\ HeaderValue(h) # 0 /\ data \in Seq(0..255) /\ data # <<>>
    BY <1>2, <1>3, ZenonT(60)
  <2> HIDE DEF h
  <2>2. Line(h, data) \in Lines(is_CAN)
    BY <2>1 DEF Line, Lines
  <2> QED
    BY <2>2 DEF h
<1> QED
  BY <1>4 DEF LinesFor

(* ... and a reply is of such lines.                                       *)
LEMMA RepliesAre ==
  ASSUME NEW is_CAN \in BOOLEAN, NEW c \in Commands, NEW lines \in RepliesTo(c, is_CAN)
  PROVE  lines \in Seq(Lines(is_CAN)) /\ lines # <<>>
<1>1. PICK n \in 1..Rounds : lines \in [1..n -> LinesFor(c, is_CAN)]
  BY DEF RepliesTo
<1>2. n \in Nat /\ n > 0
  BY <1>1, RoundsAssumption
<1>3. lines \in [1..n -> Lines(is_CAN)]
  BY <1>1, LinesAre
<1>4. lines \in Seq(Lines(is_CAN)) /\ Len(lines) = n
  BY <1>2, <1>3
<1> QED
  BY <1>2, <1>4

(* What is in the queue does not matter, nor does the command.             *)
LEMMA AnyReplyRead == ResponsesRead
<1>1. ASSUME NEW is_CAN \in BOOLEAN, NEW text \in {<<>>, Message}
      PROVE  string_to_completion(text, is_CAN) = <<>>
  BY NothingSaid
<1>2. ASSUME NEW is_CAN \in BOOLEAN, NEW c \in Commands, NEW lines \in RepliesTo(c, is_CAN)
      PROVE  ReadAsSaid(lines, is_CAN)
  BY RepliesAre, ReadsAnyReply
<1> QED
  BY <1>1, <1>2 DEF ResponsesRead

(* A callback is given what the text of its response says: in every state, *)
(* of every reply of every command.                                        *)
THEOREM RepliesRead == Spec => []ResponsesRead
<1>1. ResponsesRead
  BY AnyReplyRead
<1> QED
  BY <1>1, PTL

-----------------------------------------------------------------------------
(* The threads of the driver.                                              *)
USE CommandsAssumption, RepliesAssumption

-----------------------------------------------------------------------------
(* Type correctness.  TypeOK is inductive together with what makes         *)
(* get_next_cmd sound: it is called when the queue holds a command, and no *)
(* other thread takes from the queue meanwhile.                            *)
QueueHeld == cmdPc = "take" => m_cmd_queue # <<>>
DataInv == DataTypeOK /\ QueueHeld

(* What a read leaves on the line are replies of the adapter.              *)
LEMMA ExchangeType ==
    ASSUME line \in Seq(Replies), NEW reply \in Replies, NEW response,
           Exchange(reply, response)
    PROVE  line' \in Seq(Replies)
<1>1. PICK arrived \in Arrived(reply) :
        \/ \E n \in 1..Len(arrived) : line' = SubSeq(arrived, n + 1, Len(arrived))
        \/ line' = arrived
  BY DEF Exchange
<1>2. arrived \in Seq(Replies)
  BY <1>1 DEF Arrived
<1>3. CASE line' = arrived
  BY <1>2, <1>3
<1>4. ASSUME NEW n \in 1..Len(arrived), line' = SubSeq(arrived, n + 1, Len(arrived))
      PROVE  line' \in Seq(Replies)
  BY <1>2, <1>4
<1>5. QED
  BY <1>1, <1>3, <1>4

(* The flags are set to TRUE and FALSE only.                               *)
LEMMA FlagsStep == FlagsTypeOK /\ [Next]_vars => FlagsTypeOK'
<1> SUFFICES ASSUME FlagsTypeOK, [Next]_vars PROVE FlagsTypeOK'
  OBVIOUS
<1> USE DEF FlagsTypeOK, stateVars, userVars
<1>1. CASE init_thread
  BY <1>1 DEF init_thread, InitCommand, InitComplete, InitSpawn, InitStore, InitReport
<1>2. CASE command_thread
  BY <1>2 DEF command_thread, ThreadOuter, ThreadAcquire, ThreadInner, ThreadTake,
              ThreadHeader, ThreadSend, ThreadSignal, ThreadExit
<1>3. CASE User \/ SendRelease
  BY <1>3 DEF User, init, disconnect, SendCommand, SendRelease
<1>4. CASE process_event
  BY <1>4 DEF process_event, init_done, command_complete, command_thread_exit, JoinNull
<1>5. CASE UNCHANGED vars
  BY <1>5 DEF vars
<1>6. QED
  BY <1>1, <1>2, <1>3, <1>4, <1>5 DEF Next

(* Every step of every thread keeps the types of the data.                 *)
LEMMA DataStep == DataInv /\ [Next]_vars => DataInv'
<1> SUFFICES ASSUME DataInv, [Next]_vars PROVE DataInv'
  OBVIOUS
<1> USE DEF DataInv, DataTypeOK, QueueHeld, queueVars, stateVars, deviceVars, userVars,
            signal_event, EventNames
<1>1. CASE init_thread
  <2>1. CASE InitCommand
    BY <2>1 DEF InitCommand, InitPcs, InitCommands, AfterInitCommand
  <2>2. CASE InitComplete
    BY <2>2 DEF InitComplete, InitPcs
  <2>3. CASE InitSpawn
    BY <2>3 DEF InitSpawn, InitPcs, CmdPcs
  <2>4. CASE InitStore
    BY <2>4 DEF InitStore, InitPcs
  <2>5. CASE InitReport
    BY <2>5 DEF InitReport, InitPcs
  <2>6. QED
    BY <1>1, <2>1, <2>2, <2>3, <2>4, <2>5 DEF init_thread
<1>2. CASE ThreadOuter \/ ThreadAcquire \/ ThreadSignal \/ ThreadExit
  <2>1. CASE ThreadOuter
    BY <2>1 DEF ThreadOuter, CmdPcs
  <2>2. CASE ThreadAcquire
    BY <2>2 DEF ThreadAcquire, CmdPcs
  <2>3. CASE ThreadSignal
    BY <2>3 DEF ThreadSignal, CmdPcs
  <2>4. CASE ThreadExit
    BY <2>4 DEF ThreadExit, CmdPcs
  <2>5. QED
    BY <1>2, <2>1, <2>2, <2>3, <2>4
<1>3. CASE ThreadInner
  BY <1>3 DEF ThreadInner, EmptyReads, CmdPcs
<1>4. CASE ThreadTake
  BY <1>4 DEF ThreadTake, CmdPcs
<1>5. CASE ThreadHeader
  BY <1>5, ExchangeType DEF ThreadHeader, CmdPcs, Replies
<1>6. CASE ThreadSend
  BY <1>6, ExchangeType DEF ThreadSend, CmdPcs, Replies, Completions
<1>7. CASE User \/ SendRelease
  <2>1. CASE init
    BY <2>1 DEF init, InitPcs, InitCommands
  <2>2. CASE disconnect
    BY <2>2 DEF disconnect
  <2>3. ASSUME NEW c \in Commands, SendCommand(c) PROVE DataInv'
    <3>0. /\ m_cmd_queue' = Append(m_cmd_queue, c) /\ m_cmd_queue \in Seq(Commands)
          /\ accepted' = Append(accepted, c) /\ accepted \in Seq(Commands)
      BY <2>3 DEF SendCommand
    <3>a. \A s \in Seq(Commands) : Append(s, c) \in Seq(Commands) /\ Append(s, c) # <<>>
      <4>1. c \in Commands
        BY <2>3
      <4>2. QED
        BY ONLY <4>1, AppendProperties
    <3>1. m_cmd_queue' \in Seq(Commands) /\ accepted' \in Seq(Commands)
      BY <3>0, <3>a, Zenon
    <3>2. m_cmd_queue' # <<>>
      BY <3>0, <3>a, Zenon
    <3>3. /\ mainPc' = "emplaced"
          /\ UNCHANGED <<m_cmd_semaphore, m_completion_queue, deviceVars, answered, told,
                         events, initPc, cmdPc>>
      BY <2>3 DEF SendCommand
    <3>4. QED
      BY <3>1, <3>2, <3>3
  <2>4. CASE SendRelease
    BY <2>4 DEF SendRelease
  <2>5. QED
    BY <1>7, <2>1, <2>2, <2>3, <2>4 DEF User
<1>8. CASE process_event
  <2>1. CASE init_done
    BY <2>1 DEF init_done, Process
  <2>2. CASE command_complete
    BY <2>2 DEF command_complete, Process
  <2>3. CASE command_thread_exit
    BY <2>3 DEF command_thread_exit, Process
  <2>4. CASE JoinNull
    BY <2>4 DEF JoinNull, Process
  <2>5. QED
    BY <1>8, <2>1, <2>2, <2>3, <2>4 DEF process_event
<1>9. CASE UNCHANGED vars
  BY <1>9 DEF vars
<1>10. QED
  BY <1>1, <1>2, <1>3, <1>4, <1>5, <1>6, <1>7, <1>8, <1>9 DEF Next, command_thread

(* The values of the driver's variables, in every reachable state.         *)
THEOREM TypeCorrect == Spec => [](TypeOK /\ QueueHeld)
<1>1. Init => FlagsTypeOK
  BY DEF Init, FlagsTypeOK
<1>2. Init => DataInv
  BY DEF Init, DataInv, DataTypeOK, QueueHeld, InitPcs, CmdPcs
<1>3. FlagsTypeOK /\ DataInv => TypeOK /\ QueueHeld
  BY DEF DataInv, TypeOK
<1>4. QED
  BY <1>1, <1>2, <1>3, FlagsStep, DataStep, PTL DEF Spec

-----------------------------------------------------------------------------
(* The order of the threads: the command thread is started by init_thread, *)
(* which runs once.                                                        *)
OrderInv ==
    /\ ~m_init_result => initPc = "idle"
    /\ initPc \in InitCommands \cup {"idle", "complete", "spawn"} => cmdPc = "none"

(* Every step keeps the order: a second init is refused.                   *)
LEMMA OrderStep == OrderInv /\ [Next]_vars => OrderInv'
<1> SUFFICES ASSUME OrderInv, [Next]_vars PROVE OrderInv'
  OBVIOUS
<1> USE DEF OrderInv, queueVars, stateVars, deviceVars, userVars, InitCommands
<1>1. CASE init_thread
  BY <1>1 DEF init_thread, InitCommand, InitComplete, InitSpawn, InitStore, InitReport
<1>2. CASE command_thread
  BY <1>2 DEF command_thread, ThreadOuter, ThreadAcquire, ThreadInner, ThreadTake,
              ThreadHeader, ThreadSend, ThreadSignal, ThreadExit
<1>3. CASE User \/ SendRelease
  BY <1>3 DEF User, init, disconnect, SendCommand, SendRelease
<1>4. CASE process_event
  BY <1>4 DEF process_event, init_done, command_complete, command_thread_exit, JoinNull
<1>5. CASE UNCHANGED vars
  BY <1>5 DEF vars
<1>6. QED
  BY <1>1, <1>2, <1>3, <1>4, <1>5 DEF Next

-----------------------------------------------------------------------------
(* No lost wakeup.  WakeupPending is inductive once it also covers the     *)
(* time before the command thread is started: a command queued then must   *)
(* leave the semaphore released for a thread that does not exist yet.      *)
WakeupInv ==
    /\ /\ cmdPc \in {"none", "outer", "acquire"} /\ m_cmd_queue # <<>>
       /\ ~m_disconnect_in_progress
       => m_cmd_semaphore > 0 \/ mainPc = "emplaced"
    /\ cmdPc = "acquire" /\ m_disconnect_in_progress => m_cmd_semaphore > 0

(* Every step keeps a wakeup on its way.                                   *)
LEMMA WakeupStep == DataTypeOK /\ OrderInv /\ WakeupInv /\ [Next]_vars => WakeupInv'
<1> SUFFICES ASSUME DataTypeOK, OrderInv, WakeupInv, [Next]_vars PROVE WakeupInv'
  OBVIOUS
<1>1. m_cmd_semaphore \in Nat
  BY DEF DataTypeOK
<1> USE DEF WakeupInv, queueVars, stateVars, deviceVars, userVars
<1>2. CASE init_thread
  <2>1. CASE InitSpawn
    BY <2>1 DEF InitSpawn, OrderInv
  <2>2. CASE ~InitSpawn
    BY <1>2, <2>2 DEF init_thread, InitCommand, InitComplete, InitStore, InitReport
  <2>3. QED
    BY <2>1, <2>2
<1>3. CASE ThreadOuter \/ ThreadAcquire \/ ThreadInner \/ ThreadTake
  <2>1. CASE ThreadOuter
    BY <2>1 DEF ThreadOuter
  <2>2. CASE ThreadAcquire
    BY <2>2 DEF ThreadAcquire
  <2>3. CASE ThreadInner
    BY <2>3 DEF ThreadInner, EmptyReads
  <2>4. CASE ThreadTake
    BY <2>4 DEF ThreadTake
  <2>5. QED
    BY <1>3, <2>1, <2>2, <2>3, <2>4
<1>4. CASE ThreadHeader \/ ThreadSend \/ ThreadSignal \/ ThreadExit
  <2>1. cmdPc' \in {"send", "signal", "inner", "finished"}
    BY <1>4 DEF ThreadHeader, ThreadSend, ThreadSignal, ThreadExit
  <2>2. QED
    BY <2>1
<1>5. CASE User
  BY <1>1, <1>5 DEF User, init, disconnect, SendCommand
<1>6. CASE SendRelease
  BY <1>1, <1>6 DEF SendRelease
<1>7. CASE process_event
  BY <1>7 DEF process_event, init_done, command_complete, command_thread_exit, JoinNull,
              Process
<1>8. CASE UNCHANGED vars
  BY <1>8 DEF vars
<1>9. QED
  BY <1>2, <1>3, <1>4, <1>5, <1>6, <1>7, <1>8 DEF Next, command_thread

(* The command thread never sleeps on the semaphore while a command is     *)
(* queued or a disconnection is in progress, unless its wakeup is on its   *)
(* way: Elm327::send_command and disconnect release what it waits for.     *)
THEOREM NoLostWakeup == Spec => []WakeupPending
<1>1. Init => WakeupInv
  BY DEF Init, WakeupInv
<1>2. WakeupInv => WakeupPending
  BY DEF WakeupInv, WakeupPending
<1>3. TypeOK => DataTypeOK
  BY DEF TypeOK
<1>4. Init => OrderInv
  BY DEF Init, OrderInv
<1>5. QED
  BY <1>1, <1>2, <1>3, <1>4, TypeCorrect, OrderStep, WakeupStep, PTL DEF Spec

-----------------------------------------------------------------------------
(* The handlers find their state.  What an event promises its handler is   *)
(* tied to the places of the threads that signal: InitDone is on its way   *)
(* once, from the end of init_thread until init_done; CommandThreadExit is *)
(* the last event of the command thread; and every other event on its way  *)
(* has its completion in the queue, which CountInv counts.                 *)
InitPending == initPc = "done" /\ m_init_callback
ExitPending == cmdPc = "finished" /\ ~closed
SignalPending == cmdPc = "signal"

FlowInv ==
    /\ initPc \notin {"idle", "done"} => m_init_callback
    /\ m_disconnect_in_progress \/ cmdPc \in {"exit", "finished"} => m_disconnect_callback
    /\ closed => cmdPc = "finished"
    /\ mainPc = "crashed" => cmdPc = "finished"

InitDoneInv ==
    /\ \A i \in DOMAIN events : events[i] = "InitDone" => InitPending
    /\ \A i, j \in DOMAIN events : events[i] = "InitDone" /\ events[j] = "InitDone" => i = j
    /\ InitPending => \E i \in DOMAIN events : events[i] = "InitDone"

ThreadExitInv ==
    /\ \A i \in DOMAIN events : events[i] = "CommandThreadExit" => ExitPending
    /\ \A i, j \in DOMAIN events :
         events[i] = "CommandThreadExit" /\ i < j => events[j] = "InitDone"
    /\ mainPc = "crashed" => \A i \in DOMAIN events : events[i] = "InitDone"
    /\ ExitPending /\ mainPc # "crashed" =>
         \E i \in DOMAIN events : events[i] = "CommandThreadExit"

EventsInv == InitDoneInv /\ ThreadExitInv

One(condition) == IF condition THEN 1 ELSE 0

CountInv ==
    mainPc # "crashed" =>
        Len(m_completion_queue) + One(InitPending) + One(ExitPending)
          = Len(events) + One(SignalPending)

HandlersInv == FlowInv /\ EventsInv /\ CountInv

(* The events on their way after one more was signalled ...                *)
LEMMA Signalled ==
    ASSUME NEW e, events \in Seq(EventNames), events' = Append(events, e)
    PROVE  /\ \A i \in DOMAIN events : i \in DOMAIN events' /\ events'[i] = events[i]
           /\ \A i \in DOMAIN events' : \/ i \in DOMAIN events /\ events'[i] = events[i]
                                        \/ i = Len(events) + 1 /\ events'[i] = e
           /\ Len(events) + 1 \in DOMAIN events' /\ events'[Len(events) + 1] = e
           /\ \A i \in DOMAIN events : i \in Nat /\ i <= Len(events)
  OBVIOUS

(* ... and after the first one was taken.                                  *)
LEMMA Processed ==
    ASSUME NEW e, events \in Seq(EventNames), Process(e)
    PROVE  /\ 1 \in DOMAIN events /\ events[1] = e
           /\ Len(events') = Len(events) - 1 /\ events' \in Seq(EventNames)
           /\ \A i \in DOMAIN events' : /\ i \in Nat /\ i + 1 \in DOMAIN events
                                       /\ events'[i] = events[i + 1]
           /\ \A i \in DOMAIN events : i > 1 => /\ i \in Nat /\ i - 1 \in DOMAIN events'
                                               /\ events[i] = events'[i - 1]
  BY DEF Process

(* Every step keeps the callbacks where the threads expect them.           *)
LEMMA FlowStep ==
    DataTypeOK /\ OrderInv /\ FlowInv /\ EventsInv /\ [Next]_vars => FlowInv'
<1> SUFFICES ASSUME DataTypeOK, OrderInv, FlowInv, EventsInv, [Next]_vars PROVE FlowInv'
  OBVIOUS
<1> USE DEF FlowInv, queueVars, stateVars, deviceVars, userVars
<1>1. CASE init_thread
  <2>1. /\ m_init_callback
        /\ UNCHANGED <<m_init_callback, m_disconnect_in_progress, m_disconnect_callback,
                       closed, mainPc>>
    BY <1>1 DEF init_thread, InitCommands, InitCommand, InitComplete, InitSpawn, InitStore,
                InitReport
  <2>2. cmdPc' = cmdPc \/ (cmdPc = "none" /\ cmdPc' = "outer")
    BY <1>1 DEF init_thread, InitCommand, InitComplete, InitSpawn, InitStore, InitReport,
                OrderInv
  <2>3. QED
    BY <2>1, <2>2
<1>2. CASE command_thread
  BY <1>2 DEF command_thread, ThreadOuter, ThreadAcquire, ThreadInner, ThreadTake,
              ThreadHeader, ThreadSend, ThreadSignal, ThreadExit
<1>3. CASE User \/ SendRelease
  BY <1>3 DEF User, init, disconnect, SendCommand, SendRelease, UserMayCall
<1>4. CASE process_event
  <2>1. events \in Seq(EventNames)
    BY DEF DataTypeOK
  <2>2. CASE init_done
    BY <2>1, <2>2, Processed DEF init_done, EventsInv, InitDoneInv, InitPending
  <2>3. CASE command_complete
    BY <2>3 DEF command_complete
  <2>4. CASE command_thread_exit
    BY <2>4 DEF command_thread_exit
  <2>5. CASE JoinNull
    BY <2>1, <2>5, Processed DEF JoinNull, EventsInv, ThreadExitInv, ExitPending
  <2>6. QED
    BY <1>4, <2>2, <2>3, <2>4, <2>5 DEF process_event
<1>5. CASE UNCHANGED vars
  BY <1>5 DEF vars
<1>6. QED
  BY <1>1, <1>2, <1>3, <1>4, <1>5 DEF Next

(* Every step keeps the events on their way tied to the threads.           *)
LEMMA EventsStep ==
    DataTypeOK /\ OrderInv /\ FlowInv /\ EventsInv /\ [Next]_vars => EventsInv'
<1> SUFFICES ASSUME DataTypeOK, OrderInv, FlowInv, EventsInv, [Next]_vars PROVE EventsInv'
  OBVIOUS
<1>0. events \in Seq(EventNames)
  BY DEF DataTypeOK
<1> USE DEF EventsInv, InitDoneInv, ThreadExitInv
<1>1. CASE InitReport
  <2>1. /\ events' = Append(events, "InitDone") /\ initPc = "report" /\ initPc' = "done"
        /\ UNCHANGED <<m_init_callback, mainPc, cmdPc, closed>>
    BY <1>1 DEF InitReport, signal_event, stateVars, userVars
  <2>2. InitPending' /\ ~InitPending /\ (ExitPending' <=> ExitPending)
    BY <2>1 DEF InitPending, ExitPending, FlowInv
  <2>3. InitDoneInv'
    BY <1>0, <2>1, <2>2, Signalled
  <2>4. ThreadExitInv'
    BY <1>0, <2>1, <2>2, Signalled
  <2>5. QED
    BY <2>3, <2>4
<1>2. CASE ThreadSignal
  <2>1. /\ events' = Append(events, "CommandComplete") /\ cmdPc = "signal" /\ cmdPc' = "inner"
        /\ UNCHANGED <<m_init_callback, mainPc, initPc, closed>>
    BY <1>2 DEF ThreadSignal, signal_event, stateVars, userVars
  <2>2. ~ExitPending /\ ~ExitPending' /\ mainPc # "crashed" /\ (InitPending' <=> InitPending)
    BY <2>1 DEF InitPending, ExitPending, FlowInv
  <2>3. InitDoneInv'
    BY <1>0, <2>1, <2>2, Signalled
  <2>4. ThreadExitInv'
    BY <1>0, <2>1, <2>2, Signalled
  <2>5. QED
    BY <2>3, <2>4
<1>3. CASE ThreadExit
  <2>1. /\ events' = Append(events, "CommandThreadExit") /\ cmdPc = "exit" /\ cmdPc' = "finished"
        /\ UNCHANGED <<m_init_callback, mainPc, initPc, closed>>
    BY <1>3 DEF ThreadExit, signal_event, stateVars, userVars
  <2>2. ~ExitPending /\ ExitPending' /\ mainPc # "crashed" /\ (InitPending' <=> InitPending)
    BY <2>1 DEF InitPending, ExitPending, FlowInv
  <2>3. InitDoneInv'
    BY <1>0, <2>1, <2>2, Signalled
  <2>4. ThreadExitInv'
    BY <1>0, <2>1, <2>2, Signalled
  <2>5. QED
    BY <2>3, <2>4
<1>4. CASE process_event
  <2>1. CASE init_done
    <3>1. Process("InitDone") /\ ~InitPending' /\ (ExitPending' <=> ExitPending) /\ mainPc' = mainPc
      BY <2>1 DEF init_done, InitPending, ExitPending
    <3>2. InitDoneInv'
      BY <1>0, <3>1, Processed
    <3>3. ThreadExitInv'
      BY <1>0, <3>1, Processed
    <3>4. QED
      BY <3>2, <3>3
  <2>2. CASE command_complete
    <3>1. /\ Process("CommandComplete") /\ (InitPending' <=> InitPending)
          /\ (ExitPending' <=> ExitPending) /\ mainPc' = mainPc
      BY <2>2 DEF command_complete, InitPending, ExitPending, stateVars
    <3>2. \A i \in DOMAIN events : events[i] = "InitDone" =>
            i > 1 /\ i - 1 \in DOMAIN events' /\ events'[i - 1] = "InitDone"
      BY <1>0, <3>1, Processed
    <3>3. InitDoneInv'
      BY <1>0, <3>1, <3>2, Processed
    <3>4. ThreadExitInv'
      BY <1>0, <3>1, Processed
    <3>5. QED
      BY <3>3, <3>4
  <2>3. CASE command_thread_exit
    <3>1. /\ Process("CommandThreadExit") /\ (InitPending' <=> InitPending)
          /\ ~ExitPending' /\ mainPc' = mainPc
      BY <2>3 DEF command_thread_exit, InitPending, ExitPending
    <3>2. InitDoneInv'
      BY <1>0, <3>1, Processed
    <3>3. ThreadExitInv'
      BY <1>0, <3>1, Processed
    <3>4. QED
      BY <3>2, <3>3
  <2>4. CASE JoinNull
    <3>1. /\ Process("CommandThreadExit") /\ (InitPending' <=> InitPending)
          /\ (ExitPending' <=> ExitPending) /\ mainPc' = "crashed"
      BY <2>4 DEF JoinNull, InitPending, ExitPending, stateVars, userVars
    <3>2. InitDoneInv'
      BY <1>0, <3>1, Processed
    <3>3. ThreadExitInv'
      BY <1>0, <3>1, Processed
    <3>4. QED
      BY <3>2, <3>3
  <2>5. QED
    BY <1>4, <2>1, <2>2, <2>3, <2>4 DEF process_event
<1>5. CASE /\ events' = events /\ (InitPending' <=> InitPending) /\ (ExitPending' <=> ExitPending)
           /\ (mainPc' = "crashed" <=> mainPc = "crashed")
  BY <1>5
<1>6. CASE init_thread /\ ~InitReport
  <2>1. /\ events' = events /\ initPc # "done" /\ initPc' # "done"
        /\ UNCHANGED <<cmdPc, closed, mainPc>> \/ (cmdPc = "none" /\ cmdPc' = "outer" /\ mainPc' = mainPc)
    BY <1>6 DEF init_thread, InitCommand, InitComplete, InitSpawn, InitStore, InitCommands,
                AfterInitCommand, OrderInv, userVars
  <2>2. QED
    BY <1>5, <2>1 DEF InitPending, ExitPending
<1>7. CASE command_thread /\ ~ThreadSignal /\ ~ThreadExit
  <2>1. /\ events' = events /\ cmdPc # "finished" /\ cmdPc' # "finished"
        /\ UNCHANGED <<initPc, m_init_callback, mainPc>>
    BY <1>7 DEF command_thread, ThreadOuter, ThreadAcquire, ThreadInner, ThreadTake,
                ThreadHeader, ThreadSend, stateVars
  <2>2. QED
    BY <1>5, <2>1 DEF InitPending, ExitPending
<1>8. CASE init
  <2>1. /\ events' = events /\ initPc # "done" /\ initPc' # "done"
        /\ UNCHANGED <<cmdPc, closed, mainPc>>
    BY <1>8 DEF init, OrderInv, userVars
  <2>2. QED
    BY <1>5, <2>1 DEF InitPending, ExitPending
<1>9. CASE (User /\ ~init) \/ SendRelease \/ UNCHANGED vars
  <2>1. /\ UNCHANGED <<events, initPc, m_init_callback, cmdPc, closed>>
        /\ mainPc' = "crashed" <=> mainPc = "crashed"
    BY <1>9 DEF User, SendCommand, disconnect, SendRelease, UserMayCall, vars, stateVars,
                userVars
  <2>2. QED
    BY <1>5, <2>1 DEF InitPending, ExitPending
<1>10. QED
  BY <1>1, <1>2, <1>3, <1>4, <1>6, <1>7, <1>8, <1>9 DEF Next, init_thread, command_thread

(* The first event on its way finds what its handler uses.                 *)
LEMMA NothingLost ==
    ASSUME DataTypeOK, FlowInv, EventsInv, CountInv, events # <<>>
    PROVE  /\ Head(events) = "InitDone" => m_init_callback
           /\ Head(events) = "CommandComplete" => m_completion_queue # <<>>
           /\ Head(events) = "CommandThreadExit" =>
                m_disconnect_callback /\ m_completion_queue = <<>>
<1>1. /\ events \in Seq(EventNames) /\ m_completion_queue \in Seq(Completions)
      /\ Len(m_completion_queue) \in Nat /\ Len(events) \in Nat
  BY DEF DataTypeOK
<1>2. 1 \in DOMAIN events /\ events[1] = Head(events)
  BY <1>1
<1>3. /\ One(InitPending) \in {0, 1} /\ One(ExitPending) \in {0, 1}
      /\ One(SignalPending) \in {0, 1}
  BY DEF One
<1>4. ASSUME Head(events) = "InitDone" PROVE m_init_callback
  BY <1>2, <1>4 DEF EventsInv, InitDoneInv, InitPending
<1>5. ASSUME Head(events) = "CommandComplete" PROVE m_completion_queue # <<>>
  <2>1. mainPc # "crashed"
    BY <1>2, <1>5 DEF EventsInv, ThreadExitInv
  <2>2. InitPending => \E i \in DOMAIN events : i > 1 /\ events[i] = "InitDone"
    BY <1>1, <1>2, <1>5 DEF EventsInv, InitDoneInv
  <2>3. ExitPending => \E i \in DOMAIN events : i > 1 /\ events[i] = "CommandThreadExit"
    BY <1>1, <1>2, <1>5, <2>1 DEF EventsInv, ThreadExitInv
  <2>4. Len(events) > One(InitPending) + One(ExitPending)
    <3>1. CASE InitPending /\ ExitPending
      <4>1. PICK i \in DOMAIN events : i > 1 /\ events[i] = "InitDone"
        BY <2>2, <3>1
      <4>2. PICK j \in DOMAIN events : j > 1 /\ events[j] = "CommandThreadExit"
        BY <2>3, <3>1
      <4>3. i # j /\ i \in 1..Len(events) /\ j \in 1..Len(events)
        BY <1>1, <4>1, <4>2
      <4>4. Len(events) > 2
        BY <1>1, <4>1, <4>2, <4>3
      <4>5. QED
        BY <3>1, <4>4 DEF One
    <3>2. CASE InitPending /\ ~ExitPending
      BY <1>1, <2>2, <3>2 DEF One
    <3>3. CASE ~InitPending /\ ExitPending
      BY <1>1, <2>3, <3>3 DEF One
    <3>4. CASE ~InitPending /\ ~ExitPending
      BY <1>1, <1>2, <3>4 DEF One
    <3>5. QED
      BY <3>1, <3>2, <3>3, <3>4
  <2>5. Len(m_completion_queue) > 0
    BY <1>1, <1>3, <2>1, <2>4 DEF CountInv
  <2>6. QED
    BY <1>1, <2>5
<1>6. ASSUME Head(events) = "CommandThreadExit"
      PROVE  m_disconnect_callback /\ m_completion_queue = <<>>
  <2>1. ExitPending /\ mainPc # "crashed"
    BY <1>2, <1>6 DEF EventsInv, ThreadExitInv
  <2>2. m_disconnect_callback
    BY <2>1 DEF FlowInv, ExitPending
  <2>3. \A i \in DOMAIN events : i > 1 => events[i] = "InitDone"
    BY <1>2, <1>6 DEF EventsInv, ThreadExitInv
  <2>4. Len(events) <= 2
    <3>1. SUFFICES ASSUME Len(events) > 2 PROVE FALSE
      BY <1>1
    <3>2. 2 \in DOMAIN events /\ 3 \in DOMAIN events
      BY <1>1, <3>1
    <3>3. QED
      BY <2>3, <3>2 DEF EventsInv, InitDoneInv
  <2>5. Len(events) = 2 => InitPending
    BY <1>1, <2>3 DEF EventsInv, InitDoneInv
  <2>6. Len(events) >= 1 /\ cmdPc # "signal"
    BY <1>1, <1>2, <2>1 DEF ExitPending
  <2>7. Len(m_completion_queue) = 0
    <3>1. One(ExitPending) = 1 /\ One(SignalPending) = 0
      BY <2>1, <2>6 DEF One, SignalPending
    <3>2. Len(events) = 2 => One(InitPending) = 1
      BY <2>5 DEF One
    <3>3. Len(m_completion_queue) + One(InitPending) + One(ExitPending)
            = Len(events) + One(SignalPending)
      BY <2>1 DEF CountInv
    <3>4. QED
      BY <1>1, <1>3, <2>4, <2>6, <3>1, <3>2, <3>3
  <2>8. m_completion_queue = <<>>
    BY <1>1, <2>7, EmptySeq
  <2>9. QED
    BY <2>2, <2>8
<1>7. QED
  BY <1>4, <1>5, <1>6

(* Every step keeps the count of completions.                              *)
LEMMA CountStep == DataTypeOK /\ OrderInv /\ HandlersInv /\ [Next]_vars => CountInv'
<1> SUFFICES ASSUME DataTypeOK, OrderInv, HandlersInv, [Next]_vars, mainPc' # "crashed"
             PROVE  Len(m_completion_queue') + One(InitPending') + One(ExitPending')
                      = Len(events') + One(SignalPending')
  BY DEF CountInv
<1>0. /\ events \in Seq(EventNames) /\ m_completion_queue \in Seq(Completions)
      /\ Len(m_completion_queue) \in Nat /\ Len(events) \in Nat
  BY DEF DataTypeOK
<1>1. FlowInv /\ EventsInv /\ CountInv
  BY DEF HandlersInv
<1>2. mainPc # "crashed"
  BY DEF Next, init_thread, InitCommand, InitComplete, InitSpawn, InitStore, InitReport,
         command_thread, ThreadOuter, ThreadAcquire, ThreadInner, ThreadTake, ThreadHeader,
         ThreadSend, ThreadSignal, ThreadExit, User, init, disconnect, SendCommand,
         UserMayCall, SendRelease, process_event, init_done, command_complete,
         command_thread_exit, JoinNull, Process, vars
<1>3. Len(m_completion_queue) + One(InitPending) + One(ExitPending)
        = Len(events) + One(SignalPending)
  BY <1>1, <1>2 DEF CountInv
<1>4. One(InitPending) \in {0, 1} /\ One(ExitPending) \in {0, 1} /\ One(SignalPending) \in {0, 1}
  BY DEF One
<1>5. CASE InitReport
  <2>1. /\ events' = Append(events, "InitDone") /\ m_completion_queue' = m_completion_queue
        /\ One(InitPending) = 0 /\ One(InitPending') = 1
        /\ One(ExitPending') = One(ExitPending) /\ One(SignalPending') = One(SignalPending)
    BY <1>1, <1>5 DEF InitReport, signal_event, queueVars, stateVars, userVars, FlowInv,
                      InitPending, ExitPending, SignalPending, One
  <2>2. QED
    BY <1>0, <1>3, <1>4, <2>1
<1>6. CASE ThreadSignal
  <2>1. /\ events' = Append(events, "CommandComplete")
        /\ m_completion_queue' = m_completion_queue
        /\ One(SignalPending) = 1 /\ One(SignalPending') = 0
        /\ One(InitPending') = One(InitPending) /\ One(ExitPending') = One(ExitPending)
    BY <1>6 DEF ThreadSignal, signal_event, queueVars, stateVars, userVars,
                InitPending, ExitPending, SignalPending, One
  <2>2. QED
    BY <1>0, <1>3, <1>4, <2>1
<1>7. CASE ThreadExit
  <2>1. /\ events' = Append(events, "CommandThreadExit")
        /\ m_completion_queue' = m_completion_queue
        /\ One(ExitPending) = 0 /\ One(ExitPending') = 1
        /\ One(InitPending') = One(InitPending) /\ One(SignalPending') = One(SignalPending)
    BY <1>1, <1>7 DEF ThreadExit, signal_event, queueVars, stateVars, userVars, FlowInv,
                      InitPending, ExitPending, SignalPending, One
  <2>2. QED
    BY <1>0, <1>3, <1>4, <2>1
<1>8. CASE ThreadSend
  <2>1. /\ events' = events /\ One(SignalPending) = 0 /\ One(SignalPending') = 1
        /\ One(InitPending') = One(InitPending) /\ One(ExitPending') = One(ExitPending)
    BY <1>8 DEF ThreadSend, stateVars, userVars, InitPending, ExitPending, SignalPending, One
  <2>2. PICK completion : m_completion_queue' = Append(m_completion_queue, completion)
    BY <1>8 DEF ThreadSend
  <2>3. Len(m_completion_queue') = Len(m_completion_queue) + 1
    BY <1>0, <2>2
  <2>4. QED
    BY <1>0, <1>3, <1>4, <2>1, <2>3
<1>9. CASE init_done
  <2>1. /\ Process("InitDone") /\ m_completion_queue' = m_completion_queue
        /\ One(InitPending') = 0 /\ One(ExitPending') = One(ExitPending)
        /\ One(SignalPending') = One(SignalPending)
    BY <1>9 DEF init_done, queueVars, InitPending, ExitPending, SignalPending, One
  <2>2. One(InitPending) = 1
    BY <1>0, <1>1, <2>1, Processed DEF EventsInv, InitDoneInv, One
  <2>3. Len(events') = Len(events) - 1
    BY <1>0, <2>1, Processed
  <2>4. QED
    BY <1>0, <1>3, <1>4, <2>1, <2>2, <2>3
<1>10. CASE command_complete
  <2>1. /\ Process("CommandComplete") /\ One(InitPending') = One(InitPending)
        /\ One(ExitPending') = One(ExitPending) /\ One(SignalPending') = One(SignalPending)
    BY <1>10 DEF command_complete, stateVars, InitPending, ExitPending, SignalPending, One
  <2>2. Len(events') = Len(events) - 1
    BY <1>0, <2>1, Processed
  <2>3. Len(m_completion_queue') = Len(m_completion_queue) - 1
    BY <1>0, <1>10 DEF command_complete
  <2>4. QED
    BY <1>0, <1>3, <1>4, <2>1, <2>2, <2>3
<1>11. CASE command_thread_exit
  <2>1. /\ Process("CommandThreadExit") /\ One(InitPending') = One(InitPending)
        /\ One(ExitPending') = 0 /\ One(SignalPending') = One(SignalPending)
        /\ m_completion_queue' = <<>>
    BY <1>11 DEF command_thread_exit, InitPending, ExitPending, SignalPending, One
  <2>2. One(ExitPending) = 1
    BY <1>0, <1>1, <2>1, Processed DEF EventsInv, ThreadExitInv, One
  <2>3. m_completion_queue = <<>>
    BY <1>1, <2>1, NothingLost DEF Process
  <2>4. Len(events') = Len(events) - 1
    BY <1>0, <2>1, Processed
  <2>5. QED
    BY <1>0, <1>3, <1>4, <2>1, <2>2, <2>3, <2>4
<1>12. CASE /\ events' = events /\ m_completion_queue' = m_completion_queue
            /\ (InitPending' <=> InitPending) /\ (ExitPending' <=> ExitPending)
            /\ (SignalPending' <=> SignalPending)
  BY <1>3, <1>12 DEF One
<1>13. CASE init_thread /\ ~InitReport
  <2>1. /\ events' = events /\ m_completion_queue' = m_completion_queue
        /\ initPc # "done" /\ initPc' # "done" /\ closed' = closed
        /\ cmdPc' = cmdPc \/ (cmdPc = "none" /\ cmdPc' = "outer")
    BY <1>13 DEF init_thread, InitCommand, InitComplete, InitSpawn, InitStore, InitCommands,
                 AfterInitCommand, OrderInv, userVars, queueVars
  <2>2. QED
    BY <1>12, <2>1 DEF InitPending, ExitPending, SignalPending
<1>14. CASE command_thread /\ ~ThreadSignal /\ ~ThreadExit /\ ~ThreadSend
  <2>1. /\ events' = events /\ m_completion_queue' = m_completion_queue
        /\ cmdPc \notin {"finished", "signal"} /\ cmdPc' \notin {"finished", "signal"}
        /\ UNCHANGED <<initPc, m_init_callback>>
    BY <1>14 DEF command_thread, ThreadOuter, ThreadAcquire, ThreadInner, ThreadTake,
                 ThreadHeader, stateVars, queueVars
  <2>2. QED
    BY <1>12, <2>1 DEF InitPending, ExitPending, SignalPending
<1>15. CASE init
  <2>1. /\ events' = events /\ m_completion_queue' = m_completion_queue
        /\ initPc # "done" /\ initPc' # "done" /\ UNCHANGED <<cmdPc, closed>>
    BY <1>15 DEF init, OrderInv, userVars, queueVars
  <2>2. QED
    BY <1>12, <2>1 DEF InitPending, ExitPending, SignalPending
<1>16. CASE (User /\ ~init) \/ SendRelease \/ UNCHANGED vars
  <2>1. UNCHANGED <<events, m_completion_queue, initPc, m_init_callback, cmdPc, closed>>
    BY <1>16 DEF User, SendCommand, disconnect, SendRelease, vars, queueVars, stateVars,
                 userVars
  <2>2. QED
    BY <1>12, <2>1 DEF InitPending, ExitPending, SignalPending
<1>17. CASE JoinNull
  BY <1>17 DEF JoinNull
<1>18. QED
  BY <1>5, <1>6, <1>7, <1>8, <1>9, <1>10, <1>11, <1>13, <1>14, <1>15, <1>16, <1>17
     DEF Next, init_thread, command_thread, process_event

(* Every event on its way finds what its handler uses: init_done the       *)
(* callback of init, command_complete a completion, command_thread_exit a  *)
(* callback of disconnect and no completion that it would throw away.      *)
THEOREM EventsFindState == Spec => []HandlersFindState
<1>1. Init => OrderInv /\ HandlersInv
  BY DEF Init, OrderInv, HandlersInv, FlowInv, EventsInv, InitDoneInv, ThreadExitInv, CountInv,
         One, InitPending, ExitPending, SignalPending
<1>2. DataTypeOK /\ OrderInv /\ HandlersInv /\ [Next]_vars => HandlersInv'
  BY FlowStep, EventsStep, CountStep DEF HandlersInv
<1>3. DataTypeOK /\ HandlersInv => HandlersFindState
  <2>1. SUFFICES ASSUME DataTypeOK, HandlersInv, events # <<>> PROVE HandlersFindState
    BY DEF HandlersFindState
  <2>2. Head(events) \in EventNames
    BY <2>1 DEF DataTypeOK
  <2>3. QED
    BY <2>1, <2>2, NothingLost DEF HandlersFindState, HandlersInv, EventNames
<1>4. TypeOK => DataTypeOK
  BY DEF TypeOK
<1>5. QED
  BY <1>1, <1>2, <1>3, <1>4, TypeCorrect, OrderStep, PTL DEF Spec

-----------------------------------------------------------------------------
(* The handler of CommandThreadExit joins the thread through its pointer,  *)
(* which init_thread stores after the thread was started.  A user who      *)
(* waits for the callback of init disconnects behind that.                 *)
JoinInv ==
    /\ m_init_complete => m_command_thread \/ initPc \in {"spawn", "store"}
    /\ told # "nothing" => initPc = "done" /\ ~m_init_callback
    /\ told = "connected" => m_command_thread \/ closed
    /\ m_disconnect_in_progress \/ cmdPc \in {"exit", "finished"} =>
         told = "connected" \/ EarlyUser
    /\ mainPc = "crashed" => EarlyUser

(* Every step keeps the pointer behind the disconnection.                  *)
LEMMA JoinStep ==
    DataTypeOK /\ OrderInv /\ HandlersInv /\ JoinInv /\ [Next]_vars => JoinInv'
<1> SUFFICES ASSUME DataTypeOK, OrderInv, HandlersInv, JoinInv, [Next]_vars PROVE JoinInv'
  OBVIOUS
<1>0. events \in Seq(EventNames)
  BY DEF DataTypeOK
<1> USE DEF JoinInv, queueVars, stateVars, deviceVars, userVars
<1>1. CASE init_thread
  BY <1>1 DEF init_thread, InitCommands, InitCommand, InitComplete, InitSpawn, InitStore,
              InitReport, AfterInitCommand, OrderInv
<1>2. CASE command_thread
  BY <1>2 DEF command_thread, ThreadOuter, ThreadAcquire, ThreadInner, ThreadTake,
              ThreadHeader, ThreadSend, ThreadSignal, ThreadExit
<1>3. CASE User \/ SendRelease
  BY <1>3 DEF User, init, disconnect, SendCommand, SendRelease, UserMayCall, OrderInv
<1>4. CASE init_done
  <2>1. InitPending
    BY <1>0, <1>4, Processed DEF init_done, HandlersInv, EventsInv, InitDoneInv
  <2>2. QED
    BY <1>4, <2>1 DEF init_done, InitPending
<1>5. CASE command_complete
  BY <1>5 DEF command_complete
<1>6. CASE command_thread_exit
  BY <1>6 DEF command_thread_exit
<1>7. CASE JoinNull
  <2>1. ExitPending
    BY <1>0, <1>7, Processed DEF JoinNull, HandlersInv, EventsInv, ThreadExitInv
  <2>2. QED
    BY <1>7, <2>1 DEF JoinNull, ExitPending
<1>8. CASE UNCHANGED vars
  BY <1>8 DEF vars
<1>9. QED
  BY <1>1, <1>2, <1>3, <1>4, <1>5, <1>6, <1>7, <1>8 DEF Next, process_event

(* A user who waits for init to be reported never makes                    *)
(* command_thread_exit join a thread whose pointer is not stored.          *)
THEOREM ExitFindsThread == Spec => [](mainPc = "crashed" => EarlyUser)
<1>1. Init => OrderInv /\ HandlersInv /\ JoinInv
  BY DEF Init, OrderInv, HandlersInv, FlowInv, EventsInv, InitDoneInv, ThreadExitInv, CountInv,
         One, InitPending, ExitPending, SignalPending, JoinInv
<1>2. DataTypeOK /\ OrderInv /\ HandlersInv /\ [Next]_vars => HandlersInv'
  BY FlowStep, EventsStep, CountStep DEF HandlersInv
<1>3. TypeOK => DataTypeOK
  BY DEF TypeOK
<1>4. JoinInv => (mainPc = "crashed" => EarlyUser)
  BY DEF JoinInv
<1>5. QED
  BY <1>1, <1>2, <1>3, <1>4, TypeCorrect, OrderStep, JoinStep, PTL DEF Spec

-----------------------------------------------------------------------------
(* What the user of the driver is promised: responses that belong to their *)
(* commands, from an adapter that answers in time, and the safety part of  *)
(* CommandService, in every environment.                                   *)

(* An adapter that answers in time leaves nothing on the line, so the      *)
(* reply a command reads is its own, and the header the adapter has is the *)
(* one the driver remembers.                                               *)
Own(completion) == completion.obd_data = completion.callback

TimelyInv ==
    /\ line = <<>>
    /\ \A i \in DOMAIN m_completion_queue : Own(m_completion_queue[i])
    /\ \A i \in DOMAIN answered : Own(answered[i])
    /\ deviceHeader = m_current_obd_address
    /\ cmdPc = "send" => m_current_obd_address = Address[command]

(* An exchange with such an adapter returns the reply, and reads it all.   *)
LEMMA TimelyExchange ==
    ASSUME DeviceTimely = TRUE, line = <<>>, NEW reply \in Replies, NEW response,
           Exchange(reply, response)
    PROVE  response = reply /\ line' = <<>>
<1>1. Arrived(reply) = {<<reply>>}
  BY DEF Arrived
<1>2. /\ response = Head(<<reply>>)
      /\ \E n \in 1..Len(<<reply>>) : line' = SubSeq(<<reply>>, n + 1, Len(<<reply>>))
  BY <1>1 DEF Exchange
<1>3. Len(<<reply>>) = 1 /\ Head(<<reply>>) = reply
  OBVIOUS
<1>4. line' = SubSeq(<<reply>>, 2, 1)
  BY <1>2, <1>3
<1>5. QED
  BY <1>2, <1>3, <1>4

(* The thread's exchanges keep it, ...                                     *)
LEMMA TimelySend ==
    ASSUME DeviceTimely = TRUE, DataTypeOK, TimelyInv, ThreadHeader \/ ThreadSend
    PROVE  TimelyInv'
<1> USE DEF TimelyInv
<1>1. CASE ThreadHeader
  <2>1. line' = <<>>
    BY <1>1, TimelyExchange DEF ThreadHeader, Replies
  <2>2. /\ UNCHANGED <<m_completion_queue, answered, command>>
        /\ m_current_obd_address' = Address[command] /\ deviceHeader' = Address[command]
    BY <1>1 DEF ThreadHeader, queueVars, userVars
  <2>3. QED
    BY <2>1, <2>2
<1>2. CASE ThreadSend
  <2>1. PICK response \in Replies \cup {NoReply} :
          /\ Exchange(command, response)
          /\ m_completion_queue' = Append(m_completion_queue, [callback |-> command,
                                                               obd_data |-> response])
    BY <1>2 DEF ThreadSend
  <2>2. command \in Replies /\ m_completion_queue \in Seq(Completions)
    BY DEF DataTypeOK, Replies
  <2>3. response = command /\ line' = <<>>
    BY <2>1, <2>2, TimelyExchange
  <2>4. UNCHANGED <<answered, deviceHeader, m_current_obd_address>> /\ cmdPc' = "signal"
    BY <1>2 DEF ThreadSend, userVars
  <2>5. \A i \in DOMAIN m_completion_queue' : Own(m_completion_queue'[i])
    BY <2>1, <2>2, <2>3 DEF Own
  <2>6. QED
    BY <2>3, <2>4, <2>5
<1>3. QED
  BY <1>1, <1>2

(* ... and so does every other step.                                       *)
LEMMA TimelyStep ==
    ASSUME DeviceTimely = TRUE, DataInv, TimelyInv, [Next]_vars
    PROVE  TimelyInv'
<1> USE DEF TimelyInv, queueVars, stateVars, deviceVars, userVars
<1>1. CASE init_thread
  <2>1. UNCHANGED <<queueVars, deviceVars, userVars>> /\ cmdPc' \in {cmdPc, "outer"}
    BY <1>1 DEF init_thread, InitCommand, InitComplete, InitSpawn, InitStore, InitReport
  <2>2. QED
    BY <2>1
<1>2. CASE ThreadHeader \/ ThreadSend
  BY <1>2, TimelySend DEF DataInv
<1>3. CASE ThreadTake
  BY <1>3 DEF ThreadTake, NeedsHeader
<1>4. CASE ThreadOuter \/ ThreadAcquire \/ ThreadInner \/ ThreadSignal \/ ThreadExit
  BY <1>4 DEF ThreadOuter, ThreadAcquire, ThreadInner, ThreadSignal, ThreadExit
<1>5. CASE User \/ SendRelease \/ init_done \/ JoinNull \/ UNCHANGED vars
  BY <1>5 DEF User, init, disconnect, SendCommand, SendRelease, init_done, JoinNull, vars
<1>6. CASE command_thread_exit
  BY <1>6 DEF command_thread_exit
<1>7. CASE command_complete
  <2>1. m_completion_queue \in Seq(Completions) /\ answered \in Seq(Completions)
    BY DEF DataInv, DataTypeOK
  <2>2. /\ m_completion_queue # <<>> /\ m_completion_queue' = Tail(m_completion_queue)
        /\ answered' = Append(answered, Head(m_completion_queue))
        /\ UNCHANGED <<deviceVars, cmdPc>>
    BY <1>7 DEF command_complete
  <2>3. Own(Head(m_completion_queue))
    BY <2>1, <2>2
  <2>4. \A i \in DOMAIN answered' : Own(answered'[i])
    BY <2>1, <2>2, <2>3
  <2>5. \A i \in DOMAIN m_completion_queue' : Own(m_completion_queue'[i])
    BY <2>1, <2>2
  <2>6. QED
    BY <2>2, <2>4, <2>5
<1>8. QED
  BY <1>1, <1>2, <1>3, <1>4, <1>5, <1>6, <1>7 DEF Next, command_thread, process_event

(* A callback is given the adapter's reply to its own command.             *)
THEOREM ResponsesMatch ==
    ASSUME DeviceTimely = TRUE
    PROVE  Spec => []ResponseMatches
<1>1. Init => DataInv /\ TimelyInv
  BY DEF Init, DataInv, DataTypeOK, QueueHeld, InitPcs, CmdPcs, TimelyInv
<1>2. DataInv /\ TimelyInv /\ [Next]_vars => DataInv' /\ TimelyInv'
  BY DataStep, TimelyStep
<1>3. TimelyInv => ResponseMatches
  BY DEF TimelyInv, Own, ResponseMatches
<1>4. QED
  BY <1>1, <1>2, <1>3, PTL DEF Spec

(* A command is sent when the adapter sends to the command's address.      *)
THEOREM HeadersAgree ==
    ASSUME DeviceTimely = TRUE
    PROVE  Spec => []SentToItsAddress
<1>1. Init => DataInv /\ TimelyInv
  BY DEF Init, DataInv, DataTypeOK, QueueHeld, InitPcs, CmdPcs, TimelyInv
<1>2. DataInv /\ TimelyInv /\ [Next]_vars => DataInv' /\ TimelyInv'
  BY DataStep, TimelyStep
<1>3. TimelyInv => SentToItsAddress
  BY DEF TimelyInv, SentToItsAddress
<1>4. QED
  BY <1>1, <1>2, <1>3, PTL DEF Spec

-----------------------------------------------------------------------------
(* The driver as a CommandService.  PhaseInv says in which phases the      *)
(* threads can be where they are.                                          *)
Serving == m_init_complete = TRUE \/ m_disconnect_in_progress = TRUE
Ending == cmdPc \in {"exit", "finished"}

PhaseInv ==
    /\ initPc \in InitCommands \cup {"idle", "complete"} =>
         ~m_init_complete /\ ~m_disconnect_in_progress /\ ~closed
    /\ closed => ~m_init_complete /\ ~m_disconnect_in_progress
    /\ (cmdPc # "none" \/ initPc = "spawn") /\ ~closed => Serving
    /\ cmdPc = "none" \/ closed => m_completion_queue = <<>>
    /\ Ending /\ ~closed => m_disconnect_in_progress

(* The end of the command thread is handled once, while disconnect waits.  *)
LEMMA ExitEndsDisconnect ==
    ASSUME DataTypeOK, HandlersInv, PhaseInv, command_thread_exit
    PROVE  ~closed /\ m_disconnect_in_progress
<1>1. events \in Seq(EventNames) /\ Process("CommandThreadExit")
  BY DEF DataTypeOK, command_thread_exit
<1>2. ExitPending
  BY <1>1, Processed DEF HandlersInv, EventsInv, ThreadExitInv
<1>3. QED
  BY <1>2 DEF ExitPending, PhaseInv, Ending

(* Every step keeps the phases.                                            *)
LEMMA PhaseStep ==
    DataTypeOK /\ OrderInv /\ HandlersInv /\ PhaseInv /\ [Next]_vars => PhaseInv'
<1> SUFFICES ASSUME DataTypeOK, OrderInv, HandlersInv, PhaseInv, [Next]_vars PROVE PhaseInv'
  OBVIOUS
<1> USE DEF PhaseInv, Serving, Ending, queueVars, stateVars, userVars
<1>0. closed => cmdPc = "finished"
  BY DEF HandlersInv, FlowInv
<1>1. CASE init_thread
  <2>1. CASE InitCommand
    BY <2>1 DEF InitCommand, InitCommands, AfterInitCommand
  <2>2. CASE InitComplete
    BY <2>2 DEF InitComplete, InitCommands
  <2>3. CASE InitSpawn
    BY <2>3 DEF InitSpawn, InitCommands, OrderInv
  <2>4. CASE InitStore \/ InitReport
    BY <2>4 DEF InitStore, InitReport, InitCommands
  <2>5. QED
    BY <1>1, <2>1, <2>2, <2>3, <2>4 DEF init_thread
<1>2. CASE command_thread
  <2>1. CASE ThreadSend
    <3>1. /\ cmdPc = "send" /\ cmdPc' = "signal" /\ UNCHANGED <<stateVars, closed, initPc>>
      BY <2>1 DEF ThreadSend
    <3>2. QED
      BY <1>0, <3>1
  <2>2. CASE ThreadOuter
    BY <2>2 DEF ThreadOuter
  <2>3. CASE ThreadAcquire \/ ThreadInner \/ ThreadTake \/ ThreadHeader \/ ThreadSignal
    <3>1. /\ cmdPc \notin {"none", "exit", "finished"}
          /\ cmdPc' \notin {"none", "exit", "finished"}
          /\ UNCHANGED <<m_completion_queue, stateVars, closed, initPc>>
      BY <2>3 DEF ThreadAcquire, ThreadInner, ThreadTake, ThreadHeader, ThreadSignal
    <3>2. QED
      BY <3>1
  <2>4. CASE ThreadExit
    BY <2>4 DEF ThreadExit
  <2>5. QED
    BY <1>2, <2>1, <2>2, <2>3, <2>4 DEF command_thread
<1>3. CASE init
  BY <1>3 DEF init, OrderInv, InitCommands
<1>4. CASE disconnect
  BY <1>4 DEF disconnect
<1>5. CASE (\E c \in Commands : SendCommand(c)) \/ SendRelease \/ init_done \/ JoinNull
           \/ UNCHANGED vars
  BY <1>5 DEF SendCommand, SendRelease, init_done, JoinNull, vars
<1>6. CASE command_complete
  BY <1>6 DEF command_complete
<1>7. CASE command_thread_exit
  BY <1>7, ExitEndsDisconnect DEF command_thread_exit
<1>8. QED
  BY <1>1, <1>2, <1>3, <1>4, <1>5, <1>6, <1>7 DEF Next, User, process_event

-----------------------------------------------------------------------------
(* Where an accepted command is: behind those answered come those whose    *)
(* completion waits, then the one the thread executes, then the queue.     *)
Executing == cmdPc \in {"header", "send"}
NoOfAnswered == Len(answered)
NoOfCompletions == Len(m_completion_queue)
NoTaken == NoOfAnswered + NoOfCompletions + One(Executing)

PositionInv ==
    /\ Len(accepted) = NoTaken + Len(m_cmd_queue)
    /\ \A i \in 1..NoOfCompletions :
         accepted[NoOfAnswered + i] = m_completion_queue[i].callback
    /\ Executing => accepted[NoOfAnswered + NoOfCompletions + 1] = command
    /\ \A i \in 1..Len(m_cmd_queue) : accepted[NoTaken + i] = m_cmd_queue[i]

OpenPositionInv == ~closed => PositionInv

Lengths == /\ Len(accepted) \in Nat /\ Len(m_cmd_queue) \in Nat
           /\ NoOfAnswered \in Nat /\ NoOfCompletions \in Nat

(* The lengths are numbers.                                                *)
LEMMA LengthsAreNumbers == DataTypeOK => Lengths
  BY DEF DataTypeOK, Lengths, NoOfAnswered, NoOfCompletions

(* A command is accepted at the end of the queue.                          *)
LEMMA AcceptPosition ==
    ASSUME DataTypeOK, PositionInv, NEW c \in Commands, SendCommand(c)
    PROVE  PositionInv'
<1>1. /\ accepted' = Append(accepted, c) /\ m_cmd_queue' = Append(m_cmd_queue, c)
      /\ UNCHANGED <<m_completion_queue, answered, cmdPc, command>>
  BY DEF SendCommand, deviceVars
<1>2. /\ NoOfAnswered' = NoOfAnswered /\ NoOfCompletions' = NoOfCompletions
      /\ NoTaken' = NoTaken /\ (Executing' <=> Executing)
  BY <1>1 DEF NoOfAnswered, NoOfCompletions, NoTaken, Executing, One
<1>3. accepted \in Seq(Commands) /\ m_cmd_queue \in Seq(Commands) /\ Lengths
  BY LengthsAreNumbers DEF DataTypeOK
<1>4. NoTaken \in Nat /\ (Executing => NoTaken = NoOfAnswered + NoOfCompletions + 1)
      /\ NoTaken >= NoOfAnswered + NoOfCompletions
  BY <1>3 DEF NoTaken, One, Lengths
<1>5. /\ Len(accepted') = Len(accepted) + 1 /\ Len(m_cmd_queue') = Len(m_cmd_queue) + 1
      /\ \A i \in 1..Len(accepted) : accepted'[i] = accepted[i]
      /\ accepted'[Len(accepted) + 1] = c
      /\ \A i \in 1..Len(m_cmd_queue) : m_cmd_queue'[i] = m_cmd_queue[i]
      /\ m_cmd_queue'[Len(m_cmd_queue) + 1] = c
  BY <1>1, <1>3
<1>6. Len(accepted) = NoTaken + Len(m_cmd_queue)
  BY DEF PositionInv
<1>7. Len(accepted') = NoTaken' + Len(m_cmd_queue')
  BY <1>2, <1>3, <1>4, <1>5, <1>6 DEF Lengths
<1>8. \A i \in 1..NoOfCompletions' : accepted'[NoOfAnswered' + i] = m_completion_queue'[i].callback
  <2> SUFFICES ASSUME NEW i \in 1..NoOfCompletions
               PROVE  accepted'[NoOfAnswered + i] = m_completion_queue[i].callback
    BY <1>1, <1>2
  <2>1. NoOfAnswered + i \in 1..Len(accepted)
    BY <1>3, <1>4, <1>6 DEF Lengths
  <2>2. QED
    BY <1>5, <2>1 DEF PositionInv
<1>9. Executing' => accepted'[NoOfAnswered' + NoOfCompletions' + 1] = command'
  <2> SUFFICES ASSUME Executing
               PROVE  accepted'[NoOfAnswered + NoOfCompletions + 1] = command
    BY <1>1, <1>2
  <2>1. NoOfAnswered + NoOfCompletions + 1 \in 1..Len(accepted)
    BY <1>3, <1>4, <1>6 DEF Lengths
  <2>2. QED
    BY <1>5, <2>1 DEF PositionInv
<1>10. \A i \in 1..Len(m_cmd_queue') : accepted'[NoTaken' + i] = m_cmd_queue'[i]
  <2> TAKE i \in 1..Len(m_cmd_queue')
  <2>1. i \in 1..(Len(m_cmd_queue) + 1) /\ NoTaken' + i = NoTaken + i
    BY <1>2, <1>5
  <2>2. CASE i = Len(m_cmd_queue) + 1
    <3>1. NoTaken + i = Len(accepted) + 1
      BY <1>3, <1>4, <1>6, <2>2 DEF Lengths
    <3>2. QED
      BY <1>5, <2>1, <2>2, <3>1
  <2>3. CASE i # Len(m_cmd_queue) + 1
    <3>1. i \in 1..Len(m_cmd_queue) /\ NoTaken + i \in 1..Len(accepted)
      BY <1>3, <1>4, <1>6, <2>1, <2>3 DEF Lengths
    <3>2. accepted[NoTaken + i] = m_cmd_queue[i]
      BY <3>1 DEF PositionInv
    <3>3. QED
      BY <1>5, <2>1, <3>1, <3>2
  <2>4. QED
    BY <2>2, <2>3
<1>11. QED
  BY <1>7, <1>8, <1>9, <1>10 DEF PositionInv

(* The first of the queue is taken and executed.                           *)
LEMMA TakePosition ==
    ASSUME DataTypeOK, QueueHeld, PositionInv, ThreadTake
    PROVE  PositionInv'
<1>1. /\ command' = Head(m_cmd_queue) /\ m_cmd_queue' = Tail(m_cmd_queue)
      /\ UNCHANGED <<accepted, m_completion_queue, answered>>
      /\ ~Executing /\ Executing' /\ m_cmd_queue # <<>>
  BY DEF ThreadTake, Executing, QueueHeld, userVars
<1>2. m_cmd_queue \in Seq(Commands) /\ Lengths
  BY LengthsAreNumbers DEF DataTypeOK
<1>3. /\ NoOfAnswered' = NoOfAnswered /\ NoOfCompletions' = NoOfCompletions
      /\ NoTaken = NoOfAnswered + NoOfCompletions
      /\ NoTaken' = NoOfAnswered + NoOfCompletions + 1
  BY <1>1, <1>2 DEF NoOfAnswered, NoOfCompletions, NoTaken, One, Lengths
<1>4. /\ Len(m_cmd_queue) >= 1 /\ Len(m_cmd_queue') = Len(m_cmd_queue) - 1
      /\ Head(m_cmd_queue) = m_cmd_queue[1]
      /\ \A i \in 1..Len(m_cmd_queue') : m_cmd_queue'[i] = m_cmd_queue[i + 1]
  BY <1>1, <1>2
<1>5. Len(accepted') = NoTaken' + Len(m_cmd_queue')
  BY <1>1, <1>2, <1>3, <1>4 DEF PositionInv, Lengths
<1>6. accepted[NoTaken + 1] = m_cmd_queue[1]
  BY <1>2, <1>4 DEF PositionInv, Lengths
<1>7. \A i \in 1..Len(m_cmd_queue') : accepted'[NoTaken' + i] = m_cmd_queue'[i]
  <2> SUFFICES ASSUME NEW i \in 1..Len(m_cmd_queue')
               PROVE  accepted[NoTaken + (i + 1)] = m_cmd_queue[i + 1]
    BY <1>1, <1>2, <1>3, <1>4 DEF Lengths
  <2>1. i + 1 \in 1..Len(m_cmd_queue)
    BY <1>2, <1>4 DEF Lengths
  <2>2. QED
    BY <2>1 DEF PositionInv
<1>8. \A i \in 1..NoOfCompletions' : accepted'[NoOfAnswered' + i] = m_completion_queue'[i].callback
  BY <1>1, <1>3 DEF PositionInv
<1>9. accepted'[NoOfAnswered' + NoOfCompletions' + 1] = command'
  BY <1>1, <1>3, <1>4, <1>6
<1>10. QED
  BY <1>5, <1>7, <1>8, <1>9 DEF PositionInv

(* The command that was executed has its completion.                       *)
LEMMA SendPosition ==
    ASSUME DataTypeOK, PositionInv, ThreadSend
    PROVE  PositionInv'
<1>1. PICK response \in Replies \cup {NoReply} :
        m_completion_queue' = Append(m_completion_queue, [callback |-> command,
                                                          obd_data |-> response])
  BY DEF ThreadSend
<1> DEFINE completion == [callback |-> command, obd_data |-> response]
<1>2. completion.callback = command
  OBVIOUS
<1> HIDE DEF completion
<1>3. UNCHANGED <<accepted, m_cmd_queue, answered, command>> /\ Executing /\ ~Executing'
  BY DEF ThreadSend, Executing, userVars
<1>4. m_completion_queue \in Seq(Completions) /\ Lengths
  BY LengthsAreNumbers DEF DataTypeOK
<1>5. /\ NoOfCompletions' = NoOfCompletions + 1
      /\ \A i \in 1..NoOfCompletions : m_completion_queue'[i] = m_completion_queue[i]
      /\ m_completion_queue'[NoOfCompletions + 1] = completion
  BY <1>1, <1>4 DEF NoOfCompletions, completion
<1>6. /\ NoOfAnswered' = NoOfAnswered
      /\ NoTaken = NoOfAnswered + NoOfCompletions + 1 /\ NoTaken' = NoTaken
  BY <1>3, <1>4, <1>5 DEF NoOfAnswered, NoTaken, One, Lengths
<1>7. Len(accepted') = NoTaken' + Len(m_cmd_queue')
  BY <1>3, <1>6 DEF PositionInv
<1>8. \A i \in 1..Len(m_cmd_queue') : accepted'[NoTaken' + i] = m_cmd_queue'[i]
  BY <1>3, <1>6 DEF PositionInv
<1>9. \A i \in 1..NoOfCompletions' : accepted'[NoOfAnswered' + i] = m_completion_queue'[i].callback
  <2> SUFFICES ASSUME NEW i \in 1..(NoOfCompletions + 1)
               PROVE  accepted[NoOfAnswered + i] = m_completion_queue'[i].callback
    BY <1>3, <1>5, <1>6
  <2>1. CASE i = NoOfCompletions + 1
    <3>1. accepted[NoOfAnswered + NoOfCompletions + 1] = command
      BY <1>3 DEF PositionInv
    <3>2. NoOfAnswered + i = NoOfAnswered + NoOfCompletions + 1
      BY <1>4, <2>1 DEF Lengths
    <3>3. QED
      BY <1>2, <1>5, <2>1, <3>1, <3>2
  <2>2. CASE i # NoOfCompletions + 1
    <3>1. i \in 1..NoOfCompletions
      BY <1>4, <2>2 DEF Lengths
    <3>2. QED
      BY <1>5, <3>1 DEF PositionInv
  <2>3. QED
    BY <2>1, <2>2
<1>10. QED
  BY <1>3, <1>7, <1>8, <1>9 DEF PositionInv

(* The first completion is the answer to the next accepted command.        *)
LEMMA AnswerPosition ==
    ASSUME DataTypeOK, PositionInv, command_complete
    PROVE  /\ PositionInv'
           /\ NoOfAnswered + 1 \in 1..Len(accepted)
           /\ accepted[NoOfAnswered + 1] = Head(m_completion_queue).callback
<1>1. /\ answered' = Append(answered, Head(m_completion_queue)) /\ m_completion_queue # <<>>
      /\ m_completion_queue' = Tail(m_completion_queue)
      /\ UNCHANGED <<accepted, m_cmd_queue, cmdPc, command>>
  BY DEF command_complete, deviceVars
<1>2. m_completion_queue \in Seq(Completions) /\ answered \in Seq(Completions) /\ Lengths
  BY LengthsAreNumbers DEF DataTypeOK
<1>3. /\ NoOfCompletions >= 1 /\ NoOfCompletions' = NoOfCompletions - 1
      /\ Head(m_completion_queue) = m_completion_queue[1]
      /\ \A i \in 1..NoOfCompletions' : m_completion_queue'[i] = m_completion_queue[i + 1]
  BY <1>1, <1>2 DEF NoOfCompletions
<1>4. NoOfAnswered' = NoOfAnswered + 1
  BY <1>1, <1>2 DEF NoOfAnswered
<1>5. One(Executing) \in {0, 1} /\ One(Executing') = One(Executing) /\ (Executing' <=> Executing)
  BY <1>1 DEF One, Executing
<1>6. /\ NoTaken' = NoTaken /\ NoTaken \in Nat
      /\ NoOfAnswered' + NoOfCompletions' = NoOfAnswered + NoOfCompletions
      /\ NoTaken >= NoOfAnswered + NoOfCompletions
  BY <1>2, <1>3, <1>4, <1>5 DEF NoTaken, Lengths
<1>7. Len(accepted) = NoTaken + Len(m_cmd_queue)
  BY DEF PositionInv
<1>8. /\ NoOfAnswered + 1 \in 1..Len(accepted)
      /\ accepted[NoOfAnswered + 1] = Head(m_completion_queue).callback
  <2>1. NoOfAnswered + 1 \in 1..Len(accepted) /\ 1 \in 1..NoOfCompletions
    BY <1>2, <1>3, <1>6, <1>7 DEF Lengths
  <2>2. QED
    BY <1>3, <2>1 DEF PositionInv
<1>9. \A i \in 1..NoOfCompletions' : accepted'[NoOfAnswered' + i] = m_completion_queue'[i].callback
  <2> TAKE i \in 1..NoOfCompletions'
  <2>1. i + 1 \in 1..NoOfCompletions /\ NoOfAnswered' + i = NoOfAnswered + (i + 1)
    BY <1>2, <1>3, <1>4 DEF Lengths
  <2>2. accepted[NoOfAnswered + (i + 1)] = m_completion_queue[i + 1].callback
    BY <2>1 DEF PositionInv
  <2>3. accepted'[NoOfAnswered' + i] = accepted[NoOfAnswered + (i + 1)]
    BY <1>1, <2>1
  <2>4. QED
    BY <1>3, <2>2, <2>3
<1>10. Executing' => accepted'[NoOfAnswered' + NoOfCompletions' + 1] = command'
  BY <1>1, <1>5, <1>6 DEF PositionInv
<1>11. \A i \in 1..Len(m_cmd_queue') : accepted'[NoTaken' + i] = m_cmd_queue'[i]
  BY <1>1, <1>6 DEF PositionInv
<1>12. Len(accepted') = NoTaken' + Len(m_cmd_queue')
  BY <1>1, <1>6, <1>7
<1>13. QED
  BY <1>8, <1>9, <1>10, <1>11, <1>12 DEF PositionInv

(* Every step keeps the positions, until the driver is closed.             *)
LEMMA PositionStep ==
    DataInv /\ OrderInv /\ HandlersInv /\ PhaseInv /\ OpenPositionInv /\ [Next]_vars
      => OpenPositionInv'
<1> SUFFICES ASSUME DataInv, OrderInv, HandlersInv, PhaseInv, OpenPositionInv, [Next]_vars,
                    ~closed'
             PROVE  PositionInv'
  BY DEF OpenPositionInv
<1>0. DataTypeOK /\ QueueHeld
  BY DEF DataInv
<1>1. CASE command_thread_exit
  BY <1>1 DEF command_thread_exit
<1>2. CASE ~command_thread_exit
  <2>1. ~closed
    BY <1>2 DEF Next, init_thread, InitCommand, InitComplete, InitSpawn, InitStore, InitReport,
       command_thread, ThreadOuter, ThreadAcquire, ThreadInner, ThreadTake, ThreadHeader,
       ThreadSend, ThreadSignal, ThreadExit, User, init, disconnect, SendCommand, SendRelease,
       process_event, init_done, command_complete, JoinNull, vars, userVars
  <2>2. PositionInv
    BY <2>1 DEF OpenPositionInv
  <2>3. CASE \E c \in Commands : SendCommand(c)
    BY <1>0, <2>2, <2>3, AcceptPosition
  <2>4. CASE ThreadTake
    BY <1>0, <2>2, <2>4, TakePosition
  <2>5. CASE ThreadSend
    BY <1>0, <2>2, <2>5, SendPosition
  <2>6. CASE command_complete
    BY <1>0, <2>2, <2>6, AnswerPosition
  <2>7. CASE UNCHANGED <<accepted, answered, m_completion_queue, m_cmd_queue, command, Executing>>
    BY <2>2, <2>7 DEF PositionInv, NoTaken, NoOfAnswered, NoOfCompletions
  <2>8. CASE init_thread
    BY <2>7, <2>8 DEF init_thread, InitCommand, InitComplete, InitSpawn, InitStore, InitReport,
       Executing, OrderInv, userVars, queueVars, deviceVars
  <2>9. CASE ThreadOuter \/ ThreadAcquire \/ ThreadInner \/ ThreadHeader \/ ThreadSignal
             \/ ThreadExit
    BY <2>7, <2>9 DEF ThreadOuter, ThreadAcquire, ThreadInner, ThreadHeader, ThreadSignal,
       ThreadExit, Executing, userVars, queueVars, deviceVars
  <2>10. CASE init \/ disconnect \/ SendRelease \/ init_done \/ JoinNull \/ UNCHANGED vars
    BY <2>7, <2>10 DEF init, disconnect, SendRelease, init_done, JoinNull, vars, Executing,
       userVars, queueVars, deviceVars
  <2>11. QED
    BY <1>2, <2>3, <2>4, <2>5, <2>6, <2>8, <2>9, <2>10
       DEF Next, command_thread, User, process_event
<1>3. QED
  BY <1>1, <1>2

-----------------------------------------------------------------------------
(* Every step of the driver is a step of the service, or none.             *)
ServiceInv == OrderInv /\ HandlersInv /\ PhaseInv /\ OpenPositionInv

completed == [i \in DOMAIN answered |-> answered[i].callback]

(* Accepting a command is accepting a request.                             *)
LEMMA AcceptServes ==
    ASSUME FlagsTypeOK, DataInv, ServiceInv, NEW c \in Commands, SendCommand(c)
    PROVE  Service!Accept(c)
<1>1. /\ m_init_complete /\ ~m_disconnect_in_progress
      /\ UNCHANGED <<m_init_complete, m_disconnect_in_progress, closed, answered>>
      /\ accepted' = Append(accepted, c)
  BY DEF SendCommand, stateVars
<1>2. ~closed
  BY <1>1 DEF ServiceInv, PhaseInv
<1>3. QED
  BY <1>1, <1>2 DEF Service!Accept, Phase

(* Calling a command's callback is answering the next request.             *)
LEMMA CompleteServes ==
    ASSUME FlagsTypeOK, DataInv, ServiceInv, command_complete
    PROVE  Service!Answer
<1>1. /\ answered' = Append(answered, Head(m_completion_queue)) /\ m_completion_queue # <<>>
      /\ UNCHANGED <<m_init_complete, m_disconnect_in_progress, closed, accepted>>
  BY DEF command_complete, stateVars
<1>2. ~closed /\ Serving
  BY <1>1 DEF ServiceInv, PhaseInv, HandlersInv, FlowInv
<1>3. Phase \in {"open", "closing"} /\ Phase' = Phase
  BY <1>1, <1>2 DEF Phase, Serving
<1>4. DataTypeOK /\ PositionInv
  BY <1>2 DEF DataInv, ServiceInv, OpenPositionInv
<1>5. /\ NoOfAnswered + 1 \in 1..Len(accepted)
      /\ accepted[NoOfAnswered + 1] = Head(m_completion_queue).callback
  BY <1>4, AnswerPosition
<1>6. answered \in Seq(Completions) /\ Len(accepted) \in Nat /\ Len(answered) \in Nat
  BY <1>4 DEF DataTypeOK
<1>7. completed \in Seq(Commands) /\ Len(completed) = Len(answered)
  <2>1. \A i \in DOMAIN answered : answered[i].callback \in Commands
    <3>1. \A i \in DOMAIN answered : answered[i] \in Completions
      BY <1>6
    <3>2. QED
      BY <3>1 DEF Completions
  <2>2. DOMAIN answered = 1..Len(answered)
    BY <1>6
  <2>3. completed \in [1..Len(answered) -> Commands]
    BY <2>1, <2>2 DEF completed
  <2>4. QED
    BY <1>6, <2>3
<1>8. completed' = Append(completed, Head(m_completion_queue).callback)
  <2>1. /\ DOMAIN answered = 1..Len(answered) /\ DOMAIN answered' = 1..(Len(answered) + 1)
        /\ \A i \in 1..Len(answered) : answered'[i] = answered[i]
        /\ answered'[Len(answered) + 1] = Head(m_completion_queue)
    BY <1>1, <1>6
  <2>2. completed' = [i \in 1..(Len(answered) + 1) |->
                        IF i = Len(answered) + 1 THEN Head(m_completion_queue).callback
                                                 ELSE completed[i]]
    BY <1>6, <2>1 DEF completed
  <2>3. QED
    BY <1>7, <2>2
<1>9. Len(completed) < Len(accepted) /\ Len(completed) + 1 = NoOfAnswered + 1
  BY <1>5, <1>6, <1>7 DEF NoOfAnswered
<1>10. QED
  BY <1>1, <1>3, <1>5, <1>8, <1>9 DEF Service!Answer, completed

(* What changes neither the phase nor the histories is no step of it.      *)
LEMMA QuietServes ==
    ASSUME Phase' = Phase, UNCHANGED <<accepted, answered>>
    PROVE  UNCHANGED Service!serviceVars
  BY DEF Service!serviceVars

(* Every step.                                                             *)
LEMMA ServiceStep ==
    FlagsTypeOK /\ DataInv /\ ServiceInv /\ [Next]_vars
      => [Service!ServiceNext]_Service!serviceVars
<1> SUFFICES ASSUME FlagsTypeOK, DataInv, ServiceInv, [Next]_vars
             PROVE  Service!ServiceNext \/ UNCHANGED Service!serviceVars
  OBVIOUS
<1>1. CASE \E c \in Commands : SendCommand(c)
  BY <1>1, AcceptServes DEF Service!ServiceNext
<1>2. CASE command_complete
  BY <1>2, CompleteServes DEF Service!ServiceNext
<1>3. CASE InitComplete
  <2>1. Service!Open
    BY <1>3 DEF InitComplete, ServiceInv, PhaseInv, Service!Open, Phase, userVars
  <2>2. QED
    BY <2>1 DEF Service!ServiceNext
<1>4. CASE disconnect
  <2>1. Service!Close
    BY <1>4 DEF disconnect, ServiceInv, PhaseInv, Service!Close, Phase, userVars
  <2>2. QED
    BY <2>1 DEF Service!ServiceNext
<1>5. CASE command_thread_exit
  <2>1. ~closed /\ m_disconnect_in_progress
    BY <1>5, ExitEndsDisconnect DEF ServiceInv, DataInv
  <2>2. closed' = TRUE /\ UNCHANGED <<accepted, answered>>
    BY <1>5 DEF command_thread_exit
  <2>3. Service!Closed
    BY <2>1, <2>2 DEF Service!Closed, Phase
  <2>4. QED
    BY <2>3 DEF Service!ServiceNext
<1>6. CASE UNCHANGED <<m_init_complete, m_disconnect_in_progress, closed, accepted, answered>>
  BY <1>6, QuietServes DEF Phase
<1>7. CASE init_thread /\ ~InitComplete
  BY <1>6, <1>7 DEF init_thread, InitCommand, InitSpawn, InitStore, InitReport, stateVars,
     userVars
<1>8. CASE command_thread
  BY <1>6, <1>8 DEF command_thread, ThreadOuter, ThreadAcquire, ThreadInner, ThreadTake,
     ThreadHeader, ThreadSend, ThreadSignal, ThreadExit, stateVars, userVars
<1>9. CASE init \/ SendRelease \/ init_done \/ JoinNull \/ UNCHANGED vars
  BY <1>6, <1>9 DEF init, SendRelease, init_done, JoinNull, vars, stateVars, userVars
<1>10. QED
  BY <1>1, <1>2, <1>3, <1>4, <1>5, <1>7, <1>8, <1>9 DEF Next, User, process_event

(* In every environment, also with late and lost replies and an early      *)
(* user, the driver answers accepted commands in the order they were       *)
(* accepted, each once at most, and none after it has reported its end.    *)
THEOREM ServesInOrder == Spec => ImplementsServiceSafety
<1>1. Init => ServiceInv /\ Service!ServiceInit
  <2>1. Init => OrderInv /\ HandlersInv
    BY DEF Init, OrderInv, HandlersInv, FlowInv, EventsInv, InitDoneInv, ThreadExitInv,
       CountInv, One, InitPending, ExitPending, SignalPending
  <2>2. Init => PhaseInv
    BY DEF Init, PhaseInv, Ending
  <2>3. Init => PositionInv
    BY DEF Init, PositionInv, NoTaken, NoOfAnswered, NoOfCompletions, Executing, One
  <2>4. Init => Service!ServiceInit
    BY DEF Init, Service!ServiceInit, Phase
  <2>5. QED
    BY <2>1, <2>2, <2>3, <2>4 DEF ServiceInv, OpenPositionInv
<1>2. TypeOK /\ QueueHeld => FlagsTypeOK /\ DataInv
  BY DEF TypeOK, DataInv
<1>3. FlagsTypeOK /\ DataInv /\ ServiceInv /\ [Next]_vars => ServiceInv'
  <2>1. DataTypeOK /\ OrderInv /\ HandlersInv /\ [Next]_vars => HandlersInv'
    BY FlowStep, EventsStep, CountStep DEF HandlersInv
  <2>2. QED
    BY <2>1, OrderStep, PhaseStep, PositionStep DEF ServiceInv, DataInv
<1>4. QED
  BY <1>1, <1>2, <1>3, TypeCorrect, ServiceStep, PTL
     DEF Spec, ImplementsServiceSafety, Service!ServiceSafety
=============================================================================
