-------------------------- MODULE Settings_proofs --------------------------
(***************************************************************************)
(* Theorems about the settings: a stored choice is given up only for       *)
(* another one, an attempt is made with what is displayed, and a scan that *)
(* can be started has a controller.                                        *)
(***************************************************************************)
EXTENDS Settings, FiniteSetTheorems, WellFoundedInduction, TLAPS

-----------------------------------------------------------------------------
(* Induction, with a set in the place of a predicate.                      *)

(* Every set of natural numbers that is not empty has a least element.     *)
LEMMA LeastElement ==
  ASSUME NEW T \in SUBSET Nat, T # {}
  PROVE  \E n \in T : \A m \in T : n <= m
<1> DEFINE R == OpToRel(<, Nat)
<1>1. IsWellFoundedOn(R, Nat)
  BY NatLessThanWellFounded
<1>2. \A m, n \in Nat : m < n => <<m, n>> \in R
  BY DEF OpToRel
<1> HIDE DEF R
<1>3. PICK n \in T : \A m \in T : ~(<<m, n>> \in R)
  BY <1>1, WFMin
<1>4. \A m \in T : ~(m < n) /\ m \in Nat /\ n \in Nat
  BY <1>2, <1>3
<1>5. \A m \in T : n <= m
  BY <1>4
<1> QED
  BY <1>5

(* A set that has 0, and with each number below N the next, has all of     *)
(* them up to N.                                                           *)
LEMMA UpTo ==
  ASSUME NEW N \in Nat, NEW S, 0 \in S, \A n \in 1..N : n - 1 \in S => n \in S
  PROVE  0..N \subseteq S
<1> DEFINE T == 0..N \ S
<1> SUFFICES ASSUME T # {} PROVE FALSE
  OBVIOUS
<1>0. T \in SUBSET Nat
  OBVIOUS
<1>1. PICK n \in T : \A m \in T : n <= m
  BY <1>0, LeastElement
<1>2. n \in 1..N
  BY <1>1
<1>3. n - 1 \in 0..N /\ n - 1 \notin T
  BY <1>1, <1>2
<1> QED
  BY <1>1, <1>2, <1>3

-----------------------------------------------------------------------------
(* Lists.                                                                  *)

(* A list of values of V: a current item unless it is empty, and the       *)
(* current item is the value that is stored.                               *)
IsList(l, V) ==
    /\ l \in [items : Seq(V), index : Nat, stored : V \cup {None}]
    /\ IF l.items = <<>> THEN l.index = 0
       ELSE l.index \in DOMAIN l.items /\ l.stored = l.items[l.index]

(* Another current item: its value is stored.                              *)
LEMMA CurrentStored ==
  ASSUME NEW l, l = [items |-> l.items, index |-> l.index, stored |-> l.stored],
         NEW i, i # l.index
  PROVE  setCurrentIndex(l, i) = [items |-> l.items, index |-> i, stored |-> l.items[i]]
<1> DEFINE moved == [items |-> l.items, index |-> i, stored |-> l.stored]
<1>1. [l EXCEPT !.index = i] = moved
  OBVIOUS
<1>2. [moved EXCEPT !.stored = l.items[i]]
         = [items |-> l.items, index |-> i, stored |-> l.items[i]]
  OBVIOUS
<1>3. setCurrentIndex(l, i) = [[l EXCEPT !.index = i] EXCEPT !.stored = l.items[i]]
  BY DEF setCurrentIndex
<1> HIDE DEF moved
<1> QED
  BY <1>1, <1>2, <1>3

(* The first item of a list becomes the current one, and is stored.        *)
LEMMA FirstItem ==
  ASSUME NEW t, NEW v
  PROVE  addItem(Empty(t), v) = [items |-> <<v>>, index |-> 1, stored |-> v]
<1> DEFINE one == <<v>>
           longer == [items |-> one, index |-> 0, stored |-> t]
<1>1. one[1] = v /\ Append(<<>>, v) = one
  OBVIOUS
<1> HIDE DEF one
<1>2. addItem(Empty(t), v) = setCurrentIndex(longer, 1)
  BY <1>1 DEF addItem, Empty
<1>3. /\ longer = [items |-> longer.items, index |-> longer.index, stored |-> longer.stored]
      /\ longer.items = one /\ longer.index = 0 /\ longer.index # 1
  OBVIOUS
<1> HIDE DEF longer
<1>4. setCurrentIndex(longer, 1) =
         [items |-> longer.items, index |-> 1, stored |-> longer.items[1]]
  BY <1>3, CurrentStored
<1>5. addItem(Empty(t), v) = [items |-> one, index |-> 1, stored |-> v]
  BY <1>1, <1>2, <1>3, <1>4
<1> QED
  BY <1>5 DEF one

(* Filling a list: the values are its items and the first is current.      *)
LEMMA FilledIs ==
  ASSUME NEW V, NEW l, NEW values \in Seq(V)
  PROVE  Filled(l, values) = IF values = <<>> THEN Empty(l.stored)
                             ELSE [items |-> values, index |-> 1, stored |-> values[1]]
<1> DEFINE N == Len(values)
           Step(f) == [n \in 0..N |-> IF n = 0 THEN Empty(l.stored)
                                      ELSE addItem(f[n - 1], values[n])]
           filled == CHOOSE f : f = Step(f)
           g == [n \in 0..N |-> IF n = 0 THEN Empty(l.stored)
                                ELSE [items |-> SubSeq(values, 1, n), index |-> 1,
                                      stored |-> values[1]]]
<1>1. N \in Nat
  OBVIOUS
<1>2. ASSUME NEW n \in 1..N
      PROVE  addItem(g[n - 1], values[n]) = g[n]
  <2> DEFINE some(i) == [items |-> SubSeq(values, 1, i), index |-> 1, stored |-> values[1]]
  <2>0. n \in 0..N /\ n - 1 \in 0..N /\ n # 0 /\ g[n] = some(n)
    OBVIOUS
  <2>1. CASE n = 1
    <3>1. g[n - 1] = Empty(l.stored)
      BY <2>0, <2>1
    <3>2. <<values[1]>> = SubSeq(values, 1, 1)
      BY <2>0, <2>1
    <3>3. addItem(Empty(l.stored), values[1]) =
             [items |-> <<values[1]>>, index |-> 1, stored |-> values[1]]
      BY FirstItem
    <3> QED
      BY <2>0, <2>1, <3>1, <3>2, <3>3
  <2>2. CASE n # 1
    <3>1. g[n - 1] = some(n - 1)
      BY <2>0, <2>2
    <3>2. SubSeq(values, 1, n - 1) # <<>>
      BY <2>0, <2>2
    <3>3. Append(SubSeq(values, 1, n - 1), values[n]) = SubSeq(values, 1, n)
      BY <2>0, <2>2
    <3>4. addItem(some(n - 1), values[n]) = some(n)
      BY <3>2, <3>3 DEF addItem
    <3> QED
      BY <2>0, <3>1, <3>4
  <2> QED
    BY <2>1, <2>2
<1>3. g = Step(g)
  <2>1. ASSUME NEW n \in 0..N
        PROVE  g[n] = IF n = 0 THEN Empty(l.stored) ELSE addItem(g[n - 1], values[n])
    <3>1. CASE n = 0
      BY <3>1
    <3>2. CASE n # 0
      <4>1. n \in 1..N
        BY <3>2
      <4> HIDE DEF g
      <4> QED
        BY <3>2, <4>1, <1>2
    <3> QED
      BY <3>1, <3>2
  <2> QED
    BY <2>1
<1>4. filled = Step(filled)
  BY <1>3
<1>5. 0..N \subseteq {n \in 0..N : filled[n] = g[n]}
  <2> DEFINE S == {n \in 0..N : filled[n] = g[n]}
  <2> HIDE DEF filled
  <2>1. 0 \in S
    BY <1>1, <1>4
  <2>2. ASSUME NEW n \in 1..N, n - 1 \in S PROVE n \in S
    <3>1. filled[n] = addItem(filled[n - 1], values[n])
      BY <1>1, <1>4
    <3>2. n \in 0..N /\ filled[n - 1] = g[n - 1]
      BY <1>1, <2>2
    <3>3. addItem(g[n - 1], values[n]) = g[n]
      BY <1>2
    <3> HIDE DEF g
    <3> QED
      BY <3>1, <3>2, <3>3
  <2> HIDE DEF S, g
  <2>3. 0..N \subseteq S
    BY <1>1, <2>1, <2>2, UpTo
  <2> QED
    BY <2>3 DEF S
<1>6. Filled(l, values) = filled[N]
  BY DEF Filled
<1>7. filled[N] = g[N]
  <2> HIDE DEF filled, g
  <2>1. N \in 0..N
    BY <1>1
  <2> HIDE DEF N
  <2> QED
    BY <2>1, <1>5
<1>8. values # <<>> => SubSeq(values, 1, N) = values /\ N # 0
  OBVIOUS
<1>9. values = <<>> => N = 0
  OBVIOUS
<1> HIDE DEF filled
<1> QED
  BY <1>1, <1>6, <1>7, <1>8, <1>9

(* A list filled with values has these items; the value wanted is stored   *)
(* if it is one of them, another if there are others, else what was stored *)
(* before stays so.                                                        *)
IsFilled(l, V, values, wanted, before) ==
    /\ IsList(l, V) /\ l.items = values
    /\ Contains(values, wanted) => l.stored = wanted
    /\ values # <<>> => Contains(values, l.stored)
    /\ values = <<>> => l.stored = before

(* What Filled gives is a list, with the first value stored.               *)
LEMMA FilledIsList ==
  ASSUME NEW V, NEW values \in Seq(V),
         NEW l, l.stored \in V \cup {None}
  PROVE  /\ IsList(Filled(l, values), V)
         /\ Filled(l, values).items = values
         /\ Filled(l, values).stored = IF values = <<>> THEN l.stored ELSE values[1]
<1>1. CASE values = <<>>
  <2>1. Filled(l, values) = Empty(l.stored)
    BY <1>1, FilledIs
  <2>2. /\ Empty(l.stored) \in [items : Seq(V), index : Nat, stored : V \cup {None}]
        /\ Empty(l.stored).items = <<>> /\ Empty(l.stored).index = 0
        /\ Empty(l.stored).stored = l.stored
    BY DEF Empty
  <2> QED
    BY <1>1, <2>1, <2>2 DEF IsList
<1>2. CASE values # <<>>
  <2>1. Filled(l, values) = [items |-> values, index |-> 1, stored |-> values[1]]
    BY <1>2, FilledIs
  <2>2. 1 \in DOMAIN values /\ values[1] \in V
    BY <1>2
  <2> QED
    BY <1>2, <2>1, <2>2 DEF IsList
<1> QED
  BY <1>1, <1>2

(* Choosing another current item leaves a list.                            *)
LEMMA PickIsList ==
  ASSUME NEW V, NEW l, IsList(l, V), NEW i \in DOMAIN l.items
  PROVE  /\ IsList(setCurrentIndex(l, i), V)
         /\ setCurrentIndex(l, i).items = l.items
         /\ setCurrentIndex(l, i).stored = l.items[i]
<1>1. /\ l = [items |-> l.items, index |-> l.index, stored |-> l.stored]
      /\ l.items \in Seq(V) /\ l.items # <<>>
      /\ i \in Nat /\ l.items[i] \in V
      /\ l.stored = l.items[l.index]
  BY DEF IsList
<1>2. CASE i = l.index
  BY <1>1, <1>2 DEF setCurrentIndex
<1>3. CASE i # l.index
  <2>1. setCurrentIndex(l, i) = [items |-> l.items, index |-> i, stored |-> l.items[i]]
    BY <1>1, <1>3, CurrentStored
  <2> QED
    BY <1>1, <2>1 DEF IsList
<1> QED
  BY <1>2, <1>3

(* populate_dropdown: the default is stored if the values have it.         *)
LEMMA PopulateFills ==
  ASSUME NEW V, NEW values \in Seq(V),
         NEW l, l.stored \in V \cup {None}, NEW wanted
  PROVE  IsFilled(populate_dropdown(l, values, wanted), V, values, wanted, l.stored)
<1> DEFINE filled == Filled(l, values)
<1>1. /\ IsList(filled, V) /\ filled.items = values
      /\ filled.stored = IF values = <<>> THEN l.stored ELSE values[1]
  BY FilledIsList
<1>2. populate_dropdown(l, values, wanted) = setCurrentText(filled, wanted)
  BY DEF populate_dropdown
<1> HIDE DEF filled
<1>3. CASE Contains(values, wanted)
  <2> DEFINE at == CHOOSE i \in DOMAIN values : values[i] = wanted
  <2>1. at \in DOMAIN values /\ values[at] = wanted
    BY <1>3 DEF Contains
  <2>2. setCurrentText(filled, wanted) = setCurrentIndex(filled, at)
    BY <1>1, <1>3 DEF setCurrentText
  <2> HIDE DEF at
  <2>3. /\ IsList(setCurrentIndex(filled, at), V)
        /\ setCurrentIndex(filled, at).items = values
        /\ setCurrentIndex(filled, at).stored = wanted
    BY <1>1, <2>1, PickIsList
  <2> QED
    BY <1>2, <1>3, <2>1, <2>2, <2>3 DEF IsFilled
<1>4. CASE ~Contains(values, wanted)
  <2>1. setCurrentText(filled, wanted) = filled
    BY <1>1, <1>4 DEF setCurrentText
  <2>2. values # <<>> => Contains(values, values[1])
    BY DEF Contains
  <2> QED
    BY <1>1, <1>2, <1>4, <2>1, <2>2 DEF IsFilled
<1> QED
  BY <1>3, <1>4

(* A sequence of elements of a finite set, empty only if the set is.       *)
IsListing(s, S) == s \in Seq(S) /\ (s = <<>> <=> S = {})

(* SetToSeqs gives such sequences.                                         *)
LEMMA ListingOfSet ==
  ASSUME NEW S, IsFiniteSet(S), NEW s \in SetToSeqs(S)
  PROVE  IsListing(s, S)
<1> DEFINE n == Cardinality(S)
<1>1. n \in Nat /\ (n = 0 <=> S = {})
  BY FS_CardinalityType, FS_EmptySet
<1>2. s \in [1..n -> S]
  BY DEF SetToSeqs
<1> HIDE DEF n
<1>3. s \in Seq(S) /\ Len(s) = n
  BY <1>1, <1>2
<1> QED
  BY <1>1, <1>3 DEF IsListing

-----------------------------------------------------------------------------
(* The invariant.                                                          *)

Scalars ==
    /\ interface_type \in {"bluetooth", "serial", None}
    /\ m_bluetooth_rb \in BOOLEAN /\ scanning \in BOOLEAN
    /\ view \in {"home", "settings"}
    /\ m_controllers \in SUBSET Controllers
    /\ m_selected_controller \in Controllers \cup {None}
    /\ m_baudrate \in Range(BaudRates)
    /\ request = <<>> \/ \E d \in Devices \cup SerialDevices \cup {None} : request = <<d>>

ListsInv ==
    /\ list = [c \in Lists |-> list[c]]
    /\ \A c \in Lists : IsList(list[c], Values(c))
    /\ list["baud"].items # <<>>

(* The radio button, the interface in use and the stored choice agree.     *)
InterfaceInv ==
    /\ checked = Interface(interface_type)
    /\ m_hardware_interface = Interface(interface_type)

(* In the settings bluetooth is chosen only where it can be, and then a    *)
(* controller is selected.                                                 *)
ControllerInv ==
    view = "settings" =>
        /\ checked = "bluetooth" => m_bluetooth_rb
        /\ m_bluetooth_rb => m_selected_controller # None

IInv == Scalars /\ ListsInv /\ InterfaceInv /\ ControllerInv

-----------------------------------------------------------------------------
(* The lists.                                                              *)

(* The values of the lists; None is none of them.                          *)
LEMMA ListValues ==
  /\ Lists = {"controller", "device", "serial", "baud"}
  /\ Values("controller") = Controllers /\ Values("device") = Devices
  /\ Values("serial") = SerialDevices /\ Values("baud") = Range(BaudRates)
  /\ \A c \in Lists : None \notin Values(c)
BY SettingsAssumption DEF Lists, Values

(* A stored choice is kept, or there was none, or it is not offered.       *)
Kept(c) == \/ list'[c].stored = list[c].stored
           \/ list[c].stored = None
           \/ ~Contains(list'[c].items, list[c].stored)

(* The lists a start of the program makes, of the values that are stored.  *)
LEMMA StartedLists ==
  ASSUME NEW l, NEW stored,
         \A c \in Lists : {l[c].stored, stored[c]} \subseteq Values(c) \cup {None}
  PROVE  /\ Started(l, stored) = [c \in Lists |-> Started(l, stored)[c]]
         /\ \A c \in Lists : IsList(Started(l, stored)[c], Values(c))
         /\ Started(l, stored)["baud"].items # <<>>
         /\ \A c \in Lists : stored[c] # None => Started(l, stored)[c].stored = stored[c]
<1> DEFINE new == Started(l, stored)
<1>1. new = [c \in Lists |-> new[c]]
  BY DEF Started
<1>2. /\ IsList(new["baud"], Values("baud")) /\ new["baud"].items # <<>>
      /\ stored["baud"] # None => new["baud"].stored = stored["baud"]
  <2> DEFINE wanted == IF stored["baud"] = None THEN DefaultBaudRate ELSE stored["baud"]
  <2>1. new["baud"] = populate_dropdown(l["baud"], BaudRates, wanted)
    BY DEF Started, Lists
  <2>2. {l["baud"].stored, stored["baud"]} \subseteq Range(BaudRates) \cup {None}
    BY ListValues
  <2>3. wanted \in Range(BaudRates)
    BY <2>2, SettingsAssumption
  <2> HIDE DEF wanted
  <2>4. BaudRates \in Seq(Range(BaudRates))
    BY SettingsAssumption
  <2>5. Contains(BaudRates, wanted) /\ BaudRates # <<>>
    BY <2>3, <2>4 DEF Range, Contains
  <2>6. IsFilled(new["baud"], Range(BaudRates), BaudRates, wanted, l["baud"].stored)
    BY <2>1, <2>2, <2>4, PopulateFills
  <2> HIDE DEF new
  <2> QED
    BY <2>5, <2>6, ListValues DEF IsFilled, wanted
<1>3. ASSUME NEW c \in Lists, c # "baud"
      PROVE  /\ IsList(new[c], Values(c))
             /\ stored[c] # None => new[c].stored = stored[c]
  <2> DEFINE V == Values(c)
  <2>1. CASE new[c] = Empty(stored[c])
    <3>1. /\ new[c] \in [items : Seq(V), index : Nat, stored : V \cup {None}]
          /\ new[c].items = <<>> /\ new[c].index = 0 /\ new[c].stored = stored[c]
      BY <2>1 DEF Empty
    <3> HIDE DEF new, V
    <3>2. IsList(new[c], V)
      BY <3>1 DEF IsList
    <3> QED
      BY <3>1, <3>2 DEF V
  <2>2. CASE stored[c] # None /\ new[c] = addItem(Empty(stored[c]), stored[c])
    <3> DEFINE one == <<stored[c]>>
    <3>1. one \in Seq(V) /\ one # <<>> /\ one[1] = stored[c] /\ DOMAIN one = {1}
      BY <2>2
    <3>2. new[c] = [items |-> one, index |-> 1, stored |-> stored[c]]
      BY <2>2, FirstItem
    <3> HIDE DEF new, V, one
    <3>3. /\ new[c].items = one /\ new[c].index = 1 /\ new[c].stored = stored[c]
          /\ new[c] \in [items : Seq(V), index : Nat, stored : V \cup {None}]
      BY <2>2, <3>1, <3>2 DEF V
    <3>4. IsList(new[c], V)
      BY <3>1, <3>3 DEF IsList
    <3> QED
      BY <3>3, <3>4 DEF V
  <2>3. \/ new[c] = Empty(stored[c])
        \/ stored[c] # None /\ new[c] = addItem(Empty(stored[c]), stored[c])
    BY <1>3 DEF Started
  <2> QED
    BY <2>1, <2>2, <2>3
<1> HIDE DEF new
<1>4. "baud" \in Lists
  BY DEF Lists
<1> QED
  BY <1>1, <1>2, <1>3, <1>4 DEF new

(* Initially the lists are as the invariant says.                          *)
LEMMA ListsInit == Init => ListsInv
<1> SUFFICES ASSUME Init PROVE ListsInv
  OBVIOUS
<1> DEFINE l == [c \in Lists |-> Empty(None)]
           stored == [c \in Lists |-> None]
<1>1. list = Started(l, stored)
  BY DEF Init
<1>2. \A c \in Lists : {l[c].stored, stored[c]} \subseteq Values(c) \cup {None}
  BY DEF Empty
<1> HIDE DEF l, stored
<1> QED
  BY <1>1, <1>2, StartedLists DEF ListsInv

(* A restart keeps what is stored.                                         *)
LEMMA RestartLists ==
  ASSUME ListsInv, Restart
  PROVE  ListsInv' /\ \A c \in Lists : Kept(c)
<1> DEFINE stored == [c \in Lists |-> list[c].stored]
<1>1. list' = Started(list, stored)
  BY DEF Restart
<1>2. \A c \in Lists : stored[c] = list[c].stored /\ list[c].stored \in Values(c) \cup {None}
  BY DEF ListsInv, IsList
<1>3. \A c \in Lists : {list[c].stored, stored[c]} \subseteq Values(c) \cup {None}
  BY <1>2
<1> HIDE DEF stored
<1>4. ListsInv'
  BY <1>1, <1>3, StartedLists DEF ListsInv
<1>5. \A c \in Lists : stored[c] # None => list'[c].stored = stored[c]
  BY <1>1, <1>3, StartedLists
<1> QED
  BY <1>2, <1>4, <1>5 DEF Kept

(* Lists that are exchanged for lists of the same values.                  *)
LEMMA ListsExchanged ==
  ASSUME ListsInv, list' = [c \in Lists |-> list'[c]],
         \A c \in Lists : IsList(list'[c], Values(c)),
         list'["baud"] = list["baud"]
  PROVE  ListsInv'
BY DEF ListsInv

(* Showing the settings fills two lists.  With a controller there is one   *)
(* that is stored by then, and selected.                                   *)
LEMMA FillListsKeeps ==
  ASSUME Scalars, ListsInv, FillLists
  PROVE  /\ ListsInv' /\ \A c \in Lists : Kept(c)
         /\ m_selected_controller' \in Controllers \cup {None}
         /\ m_controllers # {} => m_selected_controller' # None
<1>1. PICK controllers \in SetToSeqs(m_controllers), files \in SUBSET SerialDevices :
         \E devices \in SetToSeqs(files) :
            list' = [list EXCEPT
              !["controller"] = populate_dropdown(@, controllers, @.stored),
              !["serial"] = populate_dropdown(@, devices, @.stored)]
  BY DEF FillLists
<1>2. PICK devices \in SetToSeqs(files) :
         list' = [list EXCEPT
           !["controller"] = populate_dropdown(@, controllers, @.stored),
           !["serial"] = populate_dropdown(@, devices, @.stored)]
  BY <1>1
<1>3. /\ list = [c \in Lists |-> list[c]] /\ list["baud"].items # <<>>
      /\ \A c \in Lists : IsList(list[c], Values(c)) /\ list[c].stored \in Values(c) \cup {None}
  BY DEF ListsInv, IsList
<1>4. /\ list'["controller"] =
           populate_dropdown(list["controller"], controllers, list["controller"].stored)
      /\ list'["serial"] = populate_dropdown(list["serial"], devices, list["serial"].stored)
      /\ list'["device"] = list["device"] /\ list'["baud"] = list["baud"]
      /\ list' = [c \in Lists |-> list'[c]]
  BY <1>2, <1>3, ListValues
<1>5. IsListing(controllers, m_controllers) /\ controllers \in Seq(Controllers)
  <2>1. IsFiniteSet(m_controllers)
    BY SettingsAssumption, FS_Subset DEF Scalars
  <2>2. IsListing(controllers, m_controllers)
    BY <2>1, ListingOfSet
  <2> QED
    BY <2>2 DEF IsListing, Scalars
<1>6. IsListing(devices, files) /\ devices \in Seq(SerialDevices)
  <2>1. IsFiniteSet(files)
    BY SettingsAssumption, FS_Subset
  <2>2. IsListing(devices, files)
    BY <2>1, ListingOfSet
  <2> QED
    BY <2>2 DEF IsListing
<1>7. IsFilled(list'["controller"], Controllers, controllers, list["controller"].stored,
               list["controller"].stored)
  BY <1>3, <1>4, <1>5, ListValues, PopulateFills DEF IsListing
<1>8. IsFilled(list'["serial"], SerialDevices, devices, list["serial"].stored,
               list["serial"].stored)
  BY <1>3, <1>4, <1>6, ListValues, PopulateFills DEF IsListing
<1>9. \A c \in Lists : IsList(list'[c], Values(c)) /\ Kept(c)
  BY <1>3, <1>4, <1>7, <1>8, ListValues DEF IsFilled, Kept
<1>10. ListsInv'
  BY <1>4, <1>9, ListsExchanged
<1>11. m_selected_controller' = IF list'["controller"].stored \in m_controllers
                                THEN list'["controller"].stored ELSE m_selected_controller
  BY DEF FillLists, select_controller
<1>12. ASSUME m_controllers # {} PROVE list'["controller"].stored \in m_controllers
  <2>1. controllers \in Seq(m_controllers) /\ Contains(controllers, list'["controller"].stored)
    BY <1>5, <1>7, <1>12 DEF IsFilled, IsListing
  <2> QED
    BY <2>1 DEF Contains
<1> QED
  BY <1>9, <1>10, <1>11, <1>12, SettingsAssumption DEF Scalars

(* A choice of the user.                                                   *)
LEMMA PickLists ==
  ASSUME Scalars, ListsInv, UserPicks
  PROVE  /\ ListsInv' /\ m_selected_controller' \in Controllers \cup {None}
         /\ m_selected_controller # None => m_selected_controller' # None
<1>0. PICK c \in Lists : \E i \in DOMAIN list[c].items : Pick(c, i)
  BY DEF UserPicks
<1>1. PICK i \in DOMAIN list[c].items : Pick(c, i)
  BY <1>0
<1>2. /\ list = [d \in Lists |-> list[d]] /\ \A d \in Lists : IsList(list[d], Values(d))
      /\ list["baud"].items # <<>>
  BY DEF ListsInv
<1>3. list' = [list EXCEPT ![c] = setCurrentIndex(list[c], i)]
  BY <1>1 DEF Pick
<1>4. /\ IsList(setCurrentIndex(list[c], i), Values(c))
      /\ setCurrentIndex(list[c], i).items = list[c].items
  BY <1>2, PickIsList
<1>5. /\ list' = [d \in Lists |-> list'[d]] /\ \A d \in Lists : IsList(list'[d], Values(d))
      /\ list'["baud"].items # <<>>
  BY <1>2, <1>3, <1>4, ListValues
<1>6. m_selected_controller' \in {m_selected_controller} \cup m_controllers
  BY <1>1 DEF Pick, select_controller
<1> QED
  BY <1>5, <1>6, SettingsAssumption DEF ListsInv, Scalars

(* The end of a scan keeps the stored device.                              *)
LEMMA ScanLists ==
  ASSUME ListsInv, scan_complete
  PROVE  ListsInv' /\ \A c \in Lists : Kept(c)
<1> DEFINE stored == list["device"].stored
           Wanted(found) == {p \in found : p[2] # stored}
           others(paths) == [i \in DOMAIN paths |-> paths[i][2]]
           all(paths) == (IF stored = None THEN <<>> ELSE << stored >>) \o others(paths)
<1>1. PICK found \in SUBSET (Controllers \X Devices) :
         \E paths \in SetToSeqs(Wanted(found)) :
            list' = [list EXCEPT !["device"] = Filled(list["device"], all(paths))]
  BY DEF scan_complete
<1>2. PICK paths \in SetToSeqs(Wanted(found)) :
            list' = [list EXCEPT !["device"] = Filled(list["device"], all(paths))]
  BY <1>1
<1> DEFINE values == all(paths)
<1>3. /\ list = [c \in Lists |-> list[c]]
      /\ \A c \in Lists : IsList(list[c], Values(c))
      /\ stored \in Devices \cup {None}
  BY ListValues DEF ListsInv, IsList
<1>4. /\ list'["device"] = Filled(list["device"], values)
      /\ \A c \in Lists \ {"device"} : list'[c] = list[c]
      /\ list' = [c \in Lists |-> list'[c]]
  BY <1>2, <1>3, ListValues
<1>5. paths \in Seq(Controllers \X Devices)
  <2>1. IsFiniteSet(Wanted(found)) /\ Wanted(found) \subseteq Controllers \X Devices
    BY SettingsAssumption, FS_Product, FS_Subset
  <2>2. IsListing(paths, Wanted(found))
    BY <2>1, ListingOfSet
  <2> QED
    BY <2>1, <2>2 DEF IsListing
<1>6. others(paths) \in Seq(Devices)
  BY <1>5
<1>7. /\ values \in Seq(Devices)
      /\ stored # None => values # <<>> /\ values[1] = stored
  <2>1. CASE stored = None
    <3>1. values = others(paths)
      BY <1>6, <2>1
    <3> QED
      BY <1>6, <2>1, <3>1
  <2>2. CASE stored # None
    <3>1. values = << stored >> \o others(paths) /\ stored \in Devices
      BY <1>3, <2>2
    <3> HIDE DEF values, stored, others
    <3> QED
      BY <1>6, <3>1
  <2> QED
    BY <2>1, <2>2
<1> HIDE DEF values
<1>8. /\ IsList(list'["device"], Devices)
      /\ list'["device"].stored = IF values = <<>> THEN stored ELSE values[1]
  BY <1>3, <1>4, <1>7, FilledIsList
<1>9. \A c \in Lists : IsList(list'[c], Values(c)) /\ Kept(c)
  BY <1>3, <1>4, <1>7, <1>8, ListValues DEF Kept
<1>10. list'["baud"] = list["baud"]
  BY <1>4, ListValues
<1> QED
  BY <1>4, <1>9, <1>10, ListsExchanged

-----------------------------------------------------------------------------
(* The invariant holds.                                                    *)

(* Whichever interface is chosen, it is the stored one afterwards.         *)
LEMMA UseInterface ==
  ASSUME Scalars, InterfaceInv, NEW interface \in {"bluetooth", "serial"}, Use(interface)
  PROVE  /\ InterfaceInv' /\ interface_type' \in {"bluetooth", "serial", None}
         /\ checked' = interface
<1>1. \A i \in {"bluetooth", "serial"} : Interface(i) = i
  BY SettingsAssumption DEF Interface
<1>2. Interface(interface_type') = interface
  BY <1>1 DEF Use
<1> QED
  BY <1>1, <1>2 DEF Use, InterfaceInv, Scalars

(* Initially the invariant holds.                                          *)
LEMMA InvInit == Init => IInv
<1> SUFFICES ASSUME Init PROVE IInv
  OBVIOUS
<1>1. ListsInv
  BY ListsInit
<1>2. Scalars /\ InterfaceInv /\ ControllerInv
  BY SettingsAssumption DEF Init, Scalars, InterfaceInv, ControllerInv, Interface
<1> QED
  BY <1>1, <1>2 DEF IInv

(* Lists nobody touches stay lists, and keep what is stored.               *)
LEMMA ListsUnchanged ==
  ASSUME UNCHANGED list
  PROVE  (ListsInv => ListsInv') /\ \A c \in Lists : Kept(c)
BY DEF ListsInv, Kept

(* Every step keeps the lists, and stored choices unless the user picks.   *)
LEMMA ListsStep ==
  ASSUME Scalars, ListsInv, [Next]_vars
  PROVE  ListsInv' /\ (UserPicks \/ \A c \in Lists : Kept(c))
<1>1. CASE UNCHANGED list
  BY <1>1, ListsUnchanged
<1>2. CASE Restart
  BY <1>2, RestartLists
<1>3. CASE on_show
  BY <1>3, FillListsKeeps DEF on_show
<1>4. CASE UserPicks
  BY <1>4, PickLists
<1>5. CASE scan_complete
  BY <1>5, ScanLists
<1> QED
  BY <1>1, <1>2, <1>3, <1>4, <1>5
  DEF Next, vars, ControllersChange, home_clicked, select_bluetooth, select_serial, Choose,
      scan_bluetooth, Connect, AttemptEnds

(* Every step keeps the invariant.                                         *)
LEMMA InvStep == IInv /\ [Next]_vars => IInv'
<1> SUFFICES ASSUME IInv, [Next]_vars PROVE Scalars' /\ InterfaceInv' /\ ControllerInv'
  BY ListsStep DEF IInv
<1> USE DEF IInv
<1>1. CASE Restart
  <2>1. Interface(interface_type) \in {"bluetooth", "serial"}
    BY DEF Scalars, Interface
  <2> QED
    BY <1>1, <2>1, SettingsAssumption
    DEF Restart, Scalars, InterfaceInv, ControllerInv
<1>2. CASE ControllersChange
  <2>1. m_controllers' \in SUBSET Controllers
    BY <1>2 DEF ControllersChange, Scalars
  <2> QED
    BY <1>2, <2>1 DEF ControllersChange, Scalars, InterfaceInv, ControllerInv, interfaceVars,
                      viewVars, portVars
<1>3. CASE on_show
  <2>1. /\ UNCHANGED <<scanning, m_controllers, m_baudrate, request>> /\ view' = "settings"
        /\ m_bluetooth_rb' = (m_controllers # {})
    BY <1>3 DEF on_show, FillLists
  <2>2. /\ m_selected_controller' \in Controllers \cup {None}
        /\ m_controllers # {} => m_selected_controller' # None
    BY <1>3, FillListsKeeps DEF on_show
  <2>3. CASE m_controllers = {}
    <3>1. Use("serial")
      BY <1>3, <2>3 DEF on_show
    <3>2. /\ InterfaceInv' /\ interface_type' \in {"bluetooth", "serial", None}
          /\ checked' = "serial"
      BY <3>1, UseInterface
    <3> QED
      BY <2>1, <2>2, <2>3, <3>2 DEF Scalars, ControllerInv
  <2>4. CASE m_controllers # {}
    <3>1. UNCHANGED interfaceVars
      BY <1>3, <2>4 DEF on_show
    <3> QED
      BY <2>1, <2>2, <2>4, <3>1 DEF Scalars, InterfaceInv, ControllerInv, interfaceVars
  <2> QED
    BY <2>3, <2>4
<1>4. CASE home_clicked
  BY <1>4 DEF home_clicked, Scalars, InterfaceInv, ControllerInv, interfaceVars, portVars
<1>5. CASE select_bluetooth \/ select_serial
  <2>1. PICK interface \in {"bluetooth", "serial"} :
           Choose(interface) /\ (interface = "bluetooth" => m_bluetooth_rb)
    BY <1>5 DEF select_bluetooth, select_serial
  <2>2. /\ InterfaceInv' /\ interface_type' \in {"bluetooth", "serial", None}
        /\ checked' = interface
    BY <2>1, UseInterface DEF Choose
  <2> QED
    BY <2>1, <2>2 DEF Choose, Scalars, ControllerInv, viewVars, portVars
<1>6. CASE UserPicks
  <2>1. UNCHANGED <<interfaceVars, viewVars, scanning, m_controllers, m_baudrate, request>>
    BY <1>6 DEF UserPicks, Pick
  <2>2. /\ m_selected_controller' \in Controllers \cup {None}
        /\ m_selected_controller # None => m_selected_controller' # None
    BY <1>6, PickLists
  <2> QED
    BY <2>1, <2>2 DEF Scalars, InterfaceInv, ControllerInv, interfaceVars, viewVars
<1>7. CASE scan_bluetooth
  BY <1>7 DEF scan_bluetooth, Scalars, InterfaceInv, ControllerInv, interfaceVars, viewVars,
              portVars
<1>8. CASE scan_complete
  BY <1>8 DEF scan_complete, Scalars, InterfaceInv, ControllerInv, interfaceVars, viewVars,
              portVars
<1>9. CASE Connect
  <2>1. UNCHANGED <<interfaceVars, list, viewVars, scanning, m_controllers>>
    BY <1>9 DEF Connect
  <2>2. /\ list["device"].stored \in Devices \cup {None}
        /\ list["serial"].stored \in SerialDevices \cup {None}
    BY ListValues DEF ListsInv, IsList
  <2>3. request' = <<list["device"].stored>> \/ request' = <<list["serial"].stored>>
    BY <1>9 DEF Connect, get_selected_device
  <2>4. \E d \in Devices \cup SerialDevices \cup {None} : request' = <<d>>
    BY <2>2, <2>3
  <2>5. m_selected_controller' \in {m_selected_controller} \cup m_controllers
    BY <1>9 DEF Connect, get_selected_device, select_controller
  <2>6. m_baudrate' \in Range(BaudRates)
    BY <1>9 DEF Connect, get_selected_device, set_baudrate, Scalars, Contains, Range
  <2>7. view = "home"
    BY <1>9 DEF Connect
  <2>8. Scalars'
    BY <2>1, <2>4, <2>5, <2>6 DEF Scalars, interfaceVars, viewVars
  <2> QED
    BY <2>1, <2>7, <2>8 DEF InterfaceInv, ControllerInv, interfaceVars, viewVars
<1>10. CASE AttemptEnds
  BY <1>10 DEF AttemptEnds, Scalars, InterfaceInv, ControllerInv, interfaceVars, viewVars,
               portVars
<1>11. CASE UNCHANGED vars
  BY <1>11 DEF vars, Scalars, InterfaceInv, ControllerInv, interfaceVars, viewVars, portVars
<1> QED
  BY <1>1, <1>2, <1>3, <1>4, <1>5, <1>6, <1>7, <1>8, <1>9, <1>10, <1>11 DEF Next

(* The invariant holds always.                                             *)
LEMMA Invariance == Spec => []IInv
BY InvInit, InvStep, PTL DEF Spec

-----------------------------------------------------------------------------
(* The results.                                                            *)

(* The variables have their types, and what a list shows is what QSettings *)
(* holds for it (setCurrentIndex, valid_dropdown_index).                   *)
THEOREM TypeCorrect == Spec => []TypeOK
<1>1. ASSUME IInv PROVE TypeOK
  <2>1. {checked, m_hardware_interface} \subseteq {"bluetooth", "serial"}
    BY <1>1 DEF IInv, InterfaceInv, Scalars, Interface
  <2>2. ASSUME NEW c \in Lists
        PROVE  /\ list[c].items \in Seq(Values(c))
               /\ list[c].index \in DOMAIN list[c].items \cup {0}
               /\ list[c].stored \in Values(c) \cup {None}
               /\ list[c].index # 0 => Shown(list[c]) = list[c].stored
    <3>1. IsList(list[c], Values(c))
      BY <1>1 DEF IInv, ListsInv
    <3> QED
      BY <3>1 DEF IsList, Shown
  <2> QED
    BY <1>1, <2>1, <2>2 DEF IInv, Scalars, TypeOK
<1> QED
  BY <1>1, Invariance, PTL

(* While the Scan button can be clicked a controller is selected           *)
(* (Settings::on_show, BluetoothSerialPort::probe_remote_devices).         *)
THEOREM ScanIsHeard == Spec => []ScanHasController
<1>1. IInv => ScanHasController
  BY DEF IInv, ControllerInv, ScanHasController
<1> QED
  BY <1>1, Invariance, PTL

(* A stored choice is given up only for another of the user's, or when it  *)
(* is no longer offered; the interface changes by itself only when the     *)
(* settings are shown and no controller is known (populate_dropdown,       *)
(* on_show and scan_complete of Settings).                                 *)
THEOREM ChoicesSurvive == Spec => ChoicesKept
<1> DEFINE ListsKept == \A c \in Lists : \/ list'[c].stored = list[c].stored
                                         \/ list[c].stored = None
                                         \/ ~Contains(list'[c].items, list[c].stored)
           InterfaceKept == \/ select_bluetooth \/ select_serial
                            \/ interface_type' = interface_type
                            \/ view' = "settings" /\ m_controllers = {}
<1>1. ASSUME IInv, [Next]_vars PROVE UserPicks \/ ListsKept
  BY <1>1, ListsStep DEF IInv, Kept
<1>2. ASSUME [Next]_vars PROVE InterfaceKept
  <2>1. CASE on_show
    BY <2>1 DEF on_show, interfaceVars
  <2>2. CASE UserPicks
    BY <2>2 DEF UserPicks, Pick, interfaceVars
  <2> QED
    BY <1>2, <2>1, <2>2
    DEF Next, vars, Restart, ControllersChange, home_clicked, scan_bluetooth, scan_complete,
        Connect, AttemptEnds, interfaceVars
<1>3. IInv /\ [Next]_vars => [(UserPicks \/ ListsKept) /\ InterfaceKept]_vars
  BY <1>1, <1>2
<1> QED
  BY <1>3, Invariance, PTL DEF Spec, ChoicesKept

(* An attempt to connect is made with what the settings display            *)
(* (Settings::get_selected_device).                                        *)
THEOREM RequestAsShown == Spec => RequestMatchesShown
<1> DEFINE shown(c) == Shown(list[c])
           device == request'[1]
           Matches == /\ m_hardware_interface = checked
                      /\ checked = "bluetooth" =>
                           /\ shown("device") \in {None, device}
                           /\ shown("controller") \in {None, m_selected_controller'}
                                                      \cup (Controllers \ m_controllers)
                      /\ checked = "serial" => /\ shown("serial") \in {None, device}
                                               /\ shown("baud") = m_baudrate'
<1>1. ASSUME IInv, Connect PROVE Matches
  <2>1. /\ checked = Interface(interface_type) /\ m_hardware_interface = checked
        /\ get_selected_device
    BY <1>1 DEF IInv, InterfaceInv, Connect
  <2>2. ASSUME NEW c \in Lists
        PROVE  /\ shown(c) \in {None, list[c].stored}
               /\ list[c].items # <<>> => /\ shown(c) = list[c].stored
                                          /\ Contains(list[c].items, shown(c))
    <3>1. IsList(list[c], Values(c))
      BY <1>1 DEF IInv, ListsInv
    <3>2. list[c].items = <<>> => shown(c) = None
      BY <3>1 DEF IsList, Shown
    <3>3. list[c].items # <<>> => /\ shown(c) = list[c].stored
                                  /\ list[c].index \in DOMAIN list[c].items
                                  /\ shown(c) = list[c].items[list[c].index]
      BY <3>1 DEF IsList, Shown
    <3>4. list[c].items \in Seq(Values(c))
      BY <3>1 DEF IsList
    <3> QED
      BY <3>2, <3>3, <3>4 DEF Contains
  <2>3. CASE checked = "bluetooth"
    <3>1. device = list["device"].stored
      BY <2>1, <2>3 DEF get_selected_device
    <3>2. m_selected_controller' = IF list["controller"].stored \in m_controllers
                                   THEN list["controller"].stored ELSE m_selected_controller
      BY <2>1, <2>3 DEF get_selected_device, select_controller
    <3>3. list["controller"].stored \in Controllers \cup {None}
      BY <1>1, ListValues DEF IInv, ListsInv, IsList
    <3> HIDE DEF shown, device
    <3>4. shown("device") \in {None, device}
      BY <2>2, <3>1, ListValues
    <3>5. shown("controller") \in {None, m_selected_controller'} \cup (Controllers \ m_controllers)
      BY <2>2, <3>2, <3>3, ListValues
    <3> QED
      BY <2>1, <2>3, <3>4, <3>5
  <2>4. CASE checked # "bluetooth"
    <3>1. device = list["serial"].stored
      BY <2>1, <2>4 DEF get_selected_device
    <3>2. m_baudrate' = IF Contains(BaudRates, list["baud"].stored) THEN list["baud"].stored
                                                                    ELSE m_baudrate
      BY <2>1, <2>4 DEF get_selected_device, set_baudrate
    <3>3. list["baud"].items # <<>> /\ list["baud"].stored \in Range(BaudRates)
      <4>1. IsList(list["baud"], Range(BaudRates)) /\ list["baud"].items # <<>>
        BY <1>1, ListValues DEF IInv, ListsInv
      <4> QED
        BY <4>1 DEF IsList
    <3>4. Contains(BaudRates, list["baud"].stored)
      BY <3>3, SettingsAssumption DEF Range, Contains
    <3> HIDE DEF shown, device
    <3>5. shown("serial") \in {None, device} /\ shown("baud") = m_baudrate'
      BY <2>2, <3>1, <3>2, <3>3, <3>4, ListValues
    <3> QED
      BY <2>1, <2>4, <3>5
  <2> QED
    BY <2>3, <2>4
<1>2. ASSUME [Next]_vars, request = <<>>, request' # <<>> PROVE Connect
  <2>1. ~UNCHANGED request
    BY <1>2
  <2>2. ~AttemptEnds
    BY <1>2 DEF AttemptEnds
  <2> QED
    BY <1>2, <2>1, <2>2
    DEF Next, vars, Restart, ControllersChange, on_show, FillLists, home_clicked,
        select_bluetooth, select_serial, Choose, UserPicks, Pick, scan_bluetooth, scan_complete
<1>3. IInv /\ [Next]_vars => [request = <<>> /\ request' # <<>> => Matches]_vars
  BY <1>1, <1>2
<1> QED
  BY <1>3, Invariance, PTL DEF Spec, RequestMatchesShown
=============================================================================
