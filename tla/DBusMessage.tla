---------------------------- MODULE DBusMessage -----------------------------
(***************************************************************************)
(* dbus-type.hpp, which reads a value from a D-Bus message, and            *)
(* dbus_message_append_dict of bluetooth-serial-port.cpp, which writes a   *)
(* dictionary to one.  A message is a sequence of marks: a basic value, or *)
(* the start or the end of a container.  Of a container's signature only   *)
(* an array's matters: whether its elements are dictionary entries.  The   *)
(* read position is the number of a mark; an end mark there says that the  *)
(* container is read.                                                      *)
(***************************************************************************)
EXTENDS Integers, Sequences, SequencesExt

Basic(type, of) == [mark |-> "basic", type |-> type, of |-> of]
Open(type, contents) == [mark |-> "open", type |-> type, contents |-> contents]
Close == [mark |-> "close"]

-----------------------------------------------------------------------------
(* sd-bus: each returns the position after it, the same one if it fails.   *)

AtEnd(msg, at) == at > Len(msg) \/ msg[at].mark = "close"

enter_container(at) == at + 1

(* A container that is not read to its end is not left.                    *)
exit_container(msg, at) == IF at <= Len(msg) /\ msg[at].mark = "close" THEN at + 1 ELSE at

(* The value of a basic mark, and a value together with the position.      *)
Value(kind, of) == [kind |-> kind, of |-> of]
Read(value, at) == [value |-> value, at |-> at]

-----------------------------------------------------------------------------
(* The functions the constructor of DBusType calls.  What the constructor  *)
(* reads at each position, for a value held in this one, is in nested.     *)

(* A loop that reads one part after the other, as one tells, to the end:   *)
(* from each position, if more is what it reads with a turn less.          *)
Turn(msg, one, more) ==
    [at \in 1..Len(msg) + 1 |->
       IF AtEnd(msg, at) THEN Read(<<>>, at)
       ELSE LET part == one[at]
                rest == more[part.at]
            IN Read(<<part.value>> \o rest.value, rest.at)]

Parts(msg, one, at) ==
    LET turns[n \in 0..Len(msg)] == IF n = 0 THEN <<>> ELSE Turn(msg, one, turns[n - 1])
    IN turns[Len(msg)][at]

read_array(msg, nested, at) ==
    LET read == Parts(msg, nested, at) IN Read(Value("array", read.value), read.at)

(* emplace keeps the first value of a key.                                 *)
emplace(result, key, value) ==
    [k \in DOMAIN result \cup {key} |-> IF k \in DOMAIN result THEN result[k] ELSE value]

EntryAt(msg, nested, at) ==
    LET key == nested[enter_container(at)]
        value == nested[key.at]
    IN Read(<<key.value, value.value>>, exit_container(msg, value.at))

read_dict(msg, nested, at) ==
    LET read == Parts(msg, [p \in 1..Len(msg) |-> EntryAt(msg, nested, p)], at)
        result[n \in 0..Len(read.value)] ==
          IF n = 0 THEN <<>>
          ELSE emplace(result[n - 1], read.value[n][1], read.value[n][2])
    IN Read(Value("dict", result[Len(read.value)]), read.at)

(* Mutant: only an element tells a dictionary from an array.               *)
ReadContainerByElement(msg, nested, at) ==
    LET in == enter_container(at)
        is_dict == msg[at].type = "a" /\ ~AtEnd(msg, in) /\ msg[in].type = "e"
        read == IF is_dict THEN read_dict(msg, nested, in) ELSE read_array(msg, nested, in)
    IN Read(read.value, exit_container(msg, read.at))

(* An array of entries is a dictionary; an empty one shows it only in its  *)
(* signature.  A structure is read like an array.                          *)
read_container(msg, nested, at) ==
    LET in == enter_container(at)
        is_dict == IF AtEnd(msg, in) THEN msg[at].contents = "{}"
                                     ELSE msg[at].type = "a" /\ msg[in].type = "e"
        read == IF is_dict THEN read_dict(msg, nested, in) ELSE read_array(msg, nested, in)
    IN Read(read.value, exit_container(msg, read.at))

(* A variant is replaced by what it holds.                                 *)
read_variant(msg, nested, at) ==
    LET held == nested[enter_container(at)] IN Read(held.value, exit_container(msg, held.at))

(* The constructor, called with the message at a position.                 *)
ReadAt(msg, nested, at) ==
    IF msg[at].mark = "basic" THEN Read(Value(msg[at].type, msg[at].of), at + 1)
    ELSE IF msg[at].type = "v" THEN read_variant(msg, nested, at)
                               ELSE read_container(msg, nested, at)

(* Values are not nested deeper than the message has marks.                *)
Readings(msg) ==
    LET deep[n \in 0..Len(msg)] ==
          IF n = 0 THEN <<>> ELSE [at \in 1..Len(msg) |-> ReadAt(msg, deep[n - 1], at)]
    IN deep

DBusType(msg, at) == Readings(msg)[Len(msg)][at]

-----------------------------------------------------------------------------
Container(type, contents, marks) == <<Open(type, contents)>> \o marks \o <<Close>>

(* dbus_message_append_dict and DBusVariantVisitor: an integer is written  *)
(* as 16 bits, a boolean as it is.                                         *)
Visited(val) ==
    Container("v", "", IF val.kind = "int" THEN <<Basic("q", val.of % 2^16)>>
                                           ELSE <<Basic(val.kind, val.of)>>)

AppendedEntry(entry) == Container("e", "", <<Basic("s", entry[1])>> \o Visited(entry[2]))

dbus_message_append_dict(msg, dict) ==
    msg \o Container("a", "{}", FlattenSeq([i \in DOMAIN dict |-> AppendedEntry(dict[i])]))

-----------------------------------------------------------------------------
(* What bluez sends: each value with its marks and its meaning.            *)

BasicValue(type, of) == [marks |-> <<Basic(type, of)>>, meaning |-> Value(type, of)]

Variant(v) == [marks |-> Container("v", "", v.marks), meaning |-> v.meaning]

(* An array, of type "a", or a structure, "r".                             *)
List(type, vs) ==
    [marks |-> Container(type, "", FlattenSeq([i \in DOMAIN vs |-> vs[i].marks])),
     meaning |-> Value("array", [i \in DOMAIN vs |-> vs[i].meaning])]

(* A dictionary, given as a sequence of pairs.  Of several values for one  *)
(* key the first counts.                                                   *)
EntryMarks(entry) == Container("e", "", entry[1].marks \o entry[2].marks)

FirstWith(entries, key) == CHOOSE i \in DOMAIN entries :
                             /\ entries[i][1].meaning = key
                             /\ \A j \in 1..(i - 1) : entries[j][1].meaning # key

Dict(entries) ==
    [marks |-> Container("a", "{}", FlattenSeq([i \in DOMAIN entries |-> EntryMarks(entries[i])])),
     meaning |-> Value("dict", [key \in {entries[i][1].meaning : i \in DOMAIN entries} |->
                                  entries[FirstWith(entries, key)][2].meaning])]

(* A value is read back for what it means, and the position is behind it,  *)
(* whatever stands before and after it.                                    *)
ReadsBack(before, v, following) ==
    DBusType(before \o v.marks \o following, Len(before) + 1)
      = Read(v.meaning, Len(before) + Len(v.marks) + 1)
=============================================================================
