--------------------------- MODULE ObjectMessages ---------------------------
(***************************************************************************)
(* The messages in which bluez tells of its objects, as DBusType reads     *)
(* them and add_object and remove_object take them apart, against the      *)
(* objects of module ObjectInventory; and the dictionary RegisterProfile   *)
(* is called with.                                                         *)
(***************************************************************************)
EXTENDS ObjectInventory, DBusMessage

(* A message tells of finitely many objects.                               *)
ASSUME MessagesAssumption == IsFiniteSet(Controllers) /\ IsFiniteSet(Addresses)

Text(s) == BasicValue("s", s)

(* Properties of a device: texts, flags, numbers, lists and dictionaries,  *)
(* each in a variant, and each of them also empty.                         *)
Flag == BasicValue("b", TRUE)
Number == BasicValue("n", -1)
Extras == <<Flag, Number, List("a", <<>>), List("a", <<Text("uuid"), Text("uuid")>>), Dict(<<>>),
            Dict(<<<<Number, Variant(List("a", <<Flag>>))>>, <<Number, Variant(Flag)>>>>),
            List("r", <<Number, Dict(<<>>), Text("x")>>)>>

Adapter == Dict(<<>>)
Device(address, extra) == Dict(<<<<Text("Address"), Variant(Text(address))>>,
                                 <<Text("Other"), Variant(extra)>>>>)

(* The interfaces of the object at a path; a device has others as well.    *)
Interfaces(object, extra) ==
    IF object \in Controllers THEN Dict(<<<<Text("Adapter1"), Adapter>>>>)
    ELSE Dict(<<<<Text("Properties"), Dict(<<>>)>>,
                <<Text("Device1"), Device(object[2], extra)>>>>)

(* The reply to GetManagedObjects.                                         *)
ObjectsReply(objects, extra) ==
    LET order == SetToSeq(objects)
    IN Dict([i \in DOMAIN order |-> <<Text(order[i]), Interfaces(order[i], extra)>>])

-----------------------------------------------------------------------------
(* What get_objects_complete and add_object take from what was read.       *)

Has(interfaces, name) == Value("s", name) \in DOMAIN interfaces.of
At(dict, name) == dict.of[Value("s", name)]

PathsRead(dict, interface) == {key.of : key \in {k \in DOMAIN dict.of : Has(dict.of[k], interface)}}

AddressRead(interfaces) == At(At(interfaces, "Device1"), "Address").of

ReplyUnderstood(adapterPaths, devicePaths, extra) ==
    LET reply == ObjectsReply(adapterPaths \cup devicePaths, extra).marks
        read == DBusType(reply, 1)
    IN /\ read.at = Len(reply) + 1
       /\ PathsRead(read.value, "Adapter1") = adapterPaths
       /\ PathsRead(read.value, "Device1") = devicePaths
       /\ \A p \in devicePaths : AddressRead(read.value.of[Value("s", p)]) = p[2]

(* Two values, read one after the other: the path, then the interfaces, or *)
(* their names.                                                            *)
SignalUnderstood(kind, object, extra) ==
    LET names == List("a", <<Text("Properties"),
                             Text(IF object \in Controllers THEN "Adapter1" ELSE "Device1")>>)
        second == IF kind = "added" THEN Interfaces(object, extra) ELSE names
        signal == Text(object).marks \o second.marks
        path == DBusType(signal, 1)
    IN /\ path.value.of = object
       /\ DBusType(signal, path.at) = Read(second.meaning, Len(signal) + 1)

(* The options RegisterProfile is given, and a number that is too wide.    *)
Params == <<<<"Name", Value("s", "obd-serial")>>, <<"Service", Value("s", "SPP")>>,
            <<"Role", Value("s", "client")>>, <<"Channel", Value("int", 1)>>,
            <<"AutoConnect", Value("b", TRUE)>>>>
Wide == <<"Wide", Value("int", 2^16 + 2)>>

ParamsUnderstood ==
    \A params \in {<<>>, Params, Append(Params, Wide)} :
      LET written == dbus_message_append_dict(<<>>, params)
          read == DBusType(written, 1)
      IN /\ read.at = Len(written) + 1
         /\ read.value.of =
              [key \in {Value("s", params[i][1]) : i \in DOMAIN params} |->
                 LET given == (CHOOSE i \in DOMAIN params : params[i][1] = key.of)
                     val == params[given][2]
                 IN IF val.kind = "int" THEN Value("q", val.of % 2^16) ELSE val]

(* Whatever a message holds, it is read for what it means, to its end and  *)
(* not beyond, also when it holds empty or repeated parts.                 *)
SamplesReadBack ==
    \A n \in DOMAIN Extras : \A before, following \in {<<>>, <<Close>>, Flag.marks} :
        /\ ReadsBack(before, Extras[n], following)
        /\ ReadsBack(before, Variant(Extras[n]), following)

(* The snapshot and the signals on their way, as messages, tell of exactly *)
(* the objects bluez has sent: nothing of a message is lost, or taken for  *)
(* another object, between bluez and the inventory.                        *)
MessagesUnderstood ==
    /\ \A n \in DOMAIN Extras :
         /\ ReplyUnderstood(snapshot.adapters, snapshot.devices, Extras[n])
         /\ \A i \in DOMAIN signals : SignalUnderstood(signals[i][1], signals[i][2], Extras[n])
    /\ SamplesReadBack /\ ParamsUnderstood
=============================================================================
