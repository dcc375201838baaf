------------------------------ MODULE ElmText -------------------------------
(***************************************************************************)
(* string_to_completion of elm327.cpp: what a callback is given for the    *)
(* text the adapter answered.  A text is a sequence of cells, which are    *)
(* what the stream reads at once: a hexadecimal number, a space, a carriage *)
(* return, the prompt, or a character that is none of these.               *)
(***************************************************************************)
EXTENDS Elm327, SequencesExt

CONSTANT Rounds      \* lines of a reply

ASSUME RoundsAssumption == Rounds \in Nat

Number(n) == <<"number", n>>
Space == <<"space">>
CR == <<"return">>
Prompt == <<"prompt">>
Letter == <<"letter">>
EndOfText == <<"end">>

-----------------------------------------------------------------------------
(* The stringstream: peek fails once the end was seen, not when it is seen *)
(* for the first time; >> skips blanks, a carriage return among them, and  *)
(* a failed >> leaves its variable at 0.                                   *)

Stream(text) == [rest |-> text, eof |-> FALSE, fail |-> FALSE]

Good(s) == ~s.eof /\ ~s.fail

peek(s) == IF Good(s) /\ s.rest # <<>> THEN Head(s.rest) ELSE EndOfText
Peeked(s) == [rest |-> s.rest, eof |-> s.eof \/ (Good(s) /\ s.rest = <<>>), fail |-> ~Good(s)]

Unblanked(cells) ==
    LET blanks == {i \in DOMAIN cells : \A j \in 1..i : cells[j] \in {Space, CR}}
    IN SubSeq(cells, Cardinality(blanks) + 1, Len(cells))

got(s) == [rest |-> Tail(s.rest), eof |-> s.eof, fail |-> s.fail]

(* >> std::hex >> temp: the number and the stream behind it.               *)
Extracted(s) ==
    LET cells == IF Good(s) THEN Unblanked(s.rest) ELSE <<>>
    IN IF cells # <<>> /\ Head(cells)[1] = "number"
       THEN [temp |-> Head(cells)[2], stream |-> [rest |-> Tail(cells), eof |-> Tail(cells) = <<>>,
                                                  fail |-> s.fail]]
       ELSE [temp |-> 0, stream |-> [rest |-> cells, eof |-> s.eof \/ cells = <<>>,
                                     fail |-> TRUE]]

-----------------------------------------------------------------------------
(* A turn of a loop changes nothing once the loop is over, and one that    *)
(* does not end it reads a cell: as many turns as there are cells, and one *)
(* for the end, are all there are.                                         *)
Turns(s) == Len(s.rest) + 1

(* The loop of get_header.                                                 *)
header_turn(r) ==
    IF r.over \/ r.stream.fail THEN r
    ELSE IF peek(r.stream) = CR THEN [header |-> 0, stream |-> r.stream, over |-> TRUE]
    ELSE LET read == Extracted(Peeked(r.stream))
         IN [header |-> r.header * 256 + read.temp, stream |-> read.stream, over |-> FALSE]

(* Mutant: a header is one number, whatever the protocol.                  *)
HeaderOneNumber(s, is_CAN) == header_turn([header |-> 0, stream |-> s, over |-> FALSE])

get_header(s, is_CAN) ==
    LET first == header_turn([header |-> 0, stream |-> s, over |-> FALSE])
    IN IF is_CAN THEN first ELSE header_turn(header_turn(first))

(* obd_data[header] comes into being with its first byte.                  *)
push_back(obd_data, header, byte) ==
    [h \in DOMAIN obd_data \cup {header} |->
       (IF h \in DOMAIN obd_data THEN obd_data[h] ELSE <<>>)
       \o (IF h = header THEN <<byte>> ELSE <<>>)]

(* The loops of string_to_completion: the bytes of a line, and the lines.  *)
data_turn(r, header) ==
    IF r.stream.fail \/ peek(r.stream) = CR THEN r
    ELSE LET read == Extracted(Peeked(r.stream))
         IN [obd_data |-> push_back(r.obd_data, header, read.temp % 256),
             stream |-> read.stream]

data_loop(s, header, obd_data) ==
    LET turn[n \in 0..Turns(s)] == IF n = 0 THEN [obd_data |-> obd_data, stream |-> s]
                                   ELSE data_turn(turn[n - 1], header)
    IN turn[Turns(s)]

line_turn(r, is_CAN) ==
    LET head == get_header(Peeked(r.stream), is_CAN)
        data == data_loop(head.stream, head.header, r.obd_data)
        next == IF data.stream.fail THEN data.stream ELSE got(data.stream)
    IN IF r.over \/ r.stream.fail \/ peek(r.stream) = Prompt THEN r
       ELSE IF head.header = 0
       THEN [obd_data |-> r.obd_data, stream |-> head.stream, over |-> TRUE]
       ELSE [obd_data |-> data.obd_data, stream |-> next, over |-> FALSE]

string_to_completion(text, is_CAN) ==
    LET s == Stream(text)
        turn[n \in 0..Turns(s)] ==
          IF n = 0 THEN [obd_data |-> <<>>, stream |-> s, over |-> FALSE]
          ELSE line_turn(turn[n - 1], is_CAN)
    IN turn[Turns(s)].obd_data

-----------------------------------------------------------------------------
(* What the adapter writes.  A module of the vehicle answers in lines; the *)
(* header of a line is one number on CAN and three otherwise.  A space may *)
(* follow every number, also the last of a line.                           *)

Line(header, data) == [header |-> header, data |-> data]

HeaderOf(module, is_CAN) == IF is_CAN THEN <<2024 + module>> ELSE <<72, 107, module>>

LinesFor(c, is_CAN) ==
    {Line(HeaderOf(module, is_CAN), data) :
       module \in {Address[c], Address[c] + 1}, data \in {<<65>>, <<65, 0, 255>>}}

RepliesTo(c, is_CAN) == UNION {[1..n -> LinesFor(c, is_CAN)] : n \in 1..Rounds}

Spaced(numbers) ==
    [i \in 1..2 * Len(numbers) - 1 |->
       IF i % 2 = 1 THEN Number(numbers[(i + 1) \div 2]) ELSE Space]

LineText(l, trailing) ==
    Spaced(l.header \o l.data) \o (IF trailing THEN <<Space, CR>> ELSE <<CR>>)

Text(lines, trailing) ==
    FlattenSeq([i \in DOMAIN lines |-> LineText(lines[i], trailing)]) \o <<CR, Prompt>>

(* OK, NO DATA, ?, STOPPED, UNABLE TO CONNECT.                             *)
Message == <<Letter, Space, Letter, CR, CR, Prompt>>

(* What the lines say: the bytes of each module, in order.                 *)
HeaderValue(header) ==
    IF Len(header) = 1 THEN header[1] ELSE 65536 * header[1] + 256 * header[2] + header[3]

Said(lines) ==
    [h \in {HeaderValue(lines[i].header) : i \in DOMAIN lines} |->
       FlattenSeq([i \in DOMAIN lines |->
                     IF HeaderValue(lines[i].header) = h THEN lines[i].data ELSE <<>>])]

ReadAsSaid(lines, is_CAN) ==
    LET first == HeaderValue(lines[1].header)
        spaced == string_to_completion(Text(lines, TRUE), is_CAN)
        cut == string_to_completion(Spaced(lines[1].header \o lines[1].data), is_CAN)
    IN /\ string_to_completion(Text(lines, FALSE), is_CAN) = Said(lines)
       \* >> skips the return behind a space, and the lines run together
       /\ DOMAIN spaced = {first} /\ IsPrefix(lines[1].data, spaced[first])
       \* a byte is made of the end
       /\ DOMAIN cut = {first} /\ cut[first] = Append(lines[1].data, 0)

(* A callback is given what the adapter's text says: the bytes of every    *)
(* module that answered, in order, whatever the protocol; nothing when the *)
(* text is a message, the OK of ATSH, or empty; and of a text whose lines  *)
(* end in a space, or that is cut off, at least the first line's bytes.    *)
ResponsesRead ==
    \A i \in DOMAIN m_completion_queue :
      LET reply == m_completion_queue[i].obd_data
      IN \A is_CAN \in BOOLEAN :
           /\ \A text \in {<<>>, Message} : string_to_completion(text, is_CAN) = <<>>
           /\ reply \in Commands => \A lines \in RepliesTo(reply, is_CAN) :
                                      ReadAsSaid(lines, is_CAN)
=============================================================================
