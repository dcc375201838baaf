------------------------ MODULE EventHandler_proofs ------------------------
(***************************************************************************)
(* Theorems about the pipe: every string signalled is handled once, whole  *)
(* and in order, for any strings that leave process_events room for its    *)
(* Nul, any pipe and any number of signals.                                *)
(***************************************************************************)
EXTENDS EventHandler, SequenceTheorems, TLAPS

-----------------------------------------------------------------------------
(* What a packet holds.                                                    *)

(* A packet is the text of an event and a Nul behind it.                   *)
LEMMA PacketHolds ==
  ASSUME NEW e \in Events
  PROVE  /\ Size[e] \in Nat
         /\ Text(e) \in Seq(Events) /\ Len(Text(e)) = Size[e]
         /\ Packet(e) \in Seq(Cells) /\ Len(Packet(e)) = Size[e] + 1
         /\ Packet(e)[Size[e] + 1] = Nul
         /\ \A i \in 1..Size[e] : Packet(e)[i] = e
<1>1. Size[e] \in Nat
  BY SizesAssumption
<1>2. Text(e) \in [1..Size[e] -> Events]
  BY DEF Text
<1>3. Text(e) \in Seq(Events) /\ Len(Text(e)) = Size[e]
  BY <1>1, <1>2
<1>4. Text(e) \in Seq(Cells)
  <2>1. Text(e) \in [1..Size[e] -> Cells]
    BY DEF Text, Cells
  <2> QED
    BY <1>1, <2>1
<1>5. Packet(e) \in Seq(Cells)
  BY <1>4 DEF Packet, Cells
<1>6. \A i \in 1..Size[e] : Text(e)[i] = e
  BY DEF Text
<1> HIDE DEF Text
<1>7. /\ Len(Packet(e)) = Size[e] + 1 /\ Packet(e)[Size[e] + 1] = Nul
      /\ \A i \in 1..Size[e] : Packet(e)[i] = e
  BY <1>1, <1>3, <1>4, <1>6 DEF Packet
<1> QED
  BY <1>1, <1>3, <1>5, <1>7

(* A read of a whole packet puts it into an empty buffer.                  *)
LEMMA PacketRead ==
  ASSUME NEW e \in Events
  PROVE  <<>> \o SubSeq(Packet(e), 1, Len(Packet(e))) = Packet(e)
<1>1. Packet(e) \in Seq(Cells)
  BY PacketHolds
<1>2. SubSeq(Packet(e), 1, Len(Packet(e))) = Packet(e)
  BY <1>1
<1> QED
  BY <1>1, <1>2

(* The scan finds the text in front of the Nul, and nothing behind it.     *)
LEMMA PacketScanned ==
  ASSUME NEW e \in Events, NEW n \in DOMAIN Packet(e), Packet(e)[n] = Nul
  PROVE  /\ SubSeq(Packet(e), 1, n - 1) = Text(e)
         /\ SubSeq(Packet(e), n + 1, Len(Packet(e))) = <<>>
<1>1. /\ Size[e] \in Nat /\ Packet(e) \in Seq(Cells) /\ Len(Packet(e)) = Size[e] + 1
      /\ \A i \in 1..Size[e] : Packet(e)[i] = e
      /\ Text(e) \in Seq(Events) /\ Len(Text(e)) = Size[e]
  BY PacketHolds
<1>2. n \in 1..(Size[e] + 1)
  BY <1>1
<1>3. e # Nul
  BY SizesAssumption
<1>4. n = Size[e] + 1
  BY <1>1, <1>2, <1>3
<1>5. SubSeq(Packet(e), 1, n - 1) = Text(e)
  <2>1. \A i \in 1..Size[e] : Text(e)[i] = e
    BY DEF Text
  <2> DEFINE s == SubSeq(Packet(e), 1, Size[e])
  <2>2. s \in Seq(Cells) /\ Len(s) = Size[e] /\ \A i \in 1..Size[e] : s[i] = e
    BY <1>1
  <2>3. Text(e) \in Seq(Cells)
    BY <1>1 DEF Cells
  <2> HIDE DEF s
  <2>4. s = Text(e)
    BY <1>1, <2>1, <2>2, <2>3, SeqEqual
  <2>5. n - 1 = Size[e]
    BY <1>1, <1>4
  <2> QED
    BY <2>4, <2>5 DEF s
<1>6. SubSeq(Packet(e), n + 1, Len(Packet(e))) = <<>>
  BY <1>1, <1>4
<1> QED
  BY <1>5, <1>6

-----------------------------------------------------------------------------
(* Where the strings are.                                                  *)

Sizes == /\ Len(sent) \in Nat /\ Len(handled) \in Nat /\ Len(pipe) \in Nat
         /\ Len(pipe) <= PipeSlots
         /\ sent \in Seq(Strings) /\ handled \in Seq(Strings)
         /\ pipe \in Seq({Packet(e) : e \in Events})
         /\ pc \in {"idle", "read", "scan", "poll"}

(* The strings in the buffer: one while its packet is scanned, else none.  *)
Buffered == IF buf = <<>> THEN 0 ELSE 1

(* The buffer holds a whole packet or nothing, and only during the scan.   *)
BufferInv == /\ buf # <<>> => /\ pc = "scan"
                              /\ \E e \in Events : /\ buf = Packet(e)
                                                   /\ sent[Len(handled) + 1] = Text(e)
             /\ pc = "read" => pipe # <<>>

(* What was signalled is what was handled, then what the buffer holds, and *)
(* then what the pipe holds.                                               *)
OrderInv ==
    /\ Len(sent) = Len(handled) + Buffered + Len(pipe)
    /\ \A i \in 1..Len(pipe) :
          \E e \in Events : /\ pipe[i] = Packet(e)
                            /\ sent[Len(handled) + Buffered + i] = Text(e)

PipeInv == Sizes /\ BufferInv /\ OrderInv

(* Initially nothing was signalled.                                        *)
LEMMA PipeInit == Init => PipeInv
<1> SUFFICES ASSUME Init PROVE PipeInv
  OBVIOUS
<1>1. Sizes
  BY SizesAssumption DEF Init, Sizes
<1> QED
  BY <1>1 DEF Init, PipeInv, BufferInv, OrderInv, Buffered

(* A packet is never empty.                                                *)
LEMMA PacketNotEmpty == ASSUME NEW e \in Events PROVE Packet(e) # <<>>
<1>1. Size[e] \in Nat /\ Packet(e) \in Seq(Cells) /\ Len(Packet(e)) = Size[e] + 1
  BY PacketHolds
<1> QED
  BY <1>1

(* A new packet goes behind the others.                                    *)
LEMMA SignalStep == ASSUME PipeInv, NEW e \in Events, SignalEvent(e) PROVE PipeInv'
<1> USE DEF PipeInv
<1> DEFINE Packets == {Packet(x) : x \in Events}
<1>1. /\ Len(sent) \in Nat /\ Len(handled) \in Nat /\ Len(pipe) \in Nat
      /\ sent \in Seq(Strings) /\ pipe \in Seq(Packets) /\ handled \in Seq(Strings)
      /\ Buffered \in 0..1
  BY DEF Sizes, Buffered
<1>2. /\ pipe' = Append(pipe, Packet(e)) /\ sent' = Append(sent, Text(e))
      /\ UNCHANGED <<buf, pc, handled>> /\ Len(pipe) < PipeSlots
  BY DEF SignalEvent
<1>3. Text(e) \in Strings /\ Packet(e) \in Packets
  BY DEF Strings
<1> HIDE DEF Packets
<1>4. /\ sent' \in Seq(Strings) /\ Len(sent') = Len(sent) + 1 /\ sent'[Len(sent) + 1] = Text(e)
      /\ \A i \in 1..Len(sent) : sent'[i] = sent[i]
  BY <1>1, <1>2, <1>3, AppendProperties
<1>5. /\ pipe' \in Seq(Packets) /\ Len(pipe') = Len(pipe) + 1 /\ pipe'[Len(pipe) + 1] = Packet(e)
      /\ \A i \in 1..Len(pipe) : pipe'[i] = pipe[i]
  BY <1>1, <1>2, <1>3, AppendProperties
<1>6. Sizes'
  BY <1>1, <1>2, <1>4, <1>5, SizesAssumption DEF Sizes, Packets
<1>7. Buffered' = Buffered /\ Len(handled') = Len(handled)
  BY <1>2 DEF Buffered
<1>8. Len(sent) = Len(handled) + Buffered + Len(pipe)
  BY DEF OrderInv
<1>9. BufferInv'
  <2>1. pc' = "read" => pipe' # <<>>
    BY <1>1, <1>5
  <2>2. ASSUME buf # <<>>
        PROVE  \E x \in Events : buf = Packet(x) /\ sent'[Len(handled) + 1] = Text(x)
    <3>1. Len(handled) + 1 \in 1..Len(sent)
      BY <1>1, <1>8, <2>2 DEF Buffered
    <3> QED
      BY <1>4, <2>2, <3>1 DEF BufferInv
  <2> QED
    BY <1>2, <2>1, <2>2 DEF BufferInv
<1>10. \A i \in 1..Len(pipe') :
          \E x \in Events : /\ pipe'[i] = Packet(x)
                            /\ sent'[Len(handled) + Buffered + i] = Text(x)
  <2> TAKE i \in 1..Len(pipe')
  <2>1. CASE i \in 1..Len(pipe)
    <3>1. Len(handled) + Buffered + i \in 1..Len(sent)
      BY <1>1, <1>8, <2>1
    <3> QED
      BY <1>4, <1>5, <2>1, <3>1 DEF OrderInv
  <2>2. CASE i = Len(pipe) + 1
    <3>1. Len(handled) + Buffered + i = Len(sent) + 1
      BY <1>1, <1>8, <2>2
    <3> QED
      BY <1>4, <1>5, <2>2, <3>1
  <2> QED
    BY <1>1, <1>5, <2>1, <2>2
<1>11. Len(sent') = Len(handled') + Buffered' + Len(pipe')
  BY <1>1, <1>4, <1>5, <1>7, <1>8
<1>12. OrderInv'
  BY <1>7, <1>10, <1>11 DEF OrderInv
<1> QED
  BY <1>6, <1>9, <1>12

(* A packet that is read fits the buffer.                                  *)
LEMMA ReadStep == ASSUME PipeInv, Read PROVE PipeInv'
<1> USE DEF PipeInv
<1> DEFINE Packets == {Packet(x) : x \in Events}
<1>1. /\ Len(sent) \in Nat /\ Len(handled) \in Nat /\ Len(pipe) \in Nat
      /\ pipe \in Seq(Packets) /\ pipe # <<>> /\ buf = <<>>
      /\ UNCHANGED <<sent, handled>> /\ pc' = "scan"
  BY DEF Sizes, Read, BufferInv
<1>2. PICK e \in Events : pipe[1] = Packet(e) /\ sent[Len(handled) + Buffered + 1] = Text(e)
  <2>1. 1 \in 1..Len(pipe)
    BY <1>1
  <2> QED
    BY <2>1 DEF OrderInv
<1>3. Head(pipe) = Packet(e)
  BY <1>1, <1>2
<1> HIDE DEF Packets
<1>4. /\ pipe' \in Seq(Packets) /\ Len(pipe') = Len(pipe) - 1
      /\ \A i \in 1..Len(pipe') : pipe'[i] = pipe[i + 1]
      /\ buf' = Packet(e)
  <2>1. Len(buf) = 0
    BY <1>1
  <2>2. Space = BufSize - 1
    BY <2>1, SizesAssumption DEF Space
  <2>3. Len(Packet(e)) <= Space /\ Space > 0
    <3>1. Size[e] \in Nat /\ Len(Packet(e)) = Size[e] + 1
      BY PacketHolds
    <3> QED
      BY <2>2, <3>1, SizesAssumption
  <2>4. pipe' = Tail(pipe) /\ buf' = <<>> \o SubSeq(Packet(e), 1, Len(Packet(e)))
    BY <1>1, <1>3, <2>3 DEF Read
  <2>5. buf' = Packet(e)
    BY <2>4, PacketRead
  <2> QED
    BY <1>1, <2>4, <2>5, HeadTailProperties
<1>5. Buffered = 0 /\ Buffered' = 1
  <2>1. Packet(e) # <<>>
    BY PacketNotEmpty
  <2> QED
    BY <1>1, <1>4, <2>1 DEF Buffered
<1>6. Sizes'
  <2>1. Len(pipe') \in Nat
    BY <1>4
  <2>2. Len(pipe') <= PipeSlots
    BY <1>1, <1>4, SizesAssumption DEF Sizes
  <2> QED
    BY <1>1, <1>4, <2>1, <2>2 DEF Sizes, Packets
<1>7. BufferInv'
  <2>1. Len(handled) + Buffered + 1 = Len(handled) + 1
    BY <1>1, <1>5
  <2> QED
    BY <1>1, <1>2, <1>4, <2>1 DEF BufferInv
<1>8. Len(sent') = Len(handled') + Buffered' + Len(pipe')
  <2>1. Len(sent) = Len(handled) + 0 + Len(pipe)
    BY <1>5 DEF OrderInv
  <2>2. Len(sent) = Len(handled) + 1 + Len(pipe')
    BY <1>1, <1>4, <2>1
  <2> QED
    BY <1>1, <1>5, <2>2
<1>9. \A i \in 1..Len(pipe') :
         \E x \in Events : /\ pipe'[i] = Packet(x)
                           /\ sent[Len(handled) + 1 + i] = Text(x)
  <2> TAKE i \in 1..Len(pipe')
  <2>1. i + 1 \in 1..Len(pipe) /\ Len(handled) + Buffered + (i + 1) = Len(handled) + 1 + i
    BY <1>1, <1>4, <1>5
  <2>2. PICK x \in Events : /\ pipe[i + 1] = Packet(x)
                            /\ sent[Len(handled) + Buffered + (i + 1)] = Text(x)
    BY <2>1 DEF OrderInv
  <2> QED
    BY <1>4, <2>1, <2>2
<1>10. OrderInv'
  BY <1>1, <1>5, <1>8, <1>9 DEF OrderInv
<1> QED
  BY <1>6, <1>7, <1>10

(* The string that is handled is the next of those signalled.              *)
LEMMA ScanStep ==
  ASSUME PipeInv, NEW n \in DOMAIN buf, ScanString(n)
  PROVE  PipeInv' /\ Channel!Handle
<1> USE DEF PipeInv
<1> DEFINE Packets == {Packet(x) : x \in Events}
<1>1. /\ Len(sent) \in Nat /\ Len(handled) \in Nat /\ Len(pipe) \in Nat
      /\ handled \in Seq(Strings) /\ UNCHANGED <<sent, pipe, pc>> /\ pc = "scan"
  BY DEF Sizes, ScanString
<1>2. buf # <<>>
  OBVIOUS
<1>3. PICK e \in Events : buf = Packet(e) /\ sent[Len(handled) + 1] = Text(e)
  BY <1>2 DEF BufferInv
<1>4. SubSeq(buf, 1, n - 1) = Text(e) /\ SubSeq(buf, n + 1, Len(buf)) = <<>>
  BY <1>3, PacketScanned DEF ScanString
<1>5. handled' = Append(handled, Text(e)) /\ buf' = <<>>
  BY <1>4 DEF ScanString
<1>6. handled' \in Seq(Strings) /\ Len(handled') = Len(handled) + 1
  <2>1. Text(e) \in Strings
    BY DEF Strings
  <2> QED
    BY <1>1, <1>5, <2>1, AppendProperties
<1>7. Buffered = 1 /\ Buffered' = 0
  BY <1>2, <1>5 DEF Buffered
<1>8. Sizes'
  BY <1>1, <1>6 DEF Sizes
<1>9. BufferInv'
  BY <1>1, <1>5 DEF BufferInv
<1>10. Len(handled') + Buffered' = Len(handled) + Buffered
  BY <1>1, <1>6, <1>7
<1>11. OrderInv'
  BY <1>1, <1>10 DEF OrderInv
<1>12. Channel!Handle
  <2>1. Len(sent) = Len(handled) + 1 + Len(pipe)
    BY <1>7 DEF OrderInv
  <2>2. Len(handled) < Len(sent)
    BY <1>1, <2>1
  <2> QED
    BY <1>1, <1>3, <1>5, <2>2 DEF Channel!Handle
<1> QED
  BY <1>8, <1>9, <1>11, <1>12

(* No string is left in a buffer whose scan has ended.                     *)
LEMMA ScanEndStep == ASSUME PipeInv, ScanEnd PROVE PipeInv'
<1> USE DEF PipeInv
<1>1. buf = <<>>
  <2> SUFFICES ASSUME buf # <<>> PROVE FALSE
    OBVIOUS
  <2>1. PICK e \in Events : buf = Packet(e)
    BY DEF BufferInv
  <2>2. Size[e] + 1 \in DOMAIN buf /\ buf[Size[e] + 1] = Nul
    BY <2>1, PacketHolds
  <2> QED
    BY <2>2 DEF ScanEnd
<1>2. UNCHANGED <<pipe, buf, sent, handled>> /\ pc' = "poll"
  BY DEF ScanEnd
<1> QED
  BY <1>1, <1>2 DEF Sizes, BufferInv, OrderInv, Buffered

(* Starting and leaving process_events finds the buffer empty.             *)
LEMMA LoopStep == ASSUME PipeInv, Activate \/ Poll PROVE PipeInv'
<1> USE DEF PipeInv
<1>1. /\ UNCHANGED <<pipe, sent, handled>> /\ buf = <<>> /\ buf' = <<>>
      /\ pc' \in {"read", "idle"} /\ (pc' = "read" => pipe # <<>>)
  BY DEF Activate, Poll, BufferInv
<1> QED
  BY <1>1 DEF Sizes, BufferInv, OrderInv, Buffered

ChannelSafe == [Channel!ChannelNext]_Channel!channelVars

(* Every step keeps the strings in order, and is a step of the channel.    *)
LEMMA PipeStep == PipeInv /\ [Next]_vars => PipeInv' /\ ChannelSafe
<1> SUFFICES ASSUME PipeInv, [Next]_vars PROVE PipeInv' /\ ChannelSafe
  OBVIOUS
<1> USE DEF ChannelSafe
<1>1. CASE \E e \in Events : SignalEvent(e)
  <2>1. PICK e \in Events : SignalEvent(e)
    BY <1>1
  <2>2. Text(e) \in Strings
    BY DEF Strings
  <2>3. Channel!Send(Text(e))
    BY <2>1 DEF SignalEvent, Channel!Send
  <2> QED
    BY <2>1, <2>2, <2>3, SignalStep DEF Channel!ChannelNext
<1>2. CASE Read
  BY <1>2, ReadStep DEF Read, Channel!channelVars
<1>3. CASE \E n \in DOMAIN buf : ScanString(n)
  BY <1>3, ScanStep DEF Channel!ChannelNext
<1>4. CASE ScanEnd
  BY <1>4, ScanEndStep DEF ScanEnd, Channel!channelVars
<1>5. CASE Activate \/ Poll
  BY <1>5, LoopStep DEF Activate, Poll, Channel!channelVars
<1>6. CASE UNCHANGED vars
  BY <1>6 DEF vars, PipeInv, Sizes, BufferInv, OrderInv, Buffered, Channel!channelVars
<1> QED
  BY <1>1, <1>2, <1>3, <1>4, <1>5, <1>6 DEF Next, process_events

(* EventHandler implements the safety part of the channel: what            *)
(* process_events hands to process_event is, string by string, what was    *)
(* signalled, whole, in order and once.                                    *)
THEOREM HandledInOrder ==
  Spec => Channel!ChannelInit /\ [][Channel!ChannelNext]_Channel!channelVars
<1>1. Init => Channel!ChannelInit
  BY DEF Init, Channel!ChannelInit
<1>2. ChannelSafe => [Channel!ChannelNext]_Channel!channelVars
  BY DEF ChannelSafe
<1> QED
  BY PipeInit, PipeStep, <1>1, <1>2, PTL DEF Spec

(* The variables keep their types, the pipe never holds more packets than  *)
(* it has room for, and what is read leaves the buffer's last byte free    *)
(* (signal_event, process_events).                                         *)
THEOREM TypeCorrect == Spec => []TypeOK
<1>1. PipeInv => TypeOK
  <2> SUFFICES ASSUME PipeInv PROVE TypeOK
    OBVIOUS
  <2> USE DEF PipeInv
  <2>1. Strings \subseteq Seq(Events)
    BY PacketHolds DEF Strings
  <2>2. {Packet(e) : e \in Events} \subseteq Seq(Cells)
    BY PacketHolds
  <2>3. sent \in Seq(Seq(Events)) /\ handled \in Seq(Seq(Events))
    BY <2>1 DEF Sizes
  <2>4. pipe \in Seq(Seq(Cells))
    BY <2>2 DEF Sizes
  <2>5. buf \in Seq(Cells) /\ Len(buf) < BufSize
    <3>1. CASE buf = <<>>
      BY <3>1, SizesAssumption
    <3>2. CASE buf # <<>>
      BY <3>2, PacketHolds, SizesAssumption DEF BufferInv
    <3> QED
      BY <3>1, <3>2
  <2> QED
    BY <2>3, <2>4, <2>5 DEF TypeOK, Sizes
<1> QED
  BY PipeInit, PipeStep, <1>1, PTL DEF Spec
=============================================================================
