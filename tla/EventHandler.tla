---------------------------- MODULE EventHandler ----------------------------
(***************************************************************************)
(* event-handler.cpp: events cross from worker threads to the Qt main loop *)
(* through a pipe in packet mode (O_DIRECT).  One write of at most         *)
(* PIPE_BUF bytes is one packet, one read takes one packet, and the bytes  *)
(* of a packet that do not fit the read are discarded.  A string is a      *)
(* sequence of cells followed by the terminating Nul.                      *)
(***************************************************************************)
EXTENDS Naturals, Sequences

CONSTANTS Events,       \* the events the program signals
          Size,           \* Size[e]: the length of e's string, without its Nul
          BufSize,        \* PIPE_BUF, the size of process_events' buffer
          PipeSlots,      \* packets the pipe holds before a write blocks
          MaxSignals      \* bound on the number of signals

Nul == "NUL"

(* process_events keeps the last byte of its buffer for a Nul of its own.  *)
ASSUME SizesAssumption == /\ {BufSize, PipeSlots} \subseteq Nat \ {0}
                          /\ Size \in [Events -> Nat] /\ Nul \notin Events
                          /\ \A e \in Events : Size[e] + 1 < BufSize

Text(e) == [i \in 1..Size[e] |-> e]
Packet(e) == Append(Text(e), Nul)

VARIABLES pipe,         \* packets written and not yet read
          buf,          \* the first count bytes of process_events' buffer
          pc,           \* process_events: "idle" (not running), "read", "scan", "poll"
          sent, handled \* the strings signalled and passed to process_event

vars == <<pipe, buf, pc, sent, handled>>

Init == pipe = <<>> /\ buf = <<>> /\ pc = "idle" /\ sent = <<>> /\ handled = <<>>

(* Mutant: a write to a full pipe does not wait.                           *)
SignalNoWait(e) ==
    /\ Len(sent) < MaxSignals
    /\ pipe' = Append(pipe, Packet(e)) /\ sent' = Append(sent, Text(e))
    /\ UNCHANGED <<buf, pc, handled>>

(* signal_event, on any thread: the write blocks while the pipe is full.   *)
SignalEvent(e) ==
    /\ Len(pipe) < PipeSlots /\ Len(sent) < MaxSignals
    /\ pipe' = Append(pipe, Packet(e))
    /\ sent' = Append(sent, Text(e))
    /\ UNCHANGED <<buf, pc, handled>>

(* The main loop calls process_events once the descriptor is readable.     *)
Activate == /\ pc = "idle" /\ pipe # <<>>
            /\ buf' = <<>> /\ pc' = "read"
            /\ UNCHANGED <<pipe, sent, handled>>

(* ::read of what the buffer still holds, less the byte kept for a Nul.  A *)
(* read of zero bytes returns at once and takes no packet.                 *)
Space == BufSize - Len(buf) - 1

Read == /\ pc = "read" /\ pc' = "scan"
        /\ buf' = buf \o SubSeq(Head(pipe), 1, IF Len(Head(pipe)) <= Space
                                               THEN Len(Head(pipe)) ELSE Space)
        /\ pipe' = IF Space > 0 THEN Tail(pipe) ELSE pipe
        /\ UNCHANGED <<sent, handled>>

(* Mutant: the terminating Nul stays in the buffer.                        *)
ScanStringKeepNul(n) ==
    /\ pc = "scan"
    /\ buf[n] = Nul /\ \A i \in 1..n-1 : buf[i] # Nul
    /\ handled' = Append(handled, SubSeq(buf, 1, n - 1))
    /\ buf' = SubSeq(buf, n, Len(buf))
    /\ UNCHANGED <<pipe, pc, sent>>

(* The loop over the strings of the buffer: a terminated string is handed  *)
(* to process_event, an unterminated one stays at the start of the buffer. *)
ScanString(n) ==
    /\ pc = "scan"
    /\ buf[n] = Nul /\ \A i \in 1..n-1 : buf[i] # Nul
    /\ handled' = Append(handled, SubSeq(buf, 1, n - 1))
    /\ buf' = SubSeq(buf, n + 1, Len(buf))
    /\ UNCHANGED <<pipe, pc, sent>>

ScanEnd == /\ pc = "scan"
           /\ \A i \in DOMAIN buf : buf[i] # Nul
           /\ pc' = "poll"
           /\ UNCHANGED <<pipe, buf, sent, handled>>

(* while(poll): leaving process_events drops its buffer.                   *)
Poll == /\ pc = "poll"
        /\ \/ pipe # <<>> /\ pc' = "read" /\ UNCHANGED buf
           \/ pipe = <<>> /\ pc' = "idle" /\ buf' = <<>>
        /\ UNCHANGED <<pipe, sent, handled>>

process_events == \/ Activate \/ Read \/ ScanEnd \/ Poll
                  \/ \E n \in DOMAIN buf : ScanString(n)

Next == (\E e \in Events : SignalEvent(e)) \/ process_events

Spec == Init /\ [][Next]_vars /\ WF_vars(process_events)
-----------------------------------------------------------------------------
Strings == {Text(e) : e \in Events}
Cells == Events \cup {Nul}

(* The values each variable can take; what is read leaves room in the      *)
(* buffer for the Nul process_events puts behind it.                       *)
TypeOK == /\ pipe \in Seq(Seq(Cells)) /\ Len(pipe) <= PipeSlots
          /\ buf \in Seq(Cells) /\ Len(buf) < BufSize
          /\ pc \in {"idle", "read", "scan", "poll"}
          /\ sent \in Seq(Seq(Events)) /\ handled \in Seq(Seq(Events))

Channel == INSTANCE EventChannel WITH Texts <- Strings

(* EventHandler implements the channel: every signal is handled exactly    *)
(* once, whole, in order, and eventually.                                  *)
ImplementsChannel == Channel!ChannelSpec
=============================================================================
