---------------------------- MODULE EventChannel ----------------------------
(***************************************************************************)
(* What EventHandler promises its users: signal_event, called by any       *)
(* thread, hands a string to the thread that runs process_events, which    *)
(* passes every string to process_event exactly once, whole, in the order  *)
(* of the signals.                                                         *)
(***************************************************************************)
EXTENDS Naturals, Sequences

CONSTANT Texts                 \* the strings that can be signalled

VARIABLES sent, handled        \* signalled / passed to process_event so far

channelVars == <<sent, handled>>

ChannelInit == sent = <<>> /\ handled = <<>>

Send(t) == sent' = Append(sent, t) /\ UNCHANGED handled

Handle == /\ Len(handled) < Len(sent)
          /\ handled' = Append(handled, sent[Len(handled) + 1])
          /\ UNCHANGED sent

ChannelNext == (\E t \in Texts : Send(t)) \/ Handle

ChannelSpec == ChannelInit /\ [][ChannelNext]_channelVars /\ WF_channelVars(Handle)
=============================================================================
