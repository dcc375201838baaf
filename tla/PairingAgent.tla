---------------------------- MODULE PairingAgent ----------------------------
(***************************************************************************)
(* bluetooth-serial-port.cpp as the pairing agent of bluez: bluez asks for *)
(* a pin code, a passkey, a confirmation or an authorization, or wants     *)
(* something displayed; the answer is the reply to the method call.  The   *)
(* messages of bluez are handled in order, and none is handled while a     *)
(* handler still runs: process_events inside a modal dialog is a no-op,    *)
(* because sd_event_run is not reentrant.                                  *)
(***************************************************************************)
EXTENDS Naturals, Sequences

CONSTANTS MaxRequests,     \* bound on the requests of bluez
          EmptyTexts       \* the user may confirm an empty text

ASSUME AgentAssumption == MaxRequests \in Nat /\ EmptyTexts \in BOOLEAN

ResponseType == {"USER_YN", "USER_STRING", "USER_INT", "USER_NONE"}
Requests == [id : 1..MaxRequests, type : ResponseType]

(* The other messages: a Cancel, and the end of an attempt to connect.     *)
Cancel == [id |-> 0, type |-> "Cancel"]
AttemptEnd(outcome) == [id |-> 0, type |-> outcome]

VARIABLES
  inbox,                   \* messages from bluez not handled yet
  asked,                   \* bluez: the requests made so far
  waitingFor,              \* bluez: the request it waits for, 0 if none
  dialog,                  \* the request whose modal dialog is open, or NoDialog
  answers                  \* history: the number of answers sent to each request

NoDialog == [id |-> 0, type |-> "USER_NONE"]
agentVars == <<inbox, asked, waitingFor, dialog, answers>>

AgentInit == /\ inbox = <<>> /\ asked = 0 /\ waitingFor = 0 /\ dialog = NoDialog
             /\ answers = [n \in 1..MaxRequests |-> 0]

(* bluez asks one question at a time, for any device, connecting or not.   *)
Ask(type) == /\ waitingFor = 0 /\ asked < MaxRequests
             /\ asked' = asked + 1 /\ waitingFor' = asked'
             /\ inbox' = Append(inbox, [id |-> asked', type |-> type])
             /\ UNCHANGED <<dialog, answers>>

(* bluez gives up waiting and calls Cancel.                                *)
GiveUp == /\ waitingFor # 0 /\ waitingFor' = 0
          /\ inbox' = Append(inbox, Cancel)
          /\ UNCHANGED <<asked, dialog, answers>>

Bluez == GiveUp \/ \E type \in ResponseType : Ask(type)

-----------------------------------------------------------------------------
(* The handlers.  "connected" says whether a user input handler is.        *)

(* Mutant: messages are handled inside a dialog's event loop too.          *)
DispatchNested == inbox # <<>> /\ inbox' = Tail(inbox)

Dispatch == dialog = NoDialog /\ inbox # <<>> /\ inbox' = Tail(inbox)

Answer(n) == /\ answers' = [answers EXCEPT ![n] = @ + 1]
             /\ waitingFor' = IF waitingFor = n THEN 0 ELSE waitingFor

(* Mutant: a request is answered at once, and the user is asked too.       *)
AnswerAndAsk(connected) ==
    /\ Dispatch /\ Head(inbox) \in Requests /\ UNCHANGED asked
    /\ dialog' = IF connected THEN Head(inbox) ELSE dialog
    /\ Answer(Head(inbox).id)

(* Mutant: without a user input handler nothing is sent.                   *)
IgnoreUnlessConnected(connected) ==
    /\ Dispatch /\ Head(inbox) \in Requests /\ UNCHANGED <<asked, waitingFor, answers>>
    /\ dialog' = IF connected THEN Head(inbox) ELSE dialog

(* bt_agent_request and bt_agent_display: a dialog opens; without a user   *)
(* input handler the request is rejected.  What is to be displayed is      *)
(* answered at once (and user_prompt shows nothing).                       *)
AgentRequest(connected) ==
    /\ Dispatch /\ Head(inbox) \in Requests /\ UNCHANGED asked
    /\ \/ /\ connected /\ Head(inbox).type # "USER_NONE"
          /\ dialog' = Head(inbox) /\ UNCHANGED <<waitingFor, answers>>
       \/ /\ ~(connected /\ Head(inbox).type # "USER_NONE")
          /\ Answer(Head(inbox).id) /\ UNCHANGED dialog

AgentCancel == /\ Dispatch /\ Head(inbox) = Cancel
               /\ UNCHANGED <<asked, waitingFor, dialog, answers>>

(* The user closes the dialog: yes, no, a text, a number or Cancel.  For   *)
(* OK with an empty text user_text_response sends nothing.  The answer     *)
(* goes to the interface selected by then, and only bluetooth's            *)
(* respond_from_user sends it.                                             *)
Sent == {TRUE} \cup IF EmptyTexts /\ dialog.type = "USER_STRING" THEN {FALSE} ELSE {}

CloseDialog(interface) ==
    /\ dialog # NoDialog /\ dialog' = NoDialog
    /\ \E sent \in Sent : IF sent /\ interface = "bluetooth"
                          THEN Answer(dialog.id) ELSE UNCHANGED <<answers, waitingFor>>
    /\ UNCHANGED <<inbox, asked>>

AgentTypeOK ==
    /\ inbox \in Seq(Requests \cup {Cancel, AttemptEnd("success"), AttemptEnd("failure")})
    /\ asked \in 0..MaxRequests /\ waitingFor \in 0..asked
    /\ dialog \in Requests \cup {NoDialog}
    /\ answers \in [1..MaxRequests -> 0..1]
=============================================================================
