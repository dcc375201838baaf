--------------------------- MODULE UserInterface ---------------------------
(***************************************************************************)
(* mainwindow.cpp, home.cpp, connect-button.cpp and settings.cpp: the user *)
(* selects an interface, connects through it, answers the prompts of the   *)
(* pairing agent meanwhile and opens the terminal.  Bluetooth's side of an *)
(* attempt is reduced to its callback, which bluez's answer or the end of  *)
(* the discovery calls, unless the attempt gets lost (lines 177, 502 and   *)
(* 519 of bluetooth-serial-port.cpp): module BluetoothSerialPort shows     *)
(* when it does.                                                           *)
(***************************************************************************)
EXTENDS SerialPort, PairingAgent

VARIABLES
  view,                        \* the widget m_view_stack shows
  m_hardware_interface,        \* "bluetooth" or "serial"
  m_bluetooth_rb,              \* the radio button of bluetooth is enabled
  m_enabled_buttons, m_connected,
  m_request_user_input,        \* the interfaces whose user input handler is set
  m_complete_connection,       \* bluetooth: a callback is stored
  connecting                   \* bluetooth: "yes" until something ends the attempt,
                               \* "lost" when nothing will

windowVars == <<view, m_hardware_interface, m_bluetooth_rb>>
buttonVars == <<m_enabled_buttons, m_connected, m_request_user_input>>
bluetoothVars == <<m_complete_connection, connecting>>
vars == <<serialVars, agentVars, windowVars, buttonVars, bluetoothVars>>

Init == /\ SerialInit /\ AgentInit
        /\ view = "home" /\ m_hardware_interface \in {"bluetooth", "serial"}
        /\ m_bluetooth_rb = TRUE
        /\ m_enabled_buttons = {"settings", "connect"} /\ m_connected = FALSE
        /\ m_request_user_input = {}
        /\ m_complete_connection = FALSE /\ connecting = "no"

-----------------------------------------------------------------------------
(* An attempt, from ConnectButton.                                         *)

enable_all(buttons) == buttons \cup {"settings", "connect"}

(* Mutant: the Connect button stays enabled.                               *)
SetConnectedKeepConnect(buttons) == buttons \cup {"terminal"}

set_connected(buttons) == (buttons \ {"connect"}) \cup {"terminal"}

(* Mutant: the user input handler stays.                                   *)
CompleteKeepingHandler(success, handlers) ==
    /\ m_request_user_input' = handlers
    /\ m_enabled_buttons' = IF success = "success" THEN set_connected(enable_all({}))
                                                   ELSE enable_all({})
    /\ m_connected' = (m_connected \/ success = "success")

(* connect_complete, with the handlers set by then.                        *)
connect_complete(success, handlers) ==
    /\ m_request_user_input' = handlers \ {m_hardware_interface}
    /\ m_enabled_buttons' = IF success = "success" THEN set_connected(enable_all({}))
                                                   ELSE enable_all({})
    /\ m_connected' = (m_connected \/ success = "success")

Handlers == m_request_user_input \cup {m_hardware_interface}

(* disable_all and connect_user_input.                                     *)
AttemptBegins == /\ m_enabled_buttons' = {} /\ m_request_user_input' = Handlers
                 /\ UNCHANGED m_connected

ConnectSerial ==
    /\ m_hardware_interface = "serial" /\ SerialConnect
    /\ IF SerialAccepts THEN AttemptBegins ELSE connect_complete("failure", Handlers)
    /\ UNCHANGED bluetoothVars

(* Bluetooth calls back at once when StartDiscovery cannot be sent; with   *)
(* no controller, while a discovery runs or if Connect cannot be sent, it  *)
(* stores the callback and nothing is under way.                           *)
ConnectBluetooth ==
    /\ m_hardware_interface = "bluetooth" /\ UNCHANGED serialVars
    /\ \/ /\ ~m_complete_connection
          /\ m_complete_connection' = TRUE /\ connecting' \in {"yes", "lost"}
          /\ AttemptBegins
       \/ connect_complete("failure", Handlers) /\ UNCHANGED bluetoothVars

(* A modal dialog keeps the user from the main window.                     *)
Clicked(button) == /\ dialog = NoDialog /\ view = "home" /\ button \in m_enabled_buttons
                   /\ UNCHANGED agentVars

(* connect_user_input would throw if a handler were set:                   *)
(* HandlersFollowAttempt.                                                  *)
on_clicked == /\ Clicked("connect") /\ (ConnectSerial \/ ConnectBluetooth)
              /\ UNCHANGED windowVars

(* The event ConnectComplete of the serial port, in a dialog or not.       *)
SerialAttemptEnds ==
    /\ \E success \in {"success", "failure"} :
          SerialComplete(success) /\ connect_complete(success, m_request_user_input)
    /\ UNCHANGED <<agentVars, windowVars, bluetoothVars>>

(* Bluetooth: something ends the attempt, in order with bluez's messages.  *)
BluetoothAnswer ==
    /\ connecting = "yes" /\ connecting' = "no"
    /\ \E success \in {"success", "failure"} : inbox' = Append(inbox, AttemptEnd(success))
    /\ UNCHANGED <<asked, waitingFor, dialog, answers, serialVars, windowVars, buttonVars,
                   m_complete_connection>>

BluetoothAttemptEnds ==
    /\ Dispatch /\ Head(inbox).type \in {"success", "failure"} /\ m_complete_connection
    /\ connect_complete(Head(inbox).type, m_request_user_input)
    /\ m_complete_connection' = FALSE
    /\ UNCHANGED <<asked, waitingFor, dialog, answers, serialVars, windowVars, connecting>>

-----------------------------------------------------------------------------
(* Prompts, and the other views.                                           *)

OnlyAgent == UNCHANGED <<serialVars, windowVars, buttonVars, bluetoothVars>>

AgentHandlers == \/ AgentRequest("bluetooth" \in m_request_user_input) /\ OnlyAgent
                 \/ AgentCancel /\ OnlyAgent

UserAnswers == CloseDialog(m_hardware_interface) /\ OnlyAgent

OnlyWindow == UNCHANGED <<serialVars, buttonVars, bluetoothVars>>

(* Settings is shown: without a controller there is only the serial port.  *)
settings_clicked ==
    /\ Clicked("settings") /\ view' = "settings" /\ OnlyWindow
    /\ \/ m_bluetooth_rb' = TRUE /\ UNCHANGED m_hardware_interface
       \/ m_bluetooth_rb' = FALSE /\ m_hardware_interface' = "serial"

select_bluetooth ==
    /\ view = "settings" /\ m_bluetooth_rb
    /\ m_hardware_interface' = "bluetooth"
    /\ UNCHANGED <<view, m_bluetooth_rb, agentVars>> /\ OnlyWindow

select_serial ==
    /\ view = "settings" /\ m_hardware_interface' = "serial"
    /\ UNCHANGED <<view, m_bluetooth_rb, agentVars>> /\ OnlyWindow

terminal_clicked ==
    /\ Clicked("terminal") /\ view' = "terminal"
    /\ UNCHANGED <<m_hardware_interface, m_bluetooth_rb>> /\ OnlyWindow

home_clicked ==
    /\ view # "home" /\ view' = "home"
    /\ UNCHANGED <<m_hardware_interface, m_bluetooth_rb, agentVars>> /\ OnlyWindow

User == \/ on_clicked \/ settings_clicked \/ select_bluetooth \/ select_serial
        \/ terminal_clicked \/ home_clicked

Handling == SerialAttemptEnds \/ BluetoothAttemptEnds \/ AgentHandlers

Next == \/ User \/ Handling \/ UserAnswers \/ BluetoothAnswer
        \/ Bluez /\ OnlyAgent
        \/ SerialThread /\ UNCHANGED <<agentVars, windowVars, buttonVars, bluetoothVars>>

(* The main loop and the thread run, the user closes the dialog that keeps *)
(* the window from being used, and something ends a bluetooth attempt that *)
(* is not lost (BluetoothSerialPort!ImplementsAttempt).                    *)
Spec == /\ Init /\ [][Next]_vars
        /\ WF_vars(Handling) /\ WF_vars(UserAnswers) /\ WF_vars(BluetoothAnswer)
        /\ WF_vars(SerialThread /\ UNCHANGED <<agentVars, windowVars, buttonVars,
                                               bluetoothVars>>)
-----------------------------------------------------------------------------
Attempt == m_complete_connection \/ m_connect_callback

(* The values each variable can take.                                      *)
TypeOK ==
    /\ SerialTypeOK /\ AgentTypeOK
    /\ view \in {"home", "settings", "terminal"}
    /\ m_hardware_interface \in {"bluetooth", "serial"}
    /\ {m_bluetooth_rb, m_connected, m_complete_connection} \subseteq BOOLEAN
    /\ connecting \in {"no", "yes", "lost"}
    /\ m_enabled_buttons \subseteq {"settings", "connect", "terminal"}
    /\ m_request_user_input \subseteq {"bluetooth", "serial"}

(* Nothing can be clicked during an attempt, so that the interface is not  *)
(* exchanged and no reader runs under it; otherwise Connect is there until *)
(* a connection exists, and the terminal from then on.                     *)
ButtonsFollowAttempt ==
    m_enabled_buttons = IF Attempt THEN {}
                        ELSE IF m_connected THEN {"settings", "terminal"}
                        ELSE {"settings", "connect"}

(* The user input handler is set exactly for the selected interface and    *)
(* exactly during an attempt: connect_user_input never throws, and a       *)
(* request of bluez outside an attempt is rejected.                        *)
HandlersFollowAttempt ==
    m_request_user_input = IF Attempt THEN {m_hardware_interface} ELSE {}

(* A prompt is open only during an attempt through bluetooth: the answer,  *)
(* sent to the interface that is selected when the dialog closes, reaches  *)
(* the one that asked.                                                     *)
PromptHasAttempt == dialog # NoDialog => /\ m_complete_connection
                                         /\ m_hardware_interface = "bluetooth"

(* Every request is answered: unless it waits in the inbox or its dialog   *)
(* is open, its answer was sent ("User is responsible for invoking         *)
(* respond_from_user() to complete operation", request_from_user).         *)
EveryRequestAnswered ==
    \A n \in 1..asked : \/ answers[n] = 1 \/ dialog.id = n
                        \/ \E i \in DOMAIN inbox : inbox[i].id = n

(* After an attempt the window can be used again, unless the attempt was   *)
(* through bluetooth and got lost there: nobody calls its callback, and    *)
(* the window stays disabled (module BluetoothAttempt says when, MayLose). *)
UsableAgain == Attempt ~> "settings" \in m_enabled_buttons \/ connecting = "lost"

(* SerialPort keeps the promise of HardwareInterface::connect: one answer  *)
(* for every call it accepts, and "success" exactly when the port is open. *)
Serial == INSTANCE ConnectionAttempt WITH due <- m_connect_callback, held <- m_sock_file,
                                          result <- reported
SerialKeepsPromise == Serial!AttemptSpec
=============================================================================
