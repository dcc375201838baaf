------------------------ MODULE UserInterface_proofs ------------------------
(***************************************************************************)
(* Theorems about the window: what an attempt to connect excludes, that    *)
(* the serial port keeps the promise of HardwareInterface::connect, and    *)
(* that every request of the pairing agent is answered.                    *)
(***************************************************************************)
EXTENDS UserInterface, TLAPS

-----------------------------------------------------------------------------
(* What an attempt excludes.                                               *)

Flags == /\ m_complete_connection \in BOOLEAN /\ m_connect_callback \in BOOLEAN
         /\ m_connected \in BOOLEAN
         /\ m_hardware_interface \in {"bluetooth", "serial"}

(* During an attempt the window shows the home view, there is no           *)
(* connection yet, and the attempt is the selected interface's.            *)
AttemptInv == /\ Attempt => view = "home" /\ ~m_connected
              /\ m_connect_callback => m_hardware_interface = "serial"
              /\ m_complete_connection => m_hardware_interface = "bluetooth"

WindowInv == /\ Flags /\ AttemptInv
             /\ ButtonsFollowAttempt /\ HandlersFollowAttempt /\ PromptHasAttempt

(* Initially there is no attempt.                                          *)
LEMMA WindowInit == Init => WindowInv
BY DEF Init, WindowInv, Flags, AttemptInv, Attempt, ButtonsFollowAttempt, HandlersFollowAttempt,
       PromptHasAttempt, SerialInit, AgentInit, NoDialog

(* While a button can be clicked there is no attempt and no prompt.        *)
LEMMA ClickedMeansIdle ==
  ASSUME WindowInv, NEW b, Clicked(b)
  PROVE  ~m_complete_connection /\ ~m_connect_callback /\ m_request_user_input = {}
BY DEF WindowInv, Flags, Clicked, ButtonsFollowAttempt, HandlersFollowAttempt, Attempt

(* connect_complete restores the window when the attempt is over.          *)
LEMMA CompleteRestores ==
  ASSUME Flags, ~m_connected, NEW success, NEW handlers \in SUBSET {m_hardware_interface},
         connect_complete(success, handlers)
  PROVE  /\ m_request_user_input' = {}
         /\ m_connected' \in BOOLEAN
         /\ m_enabled_buttons' = IF m_connected' THEN {"settings", "terminal"}
                                                 ELSE {"settings", "connect"}
<1>1. m_request_user_input' = {}
  BY DEF connect_complete
<1>2. m_connected' = (success = "success")
  BY DEF connect_complete, Flags
<1>3. enable_all({}) = {"settings", "connect"} /\ set_connected(enable_all({})) = {"settings", "terminal"}
  BY DEF enable_all, set_connected
<1> QED
  BY <1>1, <1>2, <1>3 DEF connect_complete

(* A click on Connect starts an attempt of the selected interface.         *)
LEMMA ConnectStep == ASSUME WindowInv, on_clicked PROVE WindowInv'
<1> USE DEF WindowInv
<1>1. /\ view = "home" /\ ~m_connected /\ dialog = NoDialog
      /\ UNCHANGED <<view, m_hardware_interface, dialog>>
  BY DEF on_clicked, Clicked, ButtonsFollowAttempt, Attempt, Flags, windowVars, agentVars
<1>2. ~m_complete_connection /\ ~m_connect_callback /\ Handlers = {m_hardware_interface}
  BY ClickedMeansIdle DEF on_clicked, Handlers
<1>3. CASE AttemptBegins /\ \/ /\ m_hardware_interface = "serial" /\ m_connect_callback' = TRUE
                               /\ m_complete_connection' = m_complete_connection
                            \/ /\ m_hardware_interface = "bluetooth"
                               /\ m_connect_callback' = m_connect_callback
                               /\ m_complete_connection' = TRUE
  <2>1. /\ m_enabled_buttons' = {} /\ m_request_user_input' = {m_hardware_interface}
        /\ m_connected' = m_connected
        /\ m_hardware_interface' = m_hardware_interface /\ view' = view /\ dialog' = NoDialog
    BY <1>1, <1>2, <1>3 DEF AttemptBegins
  <2>2. CASE /\ m_hardware_interface = "serial" /\ m_connect_callback' = TRUE
             /\ m_complete_connection' = FALSE
    BY <1>1, <2>1, <2>2 DEF Flags, AttemptInv, Attempt, ButtonsFollowAttempt,
       HandlersFollowAttempt, PromptHasAttempt
  <2>3. CASE /\ m_hardware_interface = "bluetooth" /\ m_connect_callback' = FALSE
             /\ m_complete_connection' = TRUE
    BY <1>1, <2>1, <2>3 DEF Flags, AttemptInv, Attempt, ButtonsFollowAttempt,
       HandlersFollowAttempt, PromptHasAttempt
  <2>4. m_complete_connection = FALSE /\ m_connect_callback = FALSE
    BY <1>2 DEF Flags
  <2> QED
    BY <1>3, <2>2, <2>3, <2>4
<1>4. CASE /\ connect_complete("failure", Handlers)
           /\ UNCHANGED <<m_connect_callback, m_complete_connection>>
  <2>1. Handlers \in SUBSET {m_hardware_interface}
    BY <1>2
  <2>2. /\ m_request_user_input' = {} /\ m_connected' \in BOOLEAN
        /\ m_enabled_buttons' = IF m_connected' THEN {"settings", "terminal"}
                                                ELSE {"settings", "connect"}
    BY <1>1, <1>4, <2>1, CompleteRestores
  <2> QED
    BY <1>1, <1>2, <1>4, <2>2
       DEF Flags, AttemptInv, Attempt, ButtonsFollowAttempt, HandlersFollowAttempt, PromptHasAttempt
<1>5. CASE ConnectSerial
  BY <1>3, <1>4, <1>5 DEF ConnectSerial, SerialConnect, serialVars, bluetoothVars
<1>6. CASE ConnectBluetooth
  BY <1>3, <1>4, <1>6 DEF ConnectBluetooth, serialVars, bluetoothVars
<1> QED
  BY <1>5, <1>6 DEF on_clicked

(* An attempt that ends leaves no attempt, and no prompt, behind.          *)
LEMMA EndStep ==
  ASSUME WindowInv, SerialAttemptEnds \/ BluetoothAttemptEnds
  PROVE  WindowInv'
<1> USE DEF WindowInv
<1>1. PICK success : /\ connect_complete(success, m_request_user_input)
                     /\ UNCHANGED windowVars
  BY DEF SerialAttemptEnds, BluetoothAttemptEnds
<1>2. /\ Attempt /\ ~Attempt' /\ dialog' = NoDialog
      /\ m_complete_connection' \in BOOLEAN /\ m_connect_callback' \in BOOLEAN
  <2>1. CASE SerialAttemptEnds
    BY <2>1 DEF SerialAttemptEnds, SerialComplete, Flags, AttemptInv, Attempt, PromptHasAttempt,
                bluetoothVars, agentVars
  <2>2. CASE BluetoothAttemptEnds
    BY <2>2 DEF BluetoothAttemptEnds, Dispatch, Flags, AttemptInv, Attempt, serialVars
  <2> QED
    BY <2>1, <2>2
<1>3. /\ m_request_user_input' = {} /\ m_connected' \in BOOLEAN
      /\ m_enabled_buttons' = IF m_connected' THEN {"settings", "terminal"}
                                              ELSE {"settings", "connect"}
  <2>1. ~m_connected /\ m_request_user_input \in SUBSET {m_hardware_interface}
    BY <1>2 DEF AttemptInv, HandlersFollowAttempt
  <2> QED
    BY <1>1, <2>1, CompleteRestores
<1> QED
  BY <1>1, <1>2, <1>3 DEF Flags, AttemptInv, Attempt, windowVars, ButtonsFollowAttempt,
     HandlersFollowAttempt, PromptHasAttempt

(* Every step keeps the window in order.                                   *)
LEMMA WindowStep == WindowInv /\ [Next]_vars => WindowInv'
<1> SUFFICES ASSUME WindowInv, [Next]_vars PROVE WindowInv'
  OBVIOUS
<1> USE DEF WindowInv
<1> DEFINE Frame == UNCHANGED <<buttonVars, m_complete_connection, m_connect_callback>>
<1>1. CASE on_clicked
  BY <1>1, ConnectStep
<1>2. CASE SerialAttemptEnds \/ BluetoothAttemptEnds
  BY <1>2, EndStep
<1>3. CASE Frame /\ UNCHANGED windowVars /\ (dialog' = dialog \/ dialog' = NoDialog)
  BY <1>3 DEF Flags, AttemptInv, Attempt, windowVars, buttonVars, ButtonsFollowAttempt,
              HandlersFollowAttempt, PromptHasAttempt
<1>4. CASE /\ Frame /\ ~Attempt /\ dialog' = dialog
           /\ m_hardware_interface' \in {"bluetooth", "serial"}
  BY <1>4 DEF Flags, AttemptInv, Attempt, buttonVars, ButtonsFollowAttempt,
              HandlersFollowAttempt, PromptHasAttempt
<1>5. CASE AgentHandlers
  <2>1. Frame /\ UNCHANGED windowVars
    BY <1>5 DEF AgentHandlers, OnlyAgent, bluetoothVars, serialVars
  <2>2. CASE dialog' = dialog
    BY <1>3, <2>1, <2>2
  <2>3. CASE dialog' # dialog
    <3>1. "bluetooth" \in m_request_user_input
      BY <1>5, <2>3 DEF AgentHandlers, AgentRequest, AgentCancel
    <3>2. m_complete_connection /\ m_hardware_interface = "bluetooth"
      BY <3>1 DEF HandlersFollowAttempt, Attempt, AttemptInv, Flags
    <3> QED
      BY <2>1, <3>2 DEF Flags, AttemptInv, Attempt, windowVars, buttonVars, ButtonsFollowAttempt,
         HandlersFollowAttempt, PromptHasAttempt
  <2> QED
    BY <2>2, <2>3
<1>6. CASE UserAnswers
  BY <1>3, <1>6 DEF UserAnswers, OnlyAgent, CloseDialog, bluetoothVars, serialVars
<1>7. CASE BluetoothAnswer
  BY <1>3, <1>7 DEF BluetoothAnswer, serialVars
<1>8. CASE Bluez /\ OnlyAgent
  BY <1>3, <1>8 DEF Bluez, Ask, GiveUp, OnlyAgent, bluetoothVars, serialVars
<1>9. CASE SerialThread /\ UNCHANGED <<agentVars, windowVars, buttonVars, bluetoothVars>>
  <2>1. UNCHANGED m_connect_callback
    BY <1>9 DEF SerialThread, OpenDevice, ConfigureDevice, CloseDevice, SignalConnectComplete,
       ReturnResult, ThreadStep
  <2> QED
    BY <1>3, <1>9, <2>1 DEF agentVars, bluetoothVars
<1>10. CASE settings_clicked \/ terminal_clicked
  <2>1. ~Attempt
    BY <1>10, ClickedMeansIdle DEF settings_clicked, terminal_clicked, Attempt
  <2>2. m_hardware_interface' \in {"bluetooth", "serial"}
    BY <1>10 DEF settings_clicked, terminal_clicked, Flags
  <2> QED
    BY <1>4, <1>10, <2>1, <2>2 DEF settings_clicked, terminal_clicked, Clicked, OnlyWindow,
       agentVars, serialVars, bluetoothVars
<1>11. CASE select_bluetooth \/ select_serial \/ home_clicked
  <2>1. ~Attempt
    BY <1>11 DEF select_bluetooth, select_serial, home_clicked, AttemptInv
  <2>2. m_hardware_interface' \in {"bluetooth", "serial"}
    BY <1>11 DEF select_bluetooth, select_serial, home_clicked, Flags
  <2> QED
    BY <1>4, <1>11, <2>1, <2>2 DEF select_bluetooth, select_serial, home_clicked, OnlyWindow,
       agentVars, serialVars, bluetoothVars
<1>12. CASE UNCHANGED vars
  BY <1>3, <1>12 DEF vars, agentVars, serialVars, bluetoothVars
<1> QED
  BY <1>1, <1>2, <1>5, <1>6, <1>7, <1>8, <1>9, <1>10, <1>11, <1>12 DEF Next, User, Handling

(* Nothing can be clicked during an attempt, so that neither the interface *)
(* nor the view changes under it, and everything can be clicked after it.  *)
THEOREM NoClickInAttempt == Spec => []ButtonsFollowAttempt
<1>1. WindowInv => ButtonsFollowAttempt
  BY DEF WindowInv
<1> QED
  BY WindowInit, WindowStep, <1>1, PTL DEF Spec

(* The user input handler is set exactly during an attempt, and for the    *)
(* interface the attempt is made through.                                  *)
THEOREM HandlerInAttempt == Spec => []HandlersFollowAttempt
<1>1. WindowInv => HandlersFollowAttempt
  BY DEF WindowInv
<1> QED
  BY WindowInit, WindowStep, <1>1, PTL DEF Spec

(* A prompt is open only during an attempt through bluetooth.              *)
THEOREM PromptInAttempt == Spec => []PromptHasAttempt
<1>1. WindowInv => PromptHasAttempt
  BY DEF WindowInv
<1> QED
  BY WindowInit, WindowStep, <1>1, PTL DEF Spec

-----------------------------------------------------------------------------
(* The serial port keeps its promise.                                      *)

Held == {"configure", "close", "signal success", "return success"}
NotHeld == {"open", "forget", "signal failure", "return failure"}

(* Where the thread is says whether a file is open, and a result that      *)
(* waits for the event says it too.                                        *)
FileInv == /\ connectThread \in Held => m_sock_file = TRUE
           /\ connectThread \in NotHeld => m_sock_file = FALSE
           /\ m_is_connected = "success" => m_sock_file = TRUE
           /\ m_is_connected = "failure" => m_sock_file = FALSE

(* The callback is stored exactly while the future is valid, and the       *)
(* future is pending exactly while the thread runs.                        *)
FutureInv == /\ connectThread \in Held \cup NotHeld \cup {"none"}
             /\ m_is_connected \in {"invalid", "pending", "success", "failure"}
             /\ m_connect_callback = (m_is_connected # "invalid")
             /\ (m_is_connected = "pending") = (connectThread # "none")

SerialInv == FileInv /\ FutureInv /\ m_sock_file \in BOOLEAN

(* Initially the port is closed and no thread runs.                        *)
LEMMA SerialInvInit == Init => SerialInv
BY DEF Init, SerialInit, SerialInv, FileInv, FutureInv, Held, NotHeld

(* A call of connect starts at most one thread.                            *)
LEMMA SerialConnectStep ==
  ASSUME SerialInv, SerialConnect
  PROVE  SerialInv' /\ [Serial!Begin]_Serial!attemptVars
<1> USE DEF SerialInv
<1>1. CASE SerialAccepts
  <2>1. /\ m_connect_callback = FALSE /\ m_sock_file = FALSE /\ connectThread' = "open"
        /\ m_connect_callback' = TRUE /\ m_is_connected' = "pending"
        /\ UNCHANGED <<m_sock_file, reported>>
    BY <1>1 DEF SerialAccepts, SerialConnect, FutureInv, openVars
  <2>2. SerialInv'
    BY <2>1 DEF FileInv, FutureInv, Held, NotHeld
  <2>3. Serial!Begin
    BY <2>1 DEF Serial!Begin
  <2> QED
    BY <2>2, <2>3
<1>2. CASE ~SerialAccepts
  BY <1>2 DEF SerialConnect, serialVars, openVars, FileInv, FutureInv, Serial!attemptVars
<1> QED
  BY <1>1, <1>2

(* A step of the thread opens or closes the file, or leaves it alone.      *)
LEMMA SerialThreadStep ==
  ASSUME SerialInv, SerialThread
  PROVE  SerialInv' /\ [Serial!Work]_Serial!attemptVars
<1> USE DEF SerialInv, Held, NotHeld
<1>1. CASE OpenDevice
  <2>1. CASE m_sock_file' = TRUE
    BY <1>1, <2>1 DEF OpenDevice, ThreadStep, FileInv, FutureInv, Serial!Work, Serial!attemptVars
  <2>2. CASE m_sock_file' = FALSE
    BY <1>1, <2>2 DEF OpenDevice, ThreadStep, FileInv, FutureInv, Serial!attemptVars
  <2> QED
    BY <1>1, <2>1, <2>2 DEF OpenDevice
<1>2. CASE ConfigureDevice
  BY <1>2 DEF ConfigureDevice, ThreadStep, openVars, FileInv, FutureInv, Serial!attemptVars
<1>3. CASE CloseDevice
  <2>1. CASE connectThread = "close"
    BY <1>3, <2>1 DEF CloseDevice, ThreadStep, FileInv, FutureInv, Serial!Work,
                      Serial!attemptVars
  <2>2. CASE connectThread = "forget"
    BY <1>3, <2>2 DEF CloseDevice, ThreadStep, FileInv, FutureInv, Serial!attemptVars
  <2> QED
    BY <1>3, <2>1, <2>2 DEF CloseDevice
<1>4. CASE SignalConnectComplete
  BY <1>4 DEF SignalConnectComplete, ThreadStep, openVars, FileInv, FutureInv,
              Serial!attemptVars
<1>5. CASE ReturnResult
  BY <1>5 DEF ReturnResult, openVars, FileInv, FutureInv, Serial!attemptVars
<1> QED
  BY <1>1, <1>2, <1>3, <1>4, <1>5 DEF SerialThread

(* The callback is told what the file says.                                *)
LEMMA SerialCompleteStep ==
  ASSUME SerialInv, NEW success, SerialComplete(success)
  PROVE  SerialInv' /\ Serial!Complete
<1> USE DEF SerialInv
<1>1. /\ m_connect_callback = TRUE /\ connectThread = "none"
      /\ success = IF m_sock_file THEN "success" ELSE "failure"
  BY DEF SerialComplete, FileInv, FutureInv
<1>2. /\ m_connect_callback' = FALSE /\ m_is_connected' = "invalid" /\ reported' = success
      /\ UNCHANGED <<m_sock_file, connectThread>>
  BY DEF SerialComplete, openVars
<1> QED
  BY <1>1, <1>2 DEF FileInv, FutureInv, Held, NotHeld, Serial!Complete

SerialNext == [Serial!Begin \/ Serial!Work \/ Serial!Complete]_Serial!attemptVars

(* Every step of the program is a step of the promise, or none.            *)
LEMMA SerialStep == SerialInv /\ [Next]_vars => SerialInv' /\ SerialNext
<1> SUFFICES ASSUME SerialInv, [Next]_vars PROVE SerialInv' /\ SerialNext
  OBVIOUS
<1>1. CASE UNCHANGED serialVars
  BY <1>1 DEF SerialInv, FileInv, FutureInv, serialVars, openVars, SerialNext,
              Serial!attemptVars
<1>2. CASE SerialConnect
  BY <1>2, SerialConnectStep DEF SerialNext
<1>3. CASE SerialThread
  BY <1>3, SerialThreadStep DEF SerialNext
<1>4. CASE \E success : SerialComplete(success)
  BY <1>4, SerialCompleteStep DEF SerialNext
<1>5. CASE User
  BY <1>1, <1>2, <1>5 DEF User, on_clicked, ConnectSerial, ConnectBluetooth, settings_clicked,
     select_bluetooth, select_serial, terminal_clicked, home_clicked, OnlyWindow
<1>6. CASE Handling
  BY <1>1, <1>4, <1>6 DEF Handling, SerialAttemptEnds, BluetoothAttemptEnds, AgentHandlers,
     OnlyAgent
<1> QED
  BY <1>1, <1>3, <1>5, <1>6 DEF Next, UserAnswers, BluetoothAnswer, OnlyAgent, vars

(* SerialPort implements the safety part of what HardwareInterface         *)
(* promises: an accepted call is answered once, and "success" is reported  *)
(* exactly when the port is open.                                          *)
THEOREM SerialTruthful ==
  Spec => Serial!AttemptInit
          /\ [][Serial!Begin \/ Serial!Work \/ Serial!Complete]_Serial!attemptVars
<1>1. Init => Serial!AttemptInit
  BY DEF Init, SerialInit, Serial!AttemptInit
<1>2. SerialNext => [Serial!Begin \/ Serial!Work \/ Serial!Complete]_Serial!attemptVars
  BY DEF SerialNext
<1> QED
  BY SerialInvInit, SerialStep, <1>1, <1>2, PTL DEF Spec

-----------------------------------------------------------------------------
(* Every request of bluez is answered.                                     *)

Messages == Requests \cup {Cancel, AttemptEnd("success"), AttemptEnd("failure")}

(* A request that waits in the inbox or in a dialog was made, is not       *)
(* answered yet, and is there once.                                        *)
Open(n) == n \in 1..asked /\ answers[n] = 0

OpenInv ==
    /\ \A i \in 1..Len(inbox) : inbox[i].id # 0 => Open(inbox[i].id) /\ inbox[i].id # dialog.id
    /\ \A i, j \in 1..Len(inbox) : inbox[i].id = inbox[j].id /\ inbox[i].id # 0 => i = j
    /\ dialog # NoDialog => Open(dialog.id)
    /\ \A n \in 1..MaxRequests : n > asked => answers[n] = 0

(* The answer of a request is sent, its dialog is open, or it waits.       *)
Accounted(n) == \/ answers[n] = 1 \/ dialog.id = n
                \/ \E i \in 1..Len(inbox) : inbox[i].id = n

AgentInv == /\ AgentTypeOK /\ OpenInv
            /\ EmptyTexts = FALSE => \A n \in 1..asked : Accounted(n)

(* Requests have a number and the other messages have none.                *)
LEMMA MessageIds ==
  /\ \A msg \in Messages : msg.id \in 0..MaxRequests /\ (msg.id # 0 => msg \in Requests)
  /\ \A msg \in Requests : msg.id \in 1..MaxRequests /\ msg # NoDialog
  /\ Cancel.id = 0 /\ AttemptEnd("success").id = 0 /\ AttemptEnd("failure").id = 0
  /\ NoDialog.id = 0
BY AgentAssumption DEF Messages, Requests, Cancel, AttemptEnd, NoDialog

(* Initially nothing is asked.                                             *)
LEMMA AgentInvInit == Init => AgentInv
BY AgentAssumption DEF Init, AgentInit, AgentInv, AgentTypeOK, OpenInv, NoDialog

(* A message that is appended leaves the others where they are.            *)
LEMMA Appended ==
  ASSUME inbox \in Seq(Messages), NEW msg \in Messages, inbox' = Append(inbox, msg)
  PROVE  /\ inbox' \in Seq(Messages) /\ Len(inbox') = Len(inbox) + 1
         /\ inbox'[Len(inbox')] = msg
         /\ \A i \in 1..Len(inbox) : inbox'[i] = inbox[i]
OBVIOUS

(* A message that is handled leaves the others, one place further in front.*)
LEMMA Handled ==
  ASSUME inbox \in Seq(Messages), inbox # <<>>, inbox' = Tail(inbox)
  PROVE  /\ inbox' \in Seq(Messages) /\ Len(inbox') = Len(inbox) - 1
         /\ Head(inbox) = inbox[1] /\ Head(inbox) \in Messages
         /\ \A i \in 1..Len(inbox') : inbox'[i] = inbox[i + 1]
OBVIOUS

(* A message without a number changes nothing that is promised.            *)
LEMMA AppendNote ==
  ASSUME AgentInv, NEW msg \in Messages, msg.id = 0, inbox' = Append(inbox, msg),
         UNCHANGED <<asked, dialog, answers>>, waitingFor' \in 0..asked
  PROVE  AgentInv'
<1>1. inbox \in Seq(Messages)
  BY DEF AgentInv, AgentTypeOK, Messages
<1>2. /\ inbox' \in Seq(Messages) /\ Len(inbox') = Len(inbox) + 1
      /\ inbox'[Len(inbox')] = msg
      /\ \A i \in 1..Len(inbox) : inbox'[i] = inbox[i]
  BY <1>1, Appended
<1>3. AgentTypeOK'
  BY <1>2 DEF AgentInv, AgentTypeOK, Messages
<1>4. Len(inbox) \in Nat
  BY <1>1
<1>5. \A i \in 1..Len(inbox') : inbox'[i].id # 0 => i \in 1..Len(inbox) /\ inbox'[i] = inbox[i]
  BY <1>2, <1>4
<1>6. OpenInv'
  BY <1>5 DEF AgentInv, OpenInv, Open
<1>7. \A i \in 1..Len(inbox) : i \in 1..Len(inbox') /\ inbox'[i].id = inbox[i].id
  BY <1>2, <1>4
<1>8. EmptyTexts = FALSE => \A n \in 1..asked' : Accounted(n)'
  BY <1>7 DEF AgentInv, Accounted
<1> QED
  BY <1>3, <1>6, <1>8 DEF AgentInv

(* A new request waits in the inbox.                                       *)
LEMMA AskStep ==
  ASSUME AgentInv, NEW type \in ResponseType, Ask(type) PROVE AgentInv'
<1> DEFINE msg == [id |-> asked', type |-> type]
<1>1. inbox \in Seq(Messages) /\ asked \in 0..MaxRequests /\ MaxRequests \in Nat
  BY AgentAssumption DEF AgentInv, AgentTypeOK, Messages
<1>2. asked' = asked + 1 /\ asked' \in 1..MaxRequests /\ UNCHANGED <<dialog, answers>>
  BY <1>1 DEF Ask
<1>3. msg \in Messages /\ msg.id = asked'
  BY <1>2 DEF Messages, Requests
<1>4. /\ inbox' \in Seq(Messages) /\ Len(inbox') = Len(inbox) + 1
      /\ inbox'[Len(inbox')] = msg
      /\ \A i \in 1..Len(inbox) : inbox'[i] = inbox[i]
  BY <1>1, <1>3, Appended DEF Ask
<1> HIDE DEF msg
<1>5. AgentTypeOK'
  BY <1>1, <1>2, <1>4 DEF AgentInv, AgentTypeOK, Messages, Ask
<1>6. Len(inbox) \in Nat
  BY <1>1
<1>7. \A i \in 1..Len(inbox') : \/ i \in 1..Len(inbox) /\ inbox'[i] = inbox[i]
                                \/ i = Len(inbox') /\ inbox'[i].id = asked'
  BY <1>3, <1>4, <1>6
<1>8. \A i \in 1..Len(inbox) : inbox[i].id # 0 => inbox[i].id \in 1..asked
  BY DEF AgentInv, OpenInv, Open
<1>9. dialog # NoDialog => dialog.id \in 1..asked
  BY DEF AgentInv, OpenInv, Open
<1>10. dialog.id # asked'
  BY <1>1, <1>2, <1>9, MessageIds
<1>11. OpenInv'
  <2>1. answers[asked'] = 0
    BY <1>1, <1>2 DEF AgentInv, OpenInv
  <2>2. \A n : Open(n) => Open(n)'
    BY <1>1, <1>2 DEF Open
  <2>3. Open(asked)'
    BY <1>2, <2>1 DEF Open
  <2>4. \A i \in 1..Len(inbox') : inbox'[i].id # 0 =>
                                  Open(inbox[i].id)' /\ inbox'[i].id # dialog'.id
    BY <1>2, <1>7, <1>10, <2>2, <2>3 DEF AgentInv, OpenInv
  <2>5. \A i, j \in 1..Len(inbox') : inbox'[i].id = inbox'[j].id /\ inbox'[i].id # 0 => i = j
    <3> TAKE i, j \in 1..Len(inbox')
    <3> HAVE inbox'[i].id = inbox'[j].id /\ inbox'[i].id # 0
    <3>1. asked' \notin 1..asked
      BY <1>1, <1>2
    <3>2. CASE i \in 1..Len(inbox) /\ inbox'[i] = inbox[i]
      BY <3>1, <3>2, <1>7, <1>8 DEF AgentInv, OpenInv
    <3>3. CASE i = Len(inbox') /\ inbox'[i].id = asked'
      BY <3>1, <3>3, <1>7, <1>8
    <3> QED
      BY <1>7, <3>2, <3>3
  <2>6. dialog' # NoDialog => Open(dialog.id)'
    BY <1>2, <2>2 DEF AgentInv, OpenInv
  <2>7. \A n \in 1..MaxRequests : n > asked' => answers'[n] = 0
    BY <1>1, <1>2 DEF AgentInv, OpenInv
  <2> QED
    BY <2>4, <2>5, <2>6, <2>7 DEF OpenInv
<1>12. EmptyTexts = FALSE => \A n \in 1..asked' : Accounted(n)'
  <2> SUFFICES ASSUME EmptyTexts = FALSE, NEW n \in 1..asked' PROVE Accounted(n)'
    OBVIOUS
  <2>1. CASE n = asked'
    <3>1. Len(inbox') \in 1..Len(inbox') /\ inbox'[Len(inbox')].id = n
      BY <1>3, <1>4, <1>6, <2>1
    <3> QED
      BY <3>1 DEF Accounted
  <2>2. CASE n # asked'
    <3>1. Accounted(n)
      BY <1>1, <1>2, <2>2 DEF AgentInv
    <3>2. \A i \in 1..Len(inbox) : i \in 1..Len(inbox') /\ inbox'[i].id = inbox[i].id
      BY <1>4, <1>6
    <3> QED
      BY <3>1, <3>2, <1>2 DEF Accounted
  <2> QED
    BY <2>1, <2>2
<1> QED
  BY <1>5, <1>11, <1>12 DEF AgentInv

(* Answering a request that is open, and in no other place, closes it.     *)
LEMMA AnswerStep ==
  ASSUME AgentInv, NEW n, Open(n), Answer(n), UNCHANGED asked
  PROVE  /\ answers' \in [1..MaxRequests -> 0..1] /\ waitingFor' \in 0..asked'
         /\ answers'[n] = 1
         /\ \A k \in 1..MaxRequests : k # n => answers'[k] = answers[k]
         /\ n \in 1..MaxRequests
BY AgentAssumption DEF AgentInv, AgentTypeOK, Open, Answer

(* A message that waits is handled: a request gets a dialog, or an answer. *)
LEMMA RequestStep == ASSUME AgentInv, NEW connected, AgentRequest(connected) PROVE AgentInv'
<1> DEFINE msg == Head(inbox)
<1>1. /\ inbox \in Seq(Messages) /\ inbox # <<>> /\ inbox' = Tail(inbox) /\ asked' = asked
      /\ dialog = NoDialog /\ msg \in Requests /\ MaxRequests \in Nat
  BY AgentAssumption DEF AgentInv, AgentTypeOK, Messages, AgentRequest, Dispatch
<1>2. /\ inbox' \in Seq(Messages) /\ Len(inbox') = Len(inbox) - 1
      /\ msg = inbox[1] /\ \A i \in 1..Len(inbox') : inbox'[i] = inbox[i + 1]
  BY <1>1, Handled
<1>3. Len(inbox) \in Nat \ {0} /\ 1 \in 1..Len(inbox)
  BY <1>1
<1>4. msg.id \in 1..MaxRequests /\ msg # NoDialog /\ NoDialog.id = 0
  BY <1>1, MessageIds
<1>5. Open(msg.id)
  BY <1>2, <1>3, <1>4 DEF AgentInv, OpenInv
<1>6. \A i \in 1..Len(inbox') : i + 1 \in 1..Len(inbox) /\ i + 1 # 1
  BY <1>2, <1>3
<1>7. \A i \in 1..Len(inbox') : inbox'[i].id # 0 => Open(inbox'[i].id) /\ inbox'[i].id # msg.id
  BY <1>2, <1>3, <1>6 DEF AgentInv, OpenInv
<1>8. \A i, j \in 1..Len(inbox') : inbox'[i].id = inbox'[j].id /\ inbox'[i].id # 0 => i = j
  <2> TAKE i, j \in 1..Len(inbox')
  <2> HAVE inbox'[i].id = inbox'[j].id /\ inbox'[i].id # 0
  <2>1. i + 1 = j + 1
    BY <1>2, <1>6 DEF AgentInv, OpenInv
  <2> QED
    BY <2>1
<1>9. \A k \in 1..Len(inbox) : k = 1 \/ \E i \in 1..Len(inbox') : inbox'[i] = inbox[k]
  <2> TAKE k \in 1..Len(inbox)
  <2>1. CASE k # 1
    <3>1. k - 1 \in 1..Len(inbox') /\ (k - 1) + 1 = k
      BY <1>2, <1>3, <2>1
    <3> QED
      BY <1>2, <3>1
  <2> QED
    BY <2>1
<1> HIDE DEF msg
<1>10. EmptyTexts = FALSE => \A n \in 1..asked : \/ answers[n] = 1 \/ msg.id = n
                                           \/ \E i \in 1..Len(inbox') : inbox'[i].id = n
  <2> SUFFICES ASSUME EmptyTexts = FALSE, NEW n \in 1..asked, answers[n] # 1, msg.id # n
               PROVE  \E i \in 1..Len(inbox') : inbox'[i].id = n
    OBVIOUS
  <2>1. 0 \notin 1..asked
    BY DEF AgentInv, AgentTypeOK
  <2>2. PICK k \in 1..Len(inbox) : inbox[k].id = n
    BY <1>1, <1>4, <2>1 DEF AgentInv, Accounted
  <2>3. k # 1
    BY <1>2, <2>2
  <2> QED
    BY <1>9, <2>2, <2>3
<1>11. CASE dialog' = msg /\ UNCHANGED <<waitingFor, answers>>
  <2>1. AgentTypeOK'
    BY <1>1, <1>2, <1>11 DEF AgentInv, AgentTypeOK, Messages
  <2>2. OpenInv'
    BY <1>1, <1>5, <1>7, <1>8, <1>11 DEF AgentInv, OpenInv, Open
  <2>3. EmptyTexts = FALSE => \A n \in 1..asked' : Accounted(n)'
    BY <1>1, <1>10, <1>11 DEF Accounted
  <2> QED
    BY <2>1, <2>2, <2>3 DEF AgentInv
<1>12. CASE Answer(msg.id) /\ UNCHANGED dialog
  <2>1. /\ answers' \in [1..MaxRequests -> 0..1] /\ waitingFor' \in 0..asked'
        /\ answers'[msg.id] = 1
        /\ \A k \in 1..MaxRequests : k # msg.id => answers'[k] = answers[k]
    BY <1>1, <1>5, <1>12, AnswerStep
  <2>2. AgentTypeOK'
    BY <1>1, <1>2, <1>12, <2>1 DEF AgentInv, AgentTypeOK, Messages
  <2>3. asked \in 0..MaxRequests
    BY DEF AgentInv, AgentTypeOK
  <2>4. \A i \in 1..Len(inbox') : inbox'[i].id # 0 => Open(inbox[i].id)'
    BY <1>1, <1>7, <2>1, <2>3 DEF Open
  <2>5. \A n \in 1..MaxRequests : n > asked' => answers'[n] = 0
    BY <1>1, <1>5, <2>1, <2>3 DEF Open, AgentInv, OpenInv
  <2>6. OpenInv'
    BY <1>1, <1>4, <1>8, <1>12, <2>4, <2>5 DEF OpenInv
  <2>7. EmptyTexts = FALSE => \A n \in 1..asked' : Accounted(n)'
    <3> SUFFICES ASSUME EmptyTexts = FALSE, NEW n \in 1..asked PROVE Accounted(n)'
      BY <1>1
    <3>1. n \in 1..MaxRequests
      BY <1>1, <2>3
    <3>2. answers[n] = 1 \/ n = msg.id => answers'[n] = 1
      BY <1>5, <2>1, <3>1 DEF Open
    <3> QED
      BY <1>10, <3>2 DEF Accounted
  <2> QED
    BY <2>2, <2>6, <2>7 DEF AgentInv
<1> QED
  BY <1>11, <1>12 DEF AgentRequest, msg

(* A message without a number that is handled is forgotten.                *)
LEMMA NoteHandled ==
  ASSUME AgentInv, Dispatch, Head(inbox).id = 0,
         UNCHANGED <<asked, waitingFor, dialog, answers>>
  PROVE  AgentInv'
<1>1. inbox \in Seq(Messages) /\ inbox # <<>> /\ inbox' = Tail(inbox) /\ asked \in Nat
  BY AgentAssumption DEF AgentInv, AgentTypeOK, Messages, Dispatch
<1>2. /\ inbox' \in Seq(Messages) /\ Len(inbox') = Len(inbox) - 1
      /\ Head(inbox) = inbox[1] /\ \A i \in 1..Len(inbox') : inbox'[i] = inbox[i + 1]
  BY <1>1, Handled
<1>3. Len(inbox) \in Nat \ {0}
  BY <1>1
<1>4. \A i \in 1..Len(inbox') : i + 1 \in 1..Len(inbox)
  BY <1>2, <1>3
<1>5. AgentTypeOK'
  BY <1>2 DEF AgentInv, AgentTypeOK, Messages
<1>6. \A i, j \in 1..Len(inbox') : inbox'[i].id = inbox'[j].id /\ inbox'[i].id # 0 => i = j
  <2> TAKE i, j \in 1..Len(inbox')
  <2> HAVE inbox'[i].id = inbox'[j].id /\ inbox'[i].id # 0
  <2>1. i + 1 = j + 1
    BY <1>2, <1>4 DEF AgentInv, OpenInv
  <2> QED
    BY <2>1
<1>7. OpenInv'
  BY <1>2, <1>4, <1>6 DEF AgentInv, OpenInv, Open
<1>8. ASSUME NEW n \in 1..asked, NEW k \in 1..Len(inbox), inbox[k].id = n
      PROVE  \E i \in 1..Len(inbox') : inbox'[i].id = n
  <2>1. k # 1
    BY <1>1, <1>2, <1>8
  <2>2. k - 1 \in 1..Len(inbox') /\ (k - 1) + 1 = k
    BY <1>2, <1>3, <2>1
  <2> QED
    BY <1>2, <1>8, <2>2
<1>9. EmptyTexts = FALSE => \A n \in 1..asked' : Accounted(n)'
  BY <1>8 DEF AgentInv, Accounted
<1> QED
  BY <1>5, <1>7, <1>9 DEF AgentInv

(* The user's answer goes to bluetooth, and to the request of the dialog.  *)
LEMMA CloseStep ==
  ASSUME AgentInv, PromptHasAttempt, CloseDialog(m_hardware_interface) PROVE AgentInv'
<1>1. /\ dialog # NoDialog /\ dialog' = NoDialog /\ UNCHANGED <<inbox, asked>>
      /\ m_hardware_interface = "bluetooth"
  BY DEF CloseDialog, PromptHasAttempt
<1>2. Open(dialog.id) /\ asked \in 0..MaxRequests /\ MaxRequests \in Nat
  BY <1>1, AgentAssumption DEF AgentInv, OpenInv, AgentTypeOK
<1>3. NoDialog.id = 0
  BY MessageIds
<1>4. CASE Answer(dialog.id)
  <2>1. /\ answers' \in [1..MaxRequests -> 0..1] /\ waitingFor' \in 0..asked'
        /\ answers'[dialog.id] = 1
        /\ \A k \in 1..MaxRequests : k # dialog.id => answers'[k] = answers[k]
    BY <1>1, <1>2, <1>4, AnswerStep
  <2>2. AgentTypeOK'
    BY <1>1, <2>1 DEF AgentInv, AgentTypeOK
  <2>3. \A i \in 1..Len(inbox) : inbox[i].id # 0 => Open(inbox[i].id)'
    BY <1>1, <1>2, <2>1 DEF Open, AgentInv, OpenInv
  <2>4. \A n \in 1..MaxRequests : n > asked' => answers'[n] = 0
    BY <1>1, <1>2, <2>1 DEF Open, AgentInv, OpenInv
  <2>5. OpenInv'
    BY <1>1, <1>3, <2>3, <2>4 DEF AgentInv, OpenInv
  <2>6. EmptyTexts = FALSE => \A n \in 1..asked' : Accounted(n)'
    BY <1>1, <1>2, <2>1 DEF AgentInv, Accounted
  <2> QED
    BY <2>2, <2>5, <2>6 DEF AgentInv
<1>5. CASE EmptyTexts # FALSE /\ UNCHANGED <<answers, waitingFor>>
  <2>1. AgentTypeOK'
    BY <1>1, <1>5 DEF AgentInv, AgentTypeOK
  <2>2. OpenInv'
    BY <1>1, <1>3, <1>5 DEF AgentInv, OpenInv, Open
  <2> QED
    BY <1>5, <2>1, <2>2 DEF AgentInv
<1> QED
  BY <1>1, <1>4, <1>5, AgentAssumption DEF CloseDialog, Sent

(* Every step keeps account of the requests.                               *)
LEMMA AgentStep == WindowInv /\ AgentInv /\ [Next]_vars => AgentInv'
<1> SUFFICES ASSUME WindowInv, AgentInv, [Next]_vars PROVE AgentInv'
  OBVIOUS
<1>1. CASE UNCHANGED agentVars
  BY <1>1 DEF agentVars, AgentInv, AgentTypeOK, OpenInv, Open, Accounted
<1>2. CASE Bluez
  <2>1. CASE GiveUp
    <3>1. Cancel \in Messages /\ Cancel.id = 0
      BY MessageIds DEF Messages
    <3>2. waitingFor' \in 0..asked
      BY <2>1, AgentAssumption DEF GiveUp, AgentInv, AgentTypeOK
    <3> QED
      BY <2>1, <3>1, <3>2, AppendNote DEF GiveUp
  <2>2. CASE \E type \in ResponseType : Ask(type)
    BY <2>2, AskStep
  <2> QED
    BY <1>2, <2>1, <2>2 DEF Bluez
<1>3. CASE AgentHandlers
  <2>1. CASE AgentRequest("bluetooth" \in m_request_user_input)
    BY <2>1, RequestStep
  <2>2. CASE AgentCancel
    BY <2>2, NoteHandled, MessageIds DEF AgentCancel
  <2> QED
    BY <1>3, <2>1, <2>2 DEF AgentHandlers
<1>4. CASE UserAnswers
  BY <1>4, CloseStep DEF UserAnswers, WindowInv
<1>5. CASE BluetoothAnswer
  <2>1. PICK success \in {"success", "failure"} : inbox' = Append(inbox, AttemptEnd(success))
    BY <1>5 DEF BluetoothAnswer
  <2>2. AttemptEnd(success) \in Messages /\ AttemptEnd(success).id = 0
    BY MessageIds DEF Messages
  <2>3. UNCHANGED <<asked, dialog, answers>> /\ waitingFor' \in 0..asked
    BY <1>5 DEF BluetoothAnswer, AgentInv, AgentTypeOK
  <2> QED
    BY <2>1, <2>2, <2>3, AppendNote
<1>6. CASE BluetoothAttemptEnds
  <2>1. inbox \in Seq(Messages) /\ inbox # <<>> /\ Head(inbox).type \in {"success", "failure"}
    BY <1>6 DEF BluetoothAttemptEnds, Dispatch, AgentInv, AgentTypeOK, Messages
  <2>2. Head(inbox) \in Messages /\ Head(inbox) \notin Requests
    BY <2>1 DEF Requests, ResponseType
  <2>3. Head(inbox).id = 0
    BY <2>2, MessageIds
  <2> QED
    BY <1>6, <2>3, NoteHandled DEF BluetoothAttemptEnds
<1>7. CASE User
  BY <1>1, <1>7 DEF User, on_clicked, Clicked, settings_clicked, select_bluetooth,
     select_serial, terminal_clicked, home_clicked
<1>8. CASE SerialAttemptEnds
  BY <1>1, <1>8 DEF SerialAttemptEnds
<1> QED
  BY <1>1, <1>2, <1>3, <1>4, <1>5, <1>6, <1>7, <1>8 DEF Next, Handling, vars

(* Every request is answered, or waits, or has its dialog open, if the     *)
(* user confirms no empty text.                                            *)
THEOREM RequestsAnswered == ASSUME EmptyTexts = FALSE PROVE Spec => []EveryRequestAnswered
<1>1. AgentInv => EveryRequestAnswered
  <2> SUFFICES ASSUME AgentInv, NEW n \in 1..asked
               PROVE  \/ answers[n] = 1 \/ dialog.id = n
                      \/ \E i \in DOMAIN inbox : inbox[i].id = n
    BY DEF EveryRequestAnswered
  <2>1. DOMAIN inbox = 1..Len(inbox)
    BY DEF AgentInv, AgentTypeOK
  <2> QED
    BY <2>1 DEF AgentInv, Accounted
<1> QED
  BY WindowInit, WindowStep, AgentInvInit, AgentStep, <1>1, PTL DEF Spec

-----------------------------------------------------------------------------
(* The types.  One event is on its way from the thread's signal until the  *)
(* result is taken, and none otherwise.                                    *)

Signalled == \/ connectThread \in {"return success", "return failure"}
             \/ m_is_connected \in {"success", "failure"}

EventInv == /\ connectEvents \in Nat
            /\ Signalled => connectEvents = 1
            /\ ~Signalled => connectEvents = 0

RangeInv == /\ EventInv
            /\ m_sock_fd \in BOOLEAN /\ reported \in {"none", "success", "failure"}
            /\ view \in {"home", "settings", "terminal"}
            /\ m_bluetooth_rb \in BOOLEAN /\ connecting \in {"no", "yes", "lost"}

(* Initially no event is on its way.                                       *)
LEMMA RangeInit == Init => RangeInv
<1> SUFFICES ASSUME Init PROVE RangeInv
  OBVIOUS
<1>1. EventInv
  BY DEF Init, SerialInit, EventInv, Signalled
<1> QED
  BY <1>1 DEF Init, SerialInit, RangeInv

(* A step of the thread signals at most once, before it returns.           *)
LEMMA RangeThreadStep ==
  ASSUME SerialInv, RangeInv, SerialThread
  PROVE  /\ EventInv'
         /\ m_sock_fd' \in BOOLEAN /\ reported' = reported
<1> USE DEF RangeInv, EventInv, Signalled, SerialInv, FutureInv
<1>1. CASE OpenDevice
  BY <1>1 DEF OpenDevice, ThreadStep
<1>2. CASE ConfigureDevice
  BY <1>2 DEF ConfigureDevice, ThreadStep, openVars
<1>3. CASE CloseDevice
  BY <1>3 DEF CloseDevice, ThreadStep
<1>4. CASE SignalConnectComplete
  <2>1. ~Signalled /\ Signalled'
    BY <1>4 DEF SignalConnectComplete, ThreadStep
  <2>2. connectEvents = 0 /\ connectEvents' = connectEvents + 1
    BY <1>4, <2>1 DEF SignalConnectComplete
  <2>3. connectEvents' \in Nat /\ connectEvents' = 1
    BY ONLY <2>2
  <2>4. EventInv'
    <3> HIDE DEF Signalled
    <3> QED
      BY <2>1, <2>3
  <2> QED
    BY <1>4, <2>4 DEF SignalConnectComplete, ThreadStep, openVars
<1>5. CASE ReturnResult
  BY <1>5 DEF ReturnResult, openVars
<1> QED
  BY <1>1, <1>2, <1>3, <1>4, <1>5 DEF SerialThread

(* Every step keeps the ranges.                                            *)
LEMMA RangeStep == SerialInv /\ RangeInv /\ [Next]_vars => RangeInv'
<1> SUFFICES ASSUME SerialInv, RangeInv, [Next]_vars PROVE RangeInv'
  OBVIOUS
<1> USE DEF RangeInv, EventInv
<1>1. CASE UNCHANGED <<serialVars, windowVars, bluetoothVars>>
  BY <1>1 DEF serialVars, openVars, windowVars, bluetoothVars, Signalled
<1>2. CASE on_clicked
  <2>1. UNCHANGED windowVars /\ connecting' \in {"no", "yes", "lost"}
    BY <1>2 DEF on_clicked, ConnectSerial, ConnectBluetooth, bluetoothVars
  <2>2. CASE UNCHANGED serialVars
    BY <2>1, <2>2 DEF serialVars, openVars, windowVars, Signalled
  <2>3. CASE SerialConnect /\ SerialAccepts
    BY <2>1, <2>3 DEF SerialConnect, SerialAccepts, openVars, windowVars, Signalled, SerialInv,
       FutureInv
  <2>4. UNCHANGED serialVars \/ SerialConnect
    BY <1>2 DEF on_clicked, ConnectSerial, ConnectBluetooth
  <2>5. SerialConnect => UNCHANGED serialVars \/ SerialAccepts
    BY DEF SerialConnect
  <2> QED
    BY <2>2, <2>3, <2>4, <2>5
<1>3. CASE SerialAttemptEnds
  <2>1. PICK success \in {"success", "failure"} : SerialComplete(success)
    BY <1>3 DEF SerialAttemptEnds
  <2>2. /\ m_is_connected = success /\ connectThread = "none"
        /\ m_is_connected' = "invalid" /\ connectThread' = "none"
        /\ connectEvents' = connectEvents - 1
        /\ m_sock_fd' = m_sock_fd /\ reported' = success
    BY <2>1 DEF SerialComplete, openVars, SerialInv, FutureInv
  <2>3. connectEvents' = 0 /\ ~Signalled'
    BY <2>2 DEF Signalled
  <2> QED
    BY <1>3, <2>2, <2>3 DEF SerialAttemptEnds, windowVars, bluetoothVars
<1>4. CASE SerialThread /\ UNCHANGED <<windowVars, bluetoothVars>>
  BY <1>4, RangeThreadStep DEF windowVars, bluetoothVars
<1>5. CASE BluetoothAnswer \/ BluetoothAttemptEnds
  BY <1>5 DEF BluetoothAnswer, BluetoothAttemptEnds, serialVars, openVars, windowVars, Signalled
<1>6. CASE \/ settings_clicked \/ select_bluetooth \/ select_serial \/ terminal_clicked
           \/ home_clicked
  BY <1>6 DEF settings_clicked, select_bluetooth, select_serial, terminal_clicked, home_clicked,
     OnlyWindow, serialVars, openVars, bluetoothVars, Signalled
<1> QED
  BY <1>1, <1>2, <1>3, <1>4, <1>5, <1>6 DEF Next, User, Handling, AgentHandlers, UserAnswers,
     OnlyAgent, vars

(* The variables of the window, the port and the agent keep their types:   *)
(* no request is answered twice, and no event of the port waits without a  *)
(* result.                                                                 *)
THEOREM TypeCorrect == Spec => []TypeOK
<1>1. WindowInv /\ SerialInv /\ AgentInv /\ RangeInv => TypeOK
  <2> SUFFICES ASSUME WindowInv, SerialInv, AgentInv, RangeInv PROVE TypeOK
    OBVIOUS
  <2>1. SerialTypeOK
    <3>1. m_connect_callback \in BOOLEAN
      BY DEF SerialInv, FutureInv
    <3>2. EventForResult
      BY DEF RangeInv, EventInv, Signalled, EventForResult
    <3> QED
      BY <3>1, <3>2 DEF SerialTypeOK, SerialInv, FutureInv, RangeInv, Held, NotHeld
  <2>2. AgentTypeOK
    BY DEF AgentInv
  <2>3. /\ m_enabled_buttons \subseteq {"settings", "connect", "terminal"}
        /\ m_request_user_input \subseteq {"bluetooth", "serial"}
    BY DEF WindowInv, Flags, ButtonsFollowAttempt, HandlersFollowAttempt
  <2> QED
    BY <2>1, <2>2, <2>3 DEF TypeOK, RangeInv, WindowInv, Flags
<1> QED
  BY WindowInit, WindowStep, SerialInvInit, SerialStep, AgentInvInit, AgentStep, RangeInit,
     RangeStep, <1>1, PTL DEF Spec
=============================================================================
