------------------------ MODULE BluetoothSerialPort ------------------------
(***************************************************************************)
(* bluetooth-serial-port.cpp: connecting to a remote device, discovering   *)
(* devices, and the serial port profile, over the inventory of module      *)
(* ObjectInventory.  Everything runs on the main thread: a call of the     *)
(* user, the handler of a reply or of a method bluez calls, or a tick of   *)
(* the discovery timer, one at a time.  A call to bluez is answered later, *)
(* with success or with an error (sd-bus makes a missing answer an error). *)
(***************************************************************************)
EXTENDS ObjectInventory

CONSTANTS FINISHED,        \* progress that ends a discovery; 100 in the code
          MaxAttempts,     \* bound on the calls of connect
          CallsMayFail,    \* sending a call to bluez can fail at once
          Prepared,        \* the user selects a controller before connecting or scanning
          Patient          \* while a discovery runs the user neither connects, scans nor
                           \* selects

ASSUME PortAssumption == /\ FINISHED \in Nat /\ FINISHED > 1 /\ MaxAttempts \in Nat
                         /\ {CallsMayFail, Prepared, Patient} \subseteq BOOLEAN
NoController == ""
ASSUME NamesAssumption == /\ NoController \notin Controllers
                          /\ Addresses \cap {"none", "scan"} = {}

VARIABLES
  m_selected_controller,
  m_complete_connection,       \* the attempt whose callback is stored, 0 if none is
  m_probe_in_progress, m_probe_progress,
  m_probe_callback,            \* "none", "scan" (of Settings), or the address connect looks for
  m_complete_disconnect, m_connected_device_path,
  m_sock_fd,                   \* a socket is held
  attempt, wanted,             \* calls of connect accepted so far, the address of the last
  scanWaiting,                 \* the caller of probe_remote_devices expects FINISHED
  connectCalls,                \* calls of Connect that bluez has not answered
  probeWork,                   \* what will advance the discovery: a call of StartDiscovery
                               \* or StopDiscovery not answered yet, or the timer
  discovering,                 \* bluez: adapters this program has a discovery on
  unstopped,                   \* history: those of them whose last StartDiscovery or
                               \* StopDiscovery bluez answered with an error, or was not sent
  disconnectCall,              \* a call of Disconnect is not answered
  linked                       \* bluez: the device whose profile connection it passed on

connectVars == <<m_complete_connection, connectCalls>>
attemptVars == <<attempt, wanted>>
probeVars == <<m_probe_in_progress, m_probe_progress, m_probe_callback, scanWaiting>>
workVars == <<probeWork, discovering, unstopped>>
profileVars == <<m_complete_disconnect, m_connected_device_path, m_sock_fd, disconnectCall,
                 linked>>
portVars == <<m_selected_controller, connectVars, attemptVars, probeVars, workVars,
              profileVars>>
vars == <<inventoryVars, portVars>>

Init == /\ InventoryInit
        /\ m_selected_controller = NoController
        /\ m_complete_connection = 0 /\ connectCalls = {} /\ attempt = 0
        /\ wanted \in Addresses
        /\ m_probe_in_progress = FALSE /\ m_probe_progress = 0
        /\ m_probe_callback = "none" /\ scanWaiting = FALSE
        /\ probeWork = {} /\ discovering = {} /\ unstopped = {}
        /\ m_complete_disconnect = FALSE /\ m_connected_device_path = NoPath
        /\ m_sock_fd = FALSE /\ disconnectCall = FALSE /\ linked = NoPath

(* call_dbus: the call is sent, or fails at once.                          *)
CallSent == {TRUE} \cup IF CallsMayFail THEN {FALSE} ELSE {}

-----------------------------------------------------------------------------
(* Connecting.                                                             *)

(* initiate_connection: the result of call_dbus is not looked at.          *)
initiate_connection(n, address) ==
    \E sent \in CallSent :
      connectCalls' = IF sent THEN connectCalls \cup
                                   {[attempt |-> n, path |-> m_dev_name_path_map[address]]}
                              ELSE connectCalls

Known(address) == m_dev_name_path_map[address] # NoPath

(* The callback connect gives the discovery.                               *)
pre_connection_scan_progress(percent_complete, address) ==
    \/ /\ Known(address)
       /\ initiate_connection(m_complete_connection, address)
       /\ m_probe_callback' = "none" /\ UNCHANGED m_complete_connection
    \/ /\ ~Known(address) /\ percent_complete = FINISHED
       /\ m_probe_callback' = "none" /\ m_complete_connection' = 0
       /\ UNCHANGED connectCalls
    \/ /\ ~Known(address) /\ percent_complete # FINISHED
       /\ UNCHANGED <<m_probe_callback, connectVars>>

emit_probe_progress(percent_complete) ==
    /\ m_probe_in_progress' = (m_probe_in_progress /\ percent_complete # FINISHED)
    /\ \/ /\ m_probe_callback \in Addresses
          /\ pre_connection_scan_progress(percent_complete, m_probe_callback)
          /\ UNCHANGED scanWaiting
       \/ /\ m_probe_callback = "scan"
          /\ scanWaiting' = (scanWaiting /\ percent_complete # FINISHED)
          /\ UNCHANGED <<m_probe_callback, connectVars>>
       \/ m_probe_callback = "none" /\ UNCHANGED <<m_probe_callback, connectVars, scanWaiting>>

(* probe_remote_devices when a discovery can start.                        *)
StartDiscovery == /\ probeWork' = probeWork \cup {<<"starting", m_selected_controller>>}
                  /\ UNCHANGED <<discovering, unstopped>>

MayAct == Patient => ~m_probe_in_progress

(* Mutant: a second attempt replaces the first.                            *)
ConnectAnytime(address) ==
    /\ MayAct /\ (Prepared => m_selected_controller # NoController)
    /\ attempt < MaxAttempts
    /\ attempt' = attempt + 1 /\ wanted' = address
    /\ UNCHANGED <<inventoryVars, m_selected_controller, profileVars, m_probe_progress,
                   scanWaiting>>

(* connect is refused while an attempt is in progress.                     *)
ConnectAccepted(address) ==
    /\ MayAct /\ (Prepared => m_selected_controller # NoController)
    /\ attempt < MaxAttempts /\ m_complete_connection = 0
    /\ attempt' = attempt + 1 /\ wanted' = address
    /\ UNCHANGED <<inventoryVars, m_selected_controller, profileVars, m_probe_progress,
                   scanWaiting>>

ConnectKnown(address) ==
    /\ ConnectAccepted(address) /\ Known(address)
    /\ m_complete_connection' = attempt'
    /\ initiate_connection(attempt', address)
    /\ UNCHANGED <<m_probe_in_progress, m_probe_callback, workVars>>

(* A device that is not in the inventory is looked for, unless a discovery *)
(* is already running or no controller is selected.                        *)
ConnectUnknown(address) ==
    /\ ConnectAccepted(address) /\ ~Known(address)
    /\ UNCHANGED connectCalls
    /\ \/ /\ ~m_probe_in_progress /\ m_selected_controller # NoController
          /\ \/ /\ m_complete_connection' = attempt'
                /\ m_probe_in_progress' = TRUE /\ m_probe_callback' = address
                /\ StartDiscovery
             \/ /\ CallsMayFail            \* FINISHED is emitted: the attempt fails
                /\ m_complete_connection' = 0 /\ m_probe_callback' = "none"
                /\ UNCHANGED <<m_probe_in_progress, workVars>>
       \/ /\ m_probe_in_progress \/ m_selected_controller = NoController
          /\ m_complete_connection' = attempt'
          /\ UNCHANGED <<m_probe_in_progress, m_probe_callback, workVars>>

connect(address) == ConnectKnown(address) \/ ConnectUnknown(address)

(* Mutant: the callback stays stored.                                      *)
FinishWithoutReset(call) ==
    /\ call \in connectCalls /\ connectCalls' = connectCalls \ {call}
    /\ UNCHANGED <<inventoryVars, m_selected_controller, m_complete_connection, attemptVars,
                   probeVars, workVars, profileVars>>

(* The reply to Connect, a success or an error: the callback is called.    *)
finish_connection(call) ==
    /\ call \in connectCalls /\ connectCalls' = connectCalls \ {call}
    /\ m_complete_connection' = 0
    /\ UNCHANGED <<inventoryVars, m_selected_controller, attemptVars, probeVars, workVars,
                   profileVars>>

select_controller(c) ==
    /\ MayAct /\ c \in m_controllers
    /\ m_selected_controller' = c
    /\ UNCHANGED <<inventoryVars, connectVars, attemptVars, probeVars, workVars, profileVars>>

-----------------------------------------------------------------------------
(* Discovering.                                                            *)

(* Mutant: a scan does not mind a discovery that is running.               *)
ScanAnytime ==
    /\ m_selected_controller # NoController
    /\ m_probe_callback' = "scan" /\ m_probe_in_progress' = TRUE /\ scanWaiting' = TRUE
    /\ StartDiscovery
    /\ UNCHANGED <<inventoryVars, m_selected_controller, connectVars, attemptVars,
                   m_probe_progress, profileVars>>

(* probe_remote_devices, called by Settings.  It drops the callback when a *)
(* discovery is running or no controller is selected; the callback of an   *)
(* earlier scan, if it is still the stored one, serves the new one too.    *)
scan ==
    /\ MayAct /\ (Prepared => m_selected_controller # NoController)
    /\ \/ /\ ~m_probe_in_progress /\ m_selected_controller # NoController
          /\ m_probe_callback' = "scan"
          /\ \/ /\ m_probe_in_progress' = TRUE /\ scanWaiting' = TRUE
                /\ StartDiscovery
             \/ /\ CallsMayFail               \* FINISHED is emitted at once
                /\ scanWaiting' = FALSE
                /\ UNCHANGED <<m_probe_in_progress, workVars>>
       \/ /\ m_probe_in_progress \/ m_selected_controller = NoController
          /\ scanWaiting' = TRUE
          /\ UNCHANGED <<m_probe_in_progress, m_probe_callback, workVars>>
    /\ UNCHANGED <<inventoryVars, m_selected_controller, connectVars, attemptVars,
                   m_probe_progress, profileVars>>

ProbeStep == UNCHANGED <<inventoryVars, m_selected_controller, attemptVars, profileVars>>

(* An adapter that is gone discovers nothing.                              *)
Discovers(c) == discovering' = discovering \cup ({c} \cap adapters)

(* An error, also in place of a missing answer: the adapter may discover.  *)
StartRefused(c) ==
    \/ UNCHANGED <<discovering, unstopped>>
    \/ Discovers(c) /\ unstopped' = unstopped \cup ({c} \cap adapters)

(* The reply to StartDiscovery.                                            *)
probe_finish(c) ==
    /\ <<"starting", c>> \in probeWork
    /\ \/ /\ m_probe_progress' = 0
          /\ probeWork' = (probeWork \ {<<"starting", c>>}) \cup {<<"ticking", c>>}
          /\ Discovers(c) /\ unstopped' = unstopped \ {c}
          /\ UNCHANGED <<m_probe_in_progress, m_probe_callback, scanWaiting, connectVars>>
       \/ /\ probeWork' = probeWork \ {<<"starting", c>>}
          /\ emit_probe_progress(FINISHED) /\ StartRefused(c)
          /\ UNCHANGED m_probe_progress
    /\ ProbeStep

(* Mutant: the timer ticks on at the end.                                  *)
TickForever(c) ==
    /\ <<"ticking", c>> \in probeWork
    /\ emit_probe_progress(m_probe_progress)
    /\ m_probe_progress' = m_probe_progress + 1
    /\ UNCHANGED workVars /\ ProbeStep

(* A tick of the timer, armed again.                                       *)
update_probe_progress(c) ==
    /\ <<"ticking", c>> \in probeWork /\ m_probe_progress + 1 < FINISHED
    /\ emit_probe_progress(m_probe_progress)
    /\ m_probe_progress' = m_probe_progress + 1
    /\ UNCHANGED workVars /\ ProbeStep

(* Mutant: FINISHED is emitted without stopping the discovery.             *)
LastTickNoStop(c) ==
    /\ <<"ticking", c>> \in probeWork /\ m_probe_progress + 1 = FINISHED
    /\ m_probe_progress' = FINISHED /\ emit_probe_progress(FINISHED)
    /\ probeWork' = probeWork \ {<<"ticking", c>>}
    /\ UNCHANGED <<discovering, unstopped>> /\ ProbeStep

(* StopDiscovery was not obeyed: an adapter that discovers goes on.        *)
GoesOn(c) == /\ unstopped' = unstopped \cup (discovering \cap {c})
             /\ UNCHANGED discovering

(* The last tick: the timer is dropped and stop_probe calls StopDiscovery, *)
(* on the controller selected now.  If the call cannot be sent, FINISHED   *)
(* follows at once, with the effect of a FINISHED alone.                   *)
LastTick(c) ==
    /\ <<"ticking", c>> \in probeWork /\ m_probe_progress + 1 = FINISHED
    /\ m_probe_progress' = FINISHED
    /\ \/ /\ emit_probe_progress(m_probe_progress)
          /\ probeWork' = (probeWork \ {<<"ticking", c>>})
                          \cup {<<"stopping", m_selected_controller>>}
          /\ UNCHANGED <<discovering, unstopped>>
       \/ /\ CallsMayFail /\ emit_probe_progress(FINISHED)
          /\ probeWork' = probeWork \ {<<"ticking", c>>}
          /\ GoesOn(m_selected_controller)
    /\ ProbeStep

(* An error says nothing of the adapter: it has stopped or goes on.        *)
StopAnswered(c) == \/ discovering' = discovering \ {c} /\ unstopped' = unstopped \ {c}
                   \/ GoesOn(c)

(* Mutant: FINISHED is not emitted.                                        *)
StopWithoutFinished(c) ==
    /\ <<"stopping", c>> \in probeWork
    /\ probeWork' = probeWork \ {<<"stopping", c>>} /\ StopAnswered(c)
    /\ m_probe_in_progress' = FALSE
    /\ UNCHANGED <<m_probe_callback, m_probe_progress, scanWaiting, connectVars>> /\ ProbeStep

(* The reply to StopDiscovery: an error is only logged.                    *)
stop_probe_finish(c) ==
    /\ <<"stopping", c>> \in probeWork
    /\ probeWork' = probeWork \ {<<"stopping", c>>}
    /\ StopAnswered(c)
    /\ emit_probe_progress(FINISHED)
    /\ UNCHANGED m_probe_progress /\ ProbeStep

Probe == \E c \in Controllers : \/ probe_finish(c) \/ update_probe_progress(c)
                               \/ LastTick(c) \/ stop_probe_finish(c)

-----------------------------------------------------------------------------
(* The serial port profile.                                                *)

Profile == UNCHANGED <<inventoryVars, m_selected_controller, connectVars, attemptVars,
                       probeVars, workVars>>

(* Mutant: a second connection takes over the socket's owner.              *)
NewConnectionTakesOver(p) ==
    /\ registered /\ p \in devices /\ linked # p
    /\ m_sock_fd' = TRUE /\ linked' = p
    /\ m_connected_device_path' = IF m_sock_fd THEN m_connected_device_path ELSE p
    /\ UNCHANGED <<m_complete_disconnect, disconnectCall>> /\ Profile

(* bluez calls it only while it knows the profile.                         *)
bt_new_connection(p) ==
    /\ registered /\ p \in devices /\ linked # p
    /\ \/ /\ ~m_sock_fd /\ m_sock_fd' = TRUE
          /\ m_connected_device_path' = p /\ linked' = p
       \/ /\ m_sock_fd                       \* rejected
          /\ UNCHANGED <<m_sock_fd, m_connected_device_path, linked>>
    /\ UNCHANGED <<m_complete_disconnect, disconnectCall>> /\ Profile

(* Another path than the connected device's is rejected, and still clears  *)
(* m_connected_device_path.                                                *)
bt_request_disconnection(p) ==
    /\ p = linked /\ p # NoPath /\ linked' = NoPath
    /\ m_sock_fd' = (m_sock_fd /\ p # m_connected_device_path)
    /\ m_connected_device_path' = NoPath
    /\ UNCHANGED <<m_complete_disconnect, disconnectCall>> /\ Profile

(* The radio link is lost: bluez forgets the connection without a call.    *)
LinkLost == /\ linked # NoPath /\ linked' = NoPath
            /\ UNCHANGED <<m_complete_disconnect, m_connected_device_path, m_sock_fd,
                           disconnectCall>> /\ Profile

disconnect == /\ ~m_complete_disconnect /\ m_connected_device_path # NoPath
              /\ m_complete_disconnect' = TRUE
              /\ disconnectCall' \in CallSent
              /\ UNCHANGED <<m_connected_device_path, m_sock_fd, linked>> /\ Profile

finish_disconnect == /\ disconnectCall /\ disconnectCall' = FALSE
                     /\ m_complete_disconnect' = FALSE
                     /\ UNCHANGED <<m_connected_device_path, m_sock_fd, linked>> /\ Profile

-----------------------------------------------------------------------------
(* bluez's objects change or the program hears of it; an adapter that      *)
(* vanishes ends its discovery.                                            *)
Inventory ==
    /\ InventoryNext
    /\ discovering' = discovering \cap adapters' /\ unstopped' = unstopped \cap adapters'
    /\ UNCHANGED <<m_selected_controller, connectVars, attemptVars, probeVars, probeWork,
                   profileVars>>

(* A crash of the daemon ends its discoveries and its connections; calls   *)
(* it has not answered are answered with an error, like any failure.       *)
BluezRestarts ==
    /\ DaemonRestarts /\ discovering' = {} /\ unstopped' = {} /\ linked' = NoPath
    /\ UNCHANGED <<m_selected_controller, connectVars, attemptVars, probeVars, probeWork,
                   m_complete_disconnect, m_connected_device_path, m_sock_fd, disconnectCall>>

User == \/ \E c \in Controllers : select_controller(c)
        \/ \E address \in Addresses : connect(address)
        \/ scan \/ disconnect

Next == \/ Inventory \/ BluezRestarts \/ User \/ Probe
        \/ \E call \in connectCalls : finish_connection(call)
        \/ \E p \in Paths : bt_new_connection(p) \/ bt_request_disconnection(p)
        \/ LinkLost \/ finish_disconnect

(* bluez, or sd-bus in its place, answers every call, and the timer ticks. *)
Spec == /\ Init /\ [][Next]_vars
        /\ WF_vars(Probe) /\ WF_vars(finish_disconnect)
        /\ WF_vars(\E call \in connectCalls : finish_connection(call))
-----------------------------------------------------------------------------
ProbeSteps == {"starting", "ticking", "stopping"}

(* The values each variable can take.                                      *)
TypeOK ==
    /\ InventoryTypeOK
    /\ m_selected_controller \in Controllers \cup {NoController}
    /\ m_complete_connection \in 0..attempt /\ attempt \in 0..MaxAttempts
    /\ {m_probe_in_progress, scanWaiting, m_complete_disconnect, m_sock_fd, disconnectCall}
         \subseteq BOOLEAN
    /\ m_probe_progress \in 0..FINISHED
    /\ m_probe_callback \in Addresses \cup {"none", "scan"}
    /\ {m_connected_device_path, linked} \subseteq Paths \cup {NoPath}
    /\ wanted \in Addresses
    /\ connectCalls \subseteq [attempt : 1..attempt, path : Paths]
    /\ probeWork \subseteq ProbeSteps \X Controllers
    /\ discovering \subseteq Controllers /\ unstopped \subseteq discovering

(* The reply to Connect that finish_connection takes for the answer to the *)
(* attempt in progress is the answer to a call made for that attempt, to   *)
(* the device the attempt asked for, and no other reply is to come.        *)
ReplyMatchesAttempt ==
    /\ \A call \in connectCalls : /\ call.attempt = m_complete_connection
                                  /\ call.path[2] = wanted
    /\ \A call1, call2 \in connectCalls : call1 = call2

(* A running discovery has exactly one thing that will advance it (the     *)
(* reply to StartDiscovery, the timer, the reply to StopDiscovery), and a  *)
(* finished one has left nothing behind that would emit progress.          *)
ProbeHasWork ==
    IF m_probe_in_progress THEN \E work \in probeWork : probeWork = {work}
                           ELSE probeWork = {}

(* Once this program considers a discovery finished, no adapter goes on    *)
(* discovering for it (stop_probe: "stop probing devices"), except one     *)
(* that bluez did not stop, although it was asked or was to be asked: the  *)
(* code only logs that.                                                    *)
DiscoveryStopped == ~m_probe_in_progress => discovering \subseteq unstopped

(* A held socket belongs to a known device, the one whose disconnection    *)
(* will be obeyed, and bluez's idea of the connected device is ours.       *)
SocketHasOwner == /\ m_sock_fd <=> m_connected_device_path # NoPath
                  /\ linked # NoPath => linked = m_connected_device_path

(* connect: the callback is called, with success or failure.               *)
AttemptEnds == m_complete_connection # 0 ~> m_complete_connection = 0

(* A scan of Settings is told that it is finished.                         *)
ScanEnds == scanWaiting ~> ~scanWaiting

-----------------------------------------------------------------------------
Asked == {call.path[2] : call \in connectCalls}

Attempt == INSTANCE BluetoothAttempt
             WITH MayLose <- CallsMayFail \/ ~Prepared \/ ~Patient,
                  due <- m_complete_connection # 0,
                  seeking <- m_probe_callback \in Addresses, asked <- Asked

(* An attempt that found its device ends with bluez's answer to the one    *)
(* Connect called for it, and with nothing else; one that does not find it *)
(* ends with the discovery; and only failing calls and a user who has not  *)
(* selected a controller or does not wait can make it get lost ...         *)
ImplementsAttemptSafety == Attempt!SafeAttempt

(* ... and each that is not lost ends.                                     *)
ImplementsAttempt == Attempt!AttemptSpec
=============================================================================
