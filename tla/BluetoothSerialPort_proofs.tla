--------------------- MODULE BluetoothSerialPort_proofs ---------------------
(***************************************************************************)
(* Proofs about module BluetoothSerialPort, for any controllers, devices,  *)
(* number of attempts and length of a discovery, whatever the user does.   *)
(* The last one says that the messages of bluez are understood, by what    *)
(* ObjectMessages_proofs proves of their parser.                           *)
(***************************************************************************)
EXTENDS BluetoothSerialPort, ObjectMessages_proofs, SequenceTheorems, TLAPS

-----------------------------------------------------------------------------
(* The inventory.  Its path map is sound by itself: no other variable      *)
(* matters, only that removals name the device they remove.                *)

InventoryInv == InventoryTypeOK /\ PathMapSound

(* A signal added to the ones on their way, or taken from them, leaves     *)
(* signals.                                                                *)
LEMMA SignalsType ==
  ASSUME NEW S, NEW s \in Seq(S)
  PROVE  /\ \A e \in S : /\ Append(s, e) \in Seq(S)
                         /\ Len(Append(s, e)) = Len(s) + 1
         /\ s # <<>> => Tail(s) \in Seq(S) /\ Len(Tail(s)) = Len(s) - 1
         /\ Len(s) \in Nat
BY AppendProperties, HeadTailProperties, LenProperties

(* A signal bluez emits is a signal, and the bound on them is kept.        *)
LEMMA EmitType ==
  ASSUME InventoryTypeOK, MayChange, NEW kind \in {"added", "removed"}, NEW o \in Objects,
         Emit(<<kind, o>>)
  PROVE  signals' \in Seq({"added", "removed"} \X Objects) /\ Len(signals') <= MaxPending
<1> DEFINE S == {"added", "removed"} \X Objects
<1>1. signals \in Seq(S) /\ Len(signals) < MaxPending /\ MaxPending \in Nat
  BY InventoryAssumption DEF InventoryTypeOK, MayChange
<1>2. <<kind, o>> \in S
  OBVIOUS
<1>3. CASE match = "installed"
  <2>1. signals' = Append(signals, <<kind, o>>)
    BY <1>3 DEF Emit
  <2> HIDE DEF S
  <2>2. signals' \in Seq(S) /\ Len(signals') = Len(signals) + 1 /\ Len(signals) \in Nat
    BY <1>1, <1>2, <2>1, SignalsType
  <2>3. Len(signals') <= MaxPending
    BY <1>1, <2>2
  <2> QED
    BY <2>2, <2>3 DEF S
<1>4. CASE match # "installed"
  <2>1. signals' = signals
    BY <1>4 DEF Emit
  <2> QED
    BY <2>1 DEF InventoryTypeOK
<1> QED
  BY <1>3, <1>4

(* What bluez does leaves the mirror alone.                                *)
LEMMA BluezStep == ASSUME InventoryInv, Bluez \/ DaemonRestarts PROVE InventoryInv'
<1> USE DEF InventoryInv
<1>1. CASE \E c \in Controllers : AdapterAppears(c) \/ AdapterVanishes(c)
  <2> PICK c \in Controllers : AdapterAppears(c) \/ AdapterVanishes(c)
    BY <1>1
  <2>1. signals' \in Seq({"added", "removed"} \X Objects) /\ Len(signals') <= MaxPending
    BY EmitType DEF AdapterAppears, AdapterVanishes, Objects
  <2>2. /\ adapters' \subseteq Controllers /\ devices' \subseteq adapters' \X Addresses
        /\ UNCHANGED <<match, snapshot, daemonVars, mirrorVars>>
    <3>1. \A p \in devices : p \in adapters \X Addresses
      BY DEF InventoryTypeOK
    <3>2. CASE AdapterAppears(c)
      BY <3>1, <3>2 DEF AdapterAppears, InventoryTypeOK
    <3>3. CASE AdapterVanishes(c)
      <4>1. \A p \in devices : p \in (adapters \ {c}) \X Addresses
        BY <3>1, <3>3 DEF AdapterVanishes
      <4> QED
        BY <3>3, <4>1 DEF AdapterVanishes, InventoryTypeOK
    <3> QED
      BY <3>2, <3>3
  <2> QED
    BY <2>1, <2>2 DEF InventoryTypeOK, PathMapSound, daemonVars, mirrorVars
<1>2. CASE \E p \in Paths : DeviceAppears(p) \/ DeviceVanishes(p)
  <2> PICK p \in Paths : DeviceAppears(p) \/ DeviceVanishes(p)
    BY <1>2
  <2>1. signals' \in Seq({"added", "removed"} \X Objects) /\ Len(signals') <= MaxPending
    BY EmitType DEF DeviceAppears, DeviceVanishes, Objects
  <2>2. /\ devices' \subseteq adapters \X Addresses
        /\ UNCHANGED <<adapters, match, snapshot, daemonVars, mirrorVars>>
    BY DEF DeviceAppears, DeviceVanishes, InventoryTypeOK, Paths
  <2> QED
    BY <2>1, <2>2 DEF InventoryTypeOK, PathMapSound, daemonVars, mirrorVars
<1>3. CASE AnswerGetManagedObjects
  BY <1>3 DEF AnswerGetManagedObjects, InventoryTypeOK, PathMapSound, daemonVars, mirrorVars,
              Paths
<1>4. CASE InstallMatch
  BY <1>4 DEF InstallMatch, InventoryTypeOK, PathMapSound, daemonVars, mirrorVars
<1>5. CASE DaemonRestarts
  <2>1. restarts' \in 0..MaxRestarts
    BY <1>5, InventoryAssumption DEF DaemonRestarts, InventoryTypeOK
  <2> QED
    BY <1>5, <2>1 DEF DaemonRestarts, InventoryTypeOK, PathMapSound, mirrorVars
<1> QED
  BY <1>1, <1>2, <1>3, <1>4, <1>5 DEF Bluez

(* A signal that is handled was on its way, and names an object.           *)
LEMMA ReceiveType ==
  ASSUME InventoryTypeOK, NEW kind, NEW o, Receive(kind, o)
  PROVE  /\ signals' \in Seq({"added", "removed"} \X Objects) /\ Len(signals') <= MaxPending
         /\ UNCHANGED <<adapters, devices, match, snapshot, daemonVars>>
<1> DEFINE S == {"added", "removed"} \X Objects
<1>1. signals \in Seq(S) /\ Len(signals) <= MaxPending /\ MaxPending \in Nat
  BY InventoryAssumption DEF InventoryTypeOK
<1>2. signals # <<>> /\ signals' = Tail(signals)
  BY DEF Receive
<1> HIDE DEF S
<1>3. signals' \in Seq(S) /\ Len(signals') = Len(signals) - 1 /\ Len(signals) \in Nat
  BY <1>1, <1>2, SignalsType
<1>4. Len(signals') <= MaxPending
  BY <1>1, <1>3
<1> QED
  BY <1>3, <1>4 DEF Receive, S

(* What the handlers do to the mirror.                                     *)
MirrorOK == /\ m_controllers \subseteq Controllers /\ m_remote_devices \subseteq Paths
            /\ m_dev_name_path_map \in [Addresses -> Paths \cup {NoPath}]
            /\ PathMapSound

(* A handler of the inventory keeps it.                                    *)
LEMMA HandlerStep == ASSUME InventoryInv, InventoryHandlers PROVE InventoryInv'
<1> USE DEF InventoryInv
<1>1. CASE get_objects_complete
  <2>1. /\ match' = "installing" /\ registered' \in BOOLEAN /\ current' = TRUE
        /\ snapshot' = NoSnapshot /\ UNCHANGED <<adapters, devices, signals, restarts>>
    BY <1>1 DEF get_objects_complete, register_profile
  <2>2. MirrorOK'
    BY <1>1 DEF get_objects_complete, PathMapsOf, InventoryTypeOK, MirrorOK, PathMapSound
  <2> QED
    BY <2>1, <2>2 DEF InventoryTypeOK, MirrorOK, NoSnapshot
<1>2. CASE \E c \in Controllers : AddController(c) \/ RemoveController(c)
  <2> PICK c \in Controllers : AddController(c) \/ RemoveController(c)
    BY <1>2
  <2>1. MirrorOK'
    BY DEF AddController, RemoveController, MirrorOK, InventoryTypeOK, PathMapSound
  <2>2. /\ signals' \in Seq({"added", "removed"} \X Objects) /\ Len(signals') <= MaxPending
        /\ UNCHANGED <<adapters, devices, match, snapshot, daemonVars>>
    BY ReceiveType DEF AddController, RemoveController
  <2> QED
    BY <2>1, <2>2 DEF InventoryTypeOK, MirrorOK, daemonVars
<1>3. CASE \E p \in Paths : AddDevice(p) \/ RemoveDevice(p)
  <2> PICK p \in Paths : AddDevice(p) \/ RemoveDevice(p)
    BY <1>3
  <2>1. MirrorOK'
    <3>1. p[2] \in Addresses
      BY DEF Paths
    <3>2. CASE AddDevice(p)
      BY <3>1, <3>2 DEF AddDevice, MirrorOK, InventoryTypeOK, PathMapSound
    <3>3. CASE RemoveDevice(p)
      BY <3>1, <3>3 DEF RemoveDevice, MirrorOK, InventoryTypeOK, PathMapSound
    <3> QED
      BY <3>2, <3>3
  <2>2. /\ signals' \in Seq({"added", "removed"} \X Objects) /\ Len(signals') <= MaxPending
        /\ UNCHANGED <<adapters, devices, match, snapshot, daemonVars>>
    BY ReceiveType DEF AddDevice, RemoveDevice
  <2> QED
    BY <2>1, <2>2 DEF InventoryTypeOK, MirrorOK, daemonVars
<1> QED
  BY <1>1, <1>2, <1>3 DEF InventoryHandlers

-----------------------------------------------------------------------------
(* The attempt.  The callback of the discovery is connect's only while its *)
(* attempt waits for the device and Connect has not been called: that no   *)
(* call is open is what makes the one that follows the only one.           *)

WaitsForDevice == m_probe_callback \in Addresses =>
                    /\ m_complete_connection # 0 /\ wanted = m_probe_callback
                    /\ connectCalls = {}

ReplyInv ==
    /\ attempt \in 0..MaxAttempts /\ m_complete_connection \in 0..attempt
    /\ wanted \in Addresses
    /\ m_probe_callback \in Addresses \cup {"none", "scan"}
    /\ connectCalls \subseteq [attempt : 1..attempt, path : Paths]
    /\ WaitsForDevice /\ ReplyMatchesAttempt

(* A known address is called at its path.                                  *)
LEMMA KnownPath ==
  ASSUME InventoryInv, NEW a \in Addresses, Known(a)
  PROVE  m_dev_name_path_map[a] \in Paths /\ m_dev_name_path_map[a][2] = a
BY DEF InventoryInv, InventoryTypeOK, PathMapSound, Known

(* A call for the attempt in progress, when none is open, is its only one. *)
LEMMA OneCall ==
  ASSUME InventoryInv, attempt' \in 0..MaxAttempts, wanted' \in Addresses,
         connectCalls = {}, m_complete_connection' \in 1..attempt',
         Known(wanted'), initiate_connection(m_complete_connection', wanted')
  PROVE  connectCalls' \subseteq [attempt : 1..attempt', path : Paths] /\ ReplyMatchesAttempt'
<1> DEFINE call == [attempt |-> m_complete_connection', path |-> m_dev_name_path_map[wanted']]
<1>1. call.path \in Paths /\ call.path[2] = wanted'
  BY KnownPath
<1>2. connectCalls' \subseteq {call}
  BY DEF initiate_connection
<1>3. call \in [attempt : 1..attempt', path : Paths]
  BY <1>1
<1>4. call.attempt = m_complete_connection'
  OBVIOUS
<1> HIDE DEF call
<1> QED
  BY <1>1, <1>2, <1>3, <1>4 DEF ReplyMatchesAttempt

(* An open call belongs to an attempt in progress.                         *)
LEMMA NoAttemptNoCall == ASSUME ReplyInv, m_complete_connection = 0 PROVE connectCalls = {}
BY DEF ReplyInv, ReplyMatchesAttempt

(* Whatever progress is emitted, the callback of the discovery calls       *)
(* Connect once, or fails the attempt, and is then gone.                   *)
LEMMA EmitStep ==
  ASSUME InventoryInv, ReplyInv, NEW percent, emit_probe_progress(percent),
         UNCHANGED attemptVars
  PROVE  ReplyInv'
<1> USE DEF ReplyInv, attemptVars
<1>1. CASE m_probe_callback \in Addresses
  <2> DEFINE address == m_probe_callback
  <2>1. pre_connection_scan_progress(percent, address)
    BY <1>1, NamesAssumption DEF emit_probe_progress
  <2>2. /\ m_complete_connection # 0 /\ wanted = address /\ connectCalls = {}
        /\ m_complete_connection \in 1..attempt
    BY <1>1 DEF WaitsForDevice
  <2>3. "none" \notin Addresses
    BY NamesAssumption
  <2>4. CASE /\ Known(address)
             /\ initiate_connection(m_complete_connection, address)
             /\ m_probe_callback' = "none" /\ UNCHANGED m_complete_connection
    <3>1. connectCalls' \subseteq [attempt : 1..attempt', path : Paths] /\ ReplyMatchesAttempt'
      BY <2>2, <2>4, OneCall
    <3> QED
      BY <2>3, <2>4, <3>1 DEF WaitsForDevice
  <2>5. CASE /\ m_probe_callback' = "none" /\ m_complete_connection' = 0
             /\ UNCHANGED connectCalls
    BY <2>2, <2>3, <2>5 DEF WaitsForDevice, ReplyMatchesAttempt
  <2>6. CASE UNCHANGED <<m_probe_callback, connectVars>>
    BY <2>6 DEF WaitsForDevice, ReplyMatchesAttempt, connectVars
  <2> QED
    BY <2>1, <2>4, <2>5, <2>6 DEF pre_connection_scan_progress
<1>2. CASE m_probe_callback \notin Addresses
  <2>1. UNCHANGED <<m_probe_callback, connectVars>>
    BY <1>2 DEF emit_probe_progress
  <2> QED
    BY <2>1 DEF WaitsForDevice, ReplyMatchesAttempt, connectVars
<1> QED
  BY <1>1, <1>2

(* A new attempt starts when nothing of an earlier one is left.            *)
LEMMA ConnectReply ==
  ASSUME InventoryInv, ReplyInv, NEW address \in Addresses, connect(address)
  PROVE  ReplyInv'
<1>1. /\ m_complete_connection = 0 /\ attempt \in Nat
      /\ attempt' = attempt + 1 /\ attempt < MaxAttempts /\ wanted' = address
      /\ UNCHANGED inventoryVars
  BY DEF connect, ConnectKnown, ConnectUnknown, ConnectAccepted, ReplyInv
<1>2. attempt' \in 0..MaxAttempts /\ attempt' \in 1..attempt' /\ 0 \in 0..attempt'
  BY <1>1, PortAssumption
<1>3. connectCalls = {} /\ m_probe_callback \notin Addresses
  BY <1>1, NoAttemptNoCall DEF ReplyInv, WaitsForDevice
<1>4. CASE ConnectKnown(address)
  <2>1. /\ Known(address) /\ initiate_connection(attempt', address)
        /\ m_complete_connection' = attempt' /\ m_probe_callback' = m_probe_callback
    BY <1>4 DEF ConnectKnown
  <2>2. connectCalls' \subseteq [attempt : 1..attempt', path : Paths] /\ ReplyMatchesAttempt'
    BY <1>1, <1>2, <1>3, <2>1, OneCall
  <2>3. m_complete_connection' \in 0..attempt'
    BY <1>2, <2>1
  <2> QED
    BY <1>1, <1>2, <1>3, <2>1, <2>2, <2>3 DEF ReplyInv, WaitsForDevice
<1>5. CASE ConnectUnknown(address)
  <2>1. connectCalls' = {} /\ m_complete_connection' \in {0, attempt'}
    BY <1>3, <1>5 DEF ConnectUnknown
  <2>2. m_complete_connection' \in 0..attempt'
    BY <1>2, <2>1
  <2>3. /\ m_probe_callback' \in {m_probe_callback, address, "none"}
        /\ m_probe_callback' = address => \/ m_probe_callback' = m_probe_callback
                                          \/ m_complete_connection' = attempt'
    BY <1>5, NamesAssumption DEF ConnectUnknown
  <2>4. attempt' # 0 /\ "none" \notin Addresses
    BY <1>1, NamesAssumption
  <2>5. WaitsForDevice' /\ ReplyMatchesAttempt'
    BY <1>1, <1>3, <2>1, <2>3, <2>4 DEF WaitsForDevice, ReplyMatchesAttempt
  <2> QED
    BY <1>1, <1>2, <2>1, <2>2, <2>3, <2>5 DEF ReplyInv
<1> QED
  BY <1>4, <1>5 DEF connect

(* The reply to Connect ends the attempt and leaves no call open.          *)
LEMMA FinishReply ==
  ASSUME ReplyInv, NEW call \in connectCalls, finish_connection(call) PROVE ReplyInv'
<1>1. connectCalls' = {}
  BY DEF finish_connection, ReplyInv, ReplyMatchesAttempt
<1>2. m_complete_connection' = 0 /\ UNCHANGED <<attempt, wanted, m_probe_callback>>
  BY DEF finish_connection, attemptVars, probeVars
<1>3. m_probe_callback \notin Addresses
  BY DEF ReplyInv, WaitsForDevice
<1>4. 0 \in 0..attempt
  BY DEF ReplyInv
<1> QED
  BY <1>1, <1>2, <1>3, <1>4 DEF ReplyInv, WaitsForDevice, ReplyMatchesAttempt

-----------------------------------------------------------------------------
(* The discovery.  What will advance it is always on its way, so that its  *)
(* last step finds the controller it needs.                                *)

WorkInv ==
    /\ m_probe_in_progress \in BOOLEAN /\ m_probe_progress \in 0..FINISHED
    /\ m_selected_controller \in Controllers \cup {NoController}
    /\ probeWork # {} => m_selected_controller # NoController
    /\ probeWork \subseteq ProbeSteps \X Controllers
    /\ discovering \subseteq Controllers /\ unstopped \subseteq discovering
    /\ ProbeHasWork

(* Progress ends the discovery exactly when it is FINISHED.                *)
LEMMA EmitEnds ==
  ASSUME NEW percent, emit_probe_progress(percent), m_probe_in_progress = TRUE
  PROVE  /\ percent = FINISHED => m_probe_in_progress' = FALSE
         /\ percent # FINISHED => m_probe_in_progress' = TRUE
BY DEF emit_probe_progress

(* A discovery starts when none is running.                                *)
LEMMA StartWork ==
  ASSUME WorkInv, m_probe_in_progress = FALSE, m_probe_in_progress' = TRUE,
         m_selected_controller # NoController, StartDiscovery,
         UNCHANGED <<m_selected_controller, m_probe_progress>>
  PROVE  WorkInv'
<1> DEFINE work == <<"starting", m_selected_controller>>
<1>1. probeWork' = {work} /\ work \in ProbeSteps \X Controllers
  BY DEF WorkInv, ProbeHasWork, StartDiscovery, ProbeSteps
<1> HIDE DEF work
<1> QED
  BY <1>1 DEF WorkInv, ProbeHasWork, StartDiscovery

(* A step of the discovery is its only one: afterwards the next one is on  *)
(* its way, or the discovery is finished.                                  *)
LEMMA OneWork ==
  ASSUME WorkInv, NEW step \in ProbeSteps, NEW c \in Controllers, <<step, c>> \in probeWork
  PROVE  m_probe_in_progress = TRUE /\ probeWork = {<<step, c>>}
BY DEF WorkInv, ProbeHasWork

(* A step of a discovery keeps it going, or finishes it.                   *)
LEMMA ProbeKeepsWork ==
  ASSUME WorkInv, Probe, UNCHANGED m_selected_controller PROVE WorkInv'
<1> PICK c \in Controllers : \/ probe_finish(c) \/ update_probe_progress(c)
                            \/ LastTick(c) \/ stop_probe_finish(c)
  BY DEF Probe
<1>1. FINISHED \in Nat /\ FINISHED > 1 /\ m_probe_progress \in Nat
  BY PortAssumption DEF WorkInv
<1>2. CASE probe_finish(c)
  <2>1. m_probe_in_progress = TRUE /\ probeWork = {<<"starting", c>>}
    BY <1>2, OneWork DEF probe_finish, ProbeSteps
  <2>2. CASE /\ m_probe_progress' = 0
             /\ probeWork' = (probeWork \ {<<"starting", c>>}) \cup {<<"ticking", c>>}
             /\ Discovers(c) /\ unstopped' = unstopped \ {c}
             /\ UNCHANGED <<m_probe_in_progress, m_probe_callback, scanWaiting, connectVars>>
    <3>1. probeWork' = {<<"ticking", c>>} /\ <<"ticking", c>> \in ProbeSteps \X Controllers
      BY <2>1, <2>2 DEF ProbeSteps
    <3>2. m_probe_progress' \in 0..FINISHED
      BY <1>1, <2>2
    <3>3. discovering' \subseteq Controllers /\ unstopped' \subseteq discovering'
      BY <2>2 DEF Discovers, WorkInv
    <3> QED
      BY <2>1, <2>2, <3>1, <3>2, <3>3 DEF WorkInv, ProbeHasWork
  <2>3. CASE /\ probeWork' = probeWork \ {<<"starting", c>>}
             /\ emit_probe_progress(FINISHED) /\ StartRefused(c)
             /\ UNCHANGED m_probe_progress
    <3>1. probeWork' = {} /\ m_probe_in_progress' = FALSE
      BY <2>1, <2>3, EmitEnds
    <3>2. discovering' \subseteq Controllers /\ unstopped' \subseteq discovering'
      BY <2>3 DEF StartRefused, Discovers, WorkInv
    <3> QED
      BY <2>3, <3>1, <3>2 DEF WorkInv, ProbeHasWork
  <2> QED
    BY <1>2, <2>2, <2>3 DEF probe_finish
<1>3. CASE update_probe_progress(c)
  <2>1. m_probe_in_progress = TRUE
    BY <1>3, OneWork DEF update_probe_progress, ProbeSteps
  <2>2. m_probe_progress + 1 < FINISHED /\ m_probe_progress' = m_probe_progress + 1
    BY <1>3 DEF update_probe_progress
  <2>3. m_probe_progress # FINISHED /\ m_probe_progress' \in 0..FINISHED
    BY <1>1, <2>2
  <2>4. m_probe_in_progress' = TRUE
    BY <1>3, <2>1, <2>3, EmitEnds DEF update_probe_progress
  <2> QED
    BY <1>3, <2>1, <2>3, <2>4 DEF update_probe_progress, workVars, WorkInv, ProbeHasWork
<1>4. CASE LastTick(c)
  <2>1. m_probe_in_progress = TRUE /\ probeWork = {<<"ticking", c>>}
    BY <1>4, OneWork DEF LastTick, ProbeSteps
  <2>2. m_probe_progress # FINISHED /\ m_probe_progress' \in 0..FINISHED
    BY <1>1, <1>4 DEF LastTick
  <2>3. /\ discovering' \subseteq Controllers /\ unstopped' \subseteq discovering'
        /\ m_selected_controller \in Controllers
    BY <1>4, <2>1 DEF LastTick, GoesOn, WorkInv
  <2>4. CASE /\ emit_probe_progress(m_probe_progress)
             /\ probeWork' = (probeWork \ {<<"ticking", c>>})
                             \cup {<<"stopping", m_selected_controller>>}
    <3>1. m_probe_in_progress' = TRUE /\ probeWork' = {<<"stopping", m_selected_controller>>}
      BY <2>1, <2>2, <2>4, EmitEnds
    <3>2. <<"stopping", m_selected_controller>> \in ProbeSteps \X Controllers
      BY <2>3 DEF ProbeSteps
    <3> QED
      BY <2>1, <2>2, <2>3, <3>1, <3>2 DEF WorkInv, ProbeHasWork
  <2>5. CASE /\ CallsMayFail /\ emit_probe_progress(FINISHED)
             /\ probeWork' = probeWork \ {<<"ticking", c>>}
    <3>1. m_probe_in_progress' = FALSE /\ probeWork' = {}
      BY <2>1, <2>5, EmitEnds
    <3> QED
      BY <2>2, <2>3, <3>1 DEF WorkInv, ProbeHasWork
  <2> QED
    BY <1>4, <2>4, <2>5 DEF LastTick
<1>5. CASE stop_probe_finish(c)
  <2>1. m_probe_in_progress = TRUE /\ probeWork = {<<"stopping", c>>}
    BY <1>5, OneWork DEF stop_probe_finish, ProbeSteps
  <2>2. probeWork' = {} /\ m_probe_in_progress' = FALSE
    BY <1>5, <2>1, EmitEnds DEF stop_probe_finish
  <2>3. discovering' \subseteq Controllers /\ unstopped' \subseteq discovering'
    BY <1>5 DEF stop_probe_finish, StopAnswered, GoesOn, WorkInv
  <2> QED
    BY <1>5, <2>2, <2>3 DEF stop_probe_finish, WorkInv, ProbeHasWork
<1> QED
  BY <1>2, <1>3, <1>4, <1>5

(* connect and scan start a discovery, or leave the one that is running.   *)
LEMMA UserKeepsWork ==
  ASSUME WorkInv, scan \/ \E address \in Addresses : connect(address)
  PROVE  WorkInv'
<1>1. UNCHANGED <<m_selected_controller, m_probe_progress>>
  BY DEF scan, connect, ConnectKnown, ConnectUnknown, ConnectAccepted
<1>2. CASE UNCHANGED <<m_probe_in_progress, workVars>>
  BY <1>1, <1>2 DEF workVars, WorkInv, ProbeHasWork
<1>3. CASE /\ ~m_probe_in_progress /\ m_selected_controller # NoController
           /\ m_probe_in_progress' = TRUE /\ StartDiscovery
  <2>1. m_probe_in_progress = FALSE
    BY <1>3 DEF WorkInv
  <2> QED
    BY <1>1, <1>3, <2>1, StartWork
<1> QED
  BY <1>2, <1>3 DEF scan, connect, ConnectKnown, ConnectUnknown

-----------------------------------------------------------------------------
(* The profile.                                                            *)

SocketInv == /\ m_sock_fd \in BOOLEAN
             /\ {m_connected_device_path, linked} \subseteq Paths \cup {NoPath}
             /\ SocketHasOwner

(* bluez passes a connection on and takes it away; the socket, its owner   *)
(* and the link come and go together.                                      *)
LEMMA ProfileKeepsOwner ==
  ASSUME SocketInv, NEW p \in Paths, bt_new_connection(p) \/ bt_request_disconnection(p)
  PROVE  SocketInv'
<1>1. p # NoPath
  BY DEF Paths, NoPath
<1>2. CASE bt_new_connection(p)
  <2>1. CASE ~m_sock_fd /\ m_sock_fd' = TRUE /\ m_connected_device_path' = p /\ linked' = p
    BY <1>1, <2>1 DEF SocketInv, SocketHasOwner
  <2>2. CASE UNCHANGED <<m_sock_fd, m_connected_device_path, linked>>
    BY <2>2 DEF SocketInv, SocketHasOwner
  <2> QED
    BY <1>2, <2>1, <2>2 DEF bt_new_connection
<1>3. CASE bt_request_disconnection(p)
  <2>1. linked' = NoPath /\ m_connected_device_path' = NoPath /\ m_sock_fd' = FALSE
    BY <1>1, <1>3 DEF bt_request_disconnection, SocketInv, SocketHasOwner
  <2> QED
    BY <2>1 DEF SocketInv, SocketHasOwner
<1> QED
  BY <1>2, <1>3

-----------------------------------------------------------------------------
(* All of it together.                                                     *)

FlagsOK == {scanWaiting, m_complete_disconnect, disconnectCall} \subseteq BOOLEAN

IInv == InventoryInv /\ ReplyInv /\ WorkInv /\ SocketInv /\ FlagsOK

(* The initial states.                                                     *)
LEMMA IInvInit == Init => IInv
<1> SUFFICES ASSUME Init PROVE IInv
  OBVIOUS
<1>1. InventoryInv
  <2>1. <<>> \in Seq({"added", "removed"} \X Objects) /\ Len(<<>>) = 0
    OBVIOUS
  <2>2. restarts \in 0..MaxRestarts /\ Len(signals) <= MaxPending
    BY <2>1, InventoryAssumption DEF Init, InventoryInit
  <2>3. devices \subseteq adapters \X Addresses /\ adapters \subseteq Controllers
    BY DEF Init, InventoryInit
  <2> QED
    BY <2>1, <2>2, <2>3
       DEF Init, InventoryInit, InventoryInv, InventoryTypeOK, PathMapSound, NoSnapshot
<1>2. ReplyInv
  BY NamesAssumption, PortAssumption DEF Init, ReplyInv, WaitsForDevice, ReplyMatchesAttempt
<1>3. WorkInv
  <2>1. m_probe_progress \in 0..FINISHED
    BY PortAssumption DEF Init
  <2> QED
    BY <2>1 DEF Init, WorkInv, ProbeHasWork
<1>4. SocketInv /\ FlagsOK
  BY DEF Init, SocketInv, SocketHasOwner, FlagsOK
<1> QED
  BY <1>1, <1>2, <1>3, <1>4 DEF IInv

(* A step that leaves a part's variables alone keeps that part.            *)
LEMMA Untouched ==
  /\ InventoryInv /\ UNCHANGED inventoryVars => InventoryInv'
  /\ ReplyInv /\ UNCHANGED <<connectVars, attemptVars, m_probe_callback>> => ReplyInv'
  /\ WorkInv /\ UNCHANGED <<m_probe_in_progress, m_probe_progress, m_selected_controller,
                            workVars>> => WorkInv'
  /\ SocketInv /\ UNCHANGED <<m_connected_device_path, m_sock_fd, linked>> => SocketInv'
<1>1. InventoryInv /\ UNCHANGED inventoryVars => InventoryInv'
  BY DEF InventoryInv, InventoryTypeOK, PathMapSound, inventoryVars, bluezVars, mirrorVars,
         daemonVars
<1>2. ReplyInv /\ UNCHANGED <<connectVars, attemptVars, m_probe_callback>> => ReplyInv'
  BY DEF ReplyInv, WaitsForDevice, ReplyMatchesAttempt, connectVars, attemptVars
<1>3. WorkInv /\ UNCHANGED <<m_probe_in_progress, m_probe_progress, m_selected_controller,
                             workVars>> => WorkInv'
  BY DEF WorkInv, ProbeHasWork, workVars
<1>4. SocketInv /\ UNCHANGED <<m_connected_device_path, m_sock_fd, linked>> => SocketInv'
  BY DEF SocketInv, SocketHasOwner
<1> QED
  BY <1>1, <1>2, <1>3, <1>4

(* The steps of the program and of bluez, one by one.                      *)
LEMMA IInvStep == IInv /\ [Next]_vars => IInv'
<1> SUFFICES ASSUME IInv, [Next]_vars PROVE IInv'
  OBVIOUS
<1> USE DEF IInv
<1>1. CASE Inventory
  <2>1. InventoryInv'
    BY <1>1, BluezStep, HandlerStep DEF Inventory, InventoryNext
  <2>2. WorkInv'
    BY <1>1 DEF Inventory, probeVars, WorkInv, ProbeHasWork
  <2> QED
    BY <1>1, <2>1, <2>2, Untouched DEF Inventory, probeVars, profileVars, FlagsOK
<1>2. CASE BluezRestarts
  <2>1. InventoryInv'
    BY <1>2, BluezStep DEF BluezRestarts
  <2>2. WorkInv'
    BY <1>2 DEF BluezRestarts, probeVars, WorkInv, ProbeHasWork
  <2>3. SocketInv'
    BY <1>2 DEF BluezRestarts, SocketInv, SocketHasOwner
  <2> QED
    BY <1>2, <2>1, <2>2, <2>3, Untouched DEF BluezRestarts, probeVars, FlagsOK
<1>3. CASE \E c \in Controllers : select_controller(c)
  <2> PICK c \in Controllers : select_controller(c)
    BY <1>3
  <2>1. WorkInv'
    BY NamesAssumption DEF select_controller, probeVars, workVars, WorkInv, ProbeHasWork
  <2> QED
    BY <2>1, Untouched DEF select_controller, probeVars, profileVars, FlagsOK
<1>4. CASE \E address \in Addresses : connect(address)
  <2> PICK address \in Addresses : connect(address)
    BY <1>4
  <2>1. ReplyInv' /\ WorkInv'
    BY ConnectReply, UserKeepsWork
  <2>2. UNCHANGED <<inventoryVars, profileVars, scanWaiting>>
    BY DEF connect, ConnectKnown, ConnectUnknown, ConnectAccepted
  <2> QED
    BY <2>1, <2>2, Untouched DEF profileVars, FlagsOK
<1>5. CASE scan
  <2>1. WorkInv'
    BY <1>5, UserKeepsWork
  <2>2. UNCHANGED <<inventoryVars, connectVars, attemptVars, profileVars>>
    BY <1>5 DEF scan
  <2>3. m_probe_callback' \in {m_probe_callback, "scan"} /\ "scan" \notin Addresses
    BY <1>5, NamesAssumption DEF scan
  <2>4. ReplyInv'
    BY <2>2, <2>3 DEF ReplyInv, WaitsForDevice, ReplyMatchesAttempt, connectVars, attemptVars
  <2>5. scanWaiting' \in BOOLEAN
    BY <1>5 DEF scan
  <2> QED
    BY <2>1, <2>2, <2>4, <2>5, Untouched DEF profileVars, FlagsOK
<1>6. CASE disconnect \/ finish_disconnect \/ LinkLost
  <2>1. /\ UNCHANGED <<inventoryVars, m_selected_controller, connectVars, attemptVars,
                       probeVars, workVars, m_connected_device_path, m_sock_fd>>
        /\ linked' \in {linked, NoPath}
        /\ {m_complete_disconnect', disconnectCall'} \subseteq BOOLEAN
    BY <1>6 DEF disconnect, finish_disconnect, LinkLost, Profile, CallSent, FlagsOK
  <2>2. SocketInv'
    BY <2>1 DEF SocketInv, SocketHasOwner
  <2> QED
    BY <2>1, <2>2, Untouched DEF probeVars, FlagsOK
<1>7. CASE Probe
  <2>1. /\ UNCHANGED <<inventoryVars, m_selected_controller, attemptVars, profileVars>>
        /\ \/ \E percent : emit_probe_progress(percent)
           \/ UNCHANGED <<m_probe_callback, scanWaiting, connectVars>>
    BY <1>7 DEF Probe, probe_finish, update_probe_progress, LastTick, stop_probe_finish,
                ProbeStep
  <2>2. WorkInv'
    BY <1>7, <2>1, ProbeKeepsWork
  <2>3. ReplyInv'
    BY <2>1, EmitStep, Untouched
  <2>4. scanWaiting' \in BOOLEAN
    BY <2>1 DEF emit_probe_progress, FlagsOK
  <2> QED
    BY <2>1, <2>2, <2>3, <2>4, Untouched DEF profileVars, FlagsOK
<1>8. CASE \E call \in connectCalls : finish_connection(call)
  <2> PICK call \in connectCalls : finish_connection(call)
    BY <1>8
  <2>1. ReplyInv'
    BY FinishReply
  <2> QED
    BY <2>1, Untouched DEF finish_connection, probeVars, profileVars, FlagsOK
<1>9. CASE \E p \in Paths : bt_new_connection(p) \/ bt_request_disconnection(p)
  <2> PICK p \in Paths : bt_new_connection(p) \/ bt_request_disconnection(p)
    BY <1>9
  <2>1. /\ UNCHANGED <<inventoryVars, m_selected_controller, connectVars, attemptVars,
                       probeVars, workVars, m_complete_disconnect, disconnectCall>>
    BY DEF bt_new_connection, bt_request_disconnection, Profile
  <2>2. SocketInv'
    BY ProfileKeepsOwner
  <2> QED
    BY <2>1, <2>2, Untouched DEF probeVars, FlagsOK
<1>10. CASE UNCHANGED vars
  BY <1>10, Untouched DEF vars, portVars, probeVars, profileVars, FlagsOK
<1> QED
  BY <1>1, <1>2, <1>3, <1>4, <1>5, <1>6, <1>7, <1>8, <1>9, <1>10 DEF Next, User

(* The variables keep their types.                                         *)
THEOREM TypeCorrect == Spec => []TypeOK
<1>1. IInv => TypeOK
  BY DEF IInv, InventoryInv, ReplyInv, WorkInv, SocketInv, FlagsOK, TypeOK
<1> QED
  BY IInvInit, IInvStep, <1>1, PTL DEF Spec

(* Every reply to Connect that finish_connection hands to the stored       *)
(* callback answers the one call made for the attempt in progress, to the  *)
(* device it asked for, however connects, scans and discoveries overlap.   *)
THEOREM OneReplyPerAttempt == Spec => []ReplyMatchesAttempt
<1>1. IInv => ReplyMatchesAttempt
  BY DEF IInv, ReplyInv
<1> QED
  BY IInvInit, IInvStep, <1>1, PTL DEF Spec

(* A running discovery has exactly one timer or reply that advances it,    *)
(* and a finished one has left none behind.                                *)
THEOREM OneDiscovery == Spec => []ProbeHasWork
<1>1. IInv => ProbeHasWork
  BY DEF IInv, WorkInv
<1> QED
  BY IInvInit, IInvStep, <1>1, PTL DEF Spec

(* A held socket has an owner, whose disconnection is obeyed.              *)
THEOREM SocketOwned == Spec => []SocketHasOwner
<1>1. IInv => SocketHasOwner
  BY DEF IInv, SocketInv
<1> QED
  BY IInvInit, IInvStep, <1>1, PTL DEF Spec

(* The path map never leads to a device that was removed.                  *)
THEOREM NoStalePath == Spec => []PathMapSound
<1>1. IInv => PathMapSound
  BY DEF IInv, InventoryInv
<1> QED
  BY IInvInit, IInvStep, <1>1, PTL DEF Spec

-----------------------------------------------------------------------------
(* For a user who selects no controller during a discovery, the controller *)
(* stop_probe stops is the one that discovers, and no other discovers that *)
(* bluez was not asked to stop in vain.                                    *)

DiscoveryInv ==
    /\ discovering \subseteq unstopped \cup {m_selected_controller}
    /\ m_probe_in_progress = FALSE => discovering \subseteq unstopped
    /\ \A work \in probeWork : /\ work[2] = m_selected_controller
                               /\ work[1] = "starting" => discovering \subseteq unstopped

(* Every step keeps the discovery on the selected controller.              *)
LEMMA DiscoveryStep ==
  ASSUME Patient = TRUE
  PROVE  IInv /\ DiscoveryInv /\ [Next]_vars => DiscoveryInv'
<1> SUFFICES ASSUME IInv, DiscoveryInv, [Next]_vars PROVE DiscoveryInv'
  OBVIOUS
<1> USE DEF DiscoveryInv
<1>0. WorkInv
  BY DEF IInv
<1>1. CASE UNCHANGED <<m_selected_controller, m_probe_in_progress, workVars>>
  BY <1>1 DEF workVars
<1>2. CASE Inventory \/ BluezRestarts
  BY <1>2 DEF Inventory, BluezRestarts, probeVars
<1>3. CASE \E c \in Controllers : select_controller(c)
  <2>1. m_probe_in_progress = FALSE
    BY <1>0, <1>3 DEF select_controller, MayAct, WorkInv
  <2>2. probeWork = {} /\ discovering \subseteq unstopped
    BY <1>0, <2>1 DEF WorkInv, ProbeHasWork
  <2> QED
    BY <1>3, <2>2 DEF select_controller, workVars
<1>4. CASE scan \/ \E address \in Addresses : connect(address)
  <2>1. UNCHANGED m_selected_controller
    BY <1>4 DEF scan, connect, ConnectKnown, ConnectUnknown, ConnectAccepted
  <2>2. CASE UNCHANGED <<m_probe_in_progress, workVars>>
    BY <2>1, <2>2, <1>1
  <2>3. CASE ~m_probe_in_progress /\ StartDiscovery
    <3>1. probeWork = {} /\ discovering \subseteq unstopped
      BY <1>0, <2>3 DEF WorkInv, ProbeHasWork
    <3> QED
      BY <2>1, <2>3, <3>1 DEF StartDiscovery
  <2> QED
    BY <1>4, <2>2, <2>3 DEF scan, connect, ConnectKnown, ConnectUnknown
<1>5. CASE Probe
  <2> PICK c \in Controllers : \/ probe_finish(c) \/ update_probe_progress(c)
                              \/ LastTick(c) \/ stop_probe_finish(c)
    BY <1>5 DEF Probe
  <2>1. UNCHANGED m_selected_controller /\ WorkInv'
    BY <1>0, <1>5, ProbeKeepsWork
       DEF Probe, probe_finish, update_probe_progress, LastTick, stop_probe_finish, ProbeStep
  <2>2. m_probe_in_progress' = FALSE => probeWork' = {}
    BY <2>1 DEF WorkInv, ProbeHasWork
  <2>3. CASE probe_finish(c)
    <3>1. /\ probeWork = {<<"starting", c>>} /\ c = m_selected_controller
          /\ discovering \subseteq unstopped
      BY <1>0, <2>3, OneWork DEF probe_finish, ProbeSteps
    <3>2. \/ probeWork' = {} /\ discovering' \subseteq unstopped'
          \/ /\ probeWork' = {<<"ticking", c>>}
             /\ discovering' \subseteq unstopped' \cup {c}
      BY <2>3, <3>1 DEF probe_finish, StartRefused, Discovers
    <3>3. <<"ticking", c>>[1] = "ticking" /\ <<"ticking", c>>[2] = c
      OBVIOUS
    <3>4. m_probe_in_progress' = FALSE => discovering' \subseteq unstopped'
      BY <2>2, <3>2
    <3> QED
      BY <2>1, <3>1, <3>2, <3>3, <3>4
  <2>4. CASE update_probe_progress(c)
    <3>1. probeWork = {<<"ticking", c>>} /\ UNCHANGED workVars
      BY <1>0, <2>4, OneWork DEF update_probe_progress, ProbeSteps
    <3> QED
      BY <2>1, <2>2, <3>1 DEF workVars
  <2>5. CASE LastTick(c)
    <3>1. \/ /\ probeWork' = {<<"stopping", m_selected_controller>>}
             /\ UNCHANGED <<discovering, unstopped>>
          \/ /\ probeWork' = {} /\ UNCHANGED discovering
             /\ unstopped' = unstopped \cup (discovering \cap {m_selected_controller})
      BY <1>0, <2>5, OneWork DEF LastTick, GoesOn, ProbeSteps
    <3>2. /\ <<"stopping", m_selected_controller>>[1] = "stopping"
          /\ <<"stopping", m_selected_controller>>[2] = m_selected_controller
      OBVIOUS
    <3>3. m_probe_in_progress' = FALSE => discovering' \subseteq unstopped'
      BY <2>2, <3>1
    <3> QED
      BY <2>1, <3>1, <3>2, <3>3
  <2>6. CASE stop_probe_finish(c)
    <3>1. probeWork = {<<"stopping", c>>} /\ c = m_selected_controller
      BY <1>0, <2>6, OneWork DEF stop_probe_finish, ProbeSteps
    <3>2. probeWork' = {} /\ discovering' \subseteq unstopped'
      BY <2>6, <3>1 DEF stop_probe_finish, StopAnswered, GoesOn
    <3> QED
      BY <3>2
  <2> QED
    BY <2>3, <2>4, <2>5, <2>6
<1> QED
  BY <1>1, <1>2, <1>3, <1>4, <1>5
     DEF Next, User, portVars, probeVars, finish_connection, bt_new_connection,
         bt_request_disconnection, Profile, LinkLost, disconnect, finish_disconnect, vars

(* Once the discovery is over no adapter discovers for this program, but   *)
(* one that bluez reported an error for, or that the call could not be     *)
(* sent for (stop_probe, stop_probe_finish, probe_finish).                 *)
THEOREM NothingDiscovers ==
  ASSUME Patient = TRUE
  PROVE  Spec => []DiscoveryStopped
<1>1. Init => DiscoveryInv
  BY DEF Init, DiscoveryInv
<1>2. IInv /\ DiscoveryInv /\ [Next]_vars => DiscoveryInv'
  BY DiscoveryStep
<1>3. IInv /\ DiscoveryInv => DiscoveryStopped
  BY DEF IInv, WorkInv, DiscoveryInv, DiscoveryStopped
<1> QED
  BY IInvInit, IInvStep, <1>1, <1>2, <1>3, PTL DEF Spec

-----------------------------------------------------------------------------
(* The inventory follows the bus, if the bus is quiet between the snapshot *)
(* and the match: of an object no signal is about, bluez has what the      *)
(* inventory has, and the last signal about any other tells whether bluez  *)
(* has it.  A crash of the daemon leaves only one direction of this.       *)

Bus == adapters \cup devices
Mirror == m_controllers \cup m_remote_devices

Silent(o) == \A i \in DOMAIN signals : signals[i][2] # o
LastAbout(i) == \A j \in DOMAIN signals : j > i => signals[j][2] # signals[i][2]

InSync == /\ \A o \in Bus : Silent(o) => o \in Mirror
          /\ current = TRUE => \A o \in Mirror : Silent(o) => o \in Bus

Told == \A i \in DOMAIN signals : LastAbout(i) =>
          /\ signals[i][1] = "removed" => signals[i][2] \notin Bus
          /\ signals[i][1] = "added" /\ current = TRUE => signals[i][2] \in Bus

TracksInv ==
    /\ match # "installed" => signals = <<>>
    /\ match = "answered" => snapshot.adapters = adapters /\ snapshot.devices = devices
    /\ match = "installing" => m_controllers = adapters /\ m_remote_devices = devices
    /\ match = "installed" => InSync /\ Told

(* A signal that follows all others is the last about its object.          *)
LEMMA Emitted ==
  ASSUME InventoryTypeOK, match = "installed", InSync, Told,
         NEW o \in Objects, NEW kind \in {"added", "removed"},
         signals' = Append(signals, <<kind, o>>),
         Bus' = IF kind = "added" THEN Bus \cup {o} ELSE Bus \ {o},
         UNCHANGED <<current, mirrorVars>>
  PROVE  InSync' /\ Told'
<1> DEFINE S == {"added", "removed"} \X Objects
           n == Len(signals)
           signal == <<kind, o>>
<1>1. signals \in Seq(S) /\ signal \in S /\ signal[1] = kind /\ signal[2] = o
  BY DEF InventoryTypeOK
<1>2. signals' = Append(signals, signal)
  OBVIOUS
<1> HIDE DEF S, signal
<1>3. /\ n \in Nat /\ DOMAIN signals = 1..n /\ DOMAIN signals' = 1..(n + 1)
      /\ signals'[n + 1] = signal /\ \A i \in 1..n : signals'[i] = signals[i]
  <2>1. n \in Nat /\ DOMAIN signals = 1..n
    BY <1>1, LenProperties
  <2>2. /\ signals' \in Seq(S) /\ Len(signals') = n + 1
        /\ signals'[n + 1] = signal /\ \A i \in 1..n : signals'[i] = signals[i]
    BY <1>1, <1>2, AppendProperties
  <2>3. DOMAIN signals' = 1..Len(signals')
    BY <2>2, LenProperties
  <2> QED
    BY <2>1, <2>2, <2>3
<1> HIDE DEF n
<1>4. DOMAIN signals' = DOMAIN signals \cup {n + 1} /\ n + 1 \notin DOMAIN signals
  BY <1>3
<1>5. Mirror' = Mirror /\ \A x : x # o => (x \in Bus' <=> x \in Bus)
  BY DEF Mirror, mirrorVars
<1>6. \A x : Silent(x)' => x # o /\ Silent(x)
  BY <1>1, <1>3, <1>4 DEF Silent
<1>7. InSync'
  BY <1>5, <1>6 DEF InSync
<1>8. ASSUME NEW i \in DOMAIN signals', LastAbout(i)'
      PROVE  /\ signals'[i][1] = "removed" => signals'[i][2] \notin Bus'
             /\ signals'[i][1] = "added" /\ current' = TRUE => signals'[i][2] \in Bus'
  <2>1. CASE i = n + 1
    <3>1. signals'[i] = signal
      BY <1>3, <2>1
    <3> QED
      BY <1>1, <3>1
  <2>2. CASE i \in DOMAIN signals
    <3>1. n + 1 > i /\ signals'[i] = signals[i]
      BY <1>3, <2>2
    <3>2. signals[i][2] # o
      BY <1>1, <1>3, <1>4, <1>8, <3>1 DEF LastAbout
    <3>3. LastAbout(i)
      BY <1>3, <1>4, <1>8, <3>1 DEF LastAbout
    <3> QED
      BY <1>5, <2>2, <3>1, <3>2, <3>3 DEF Told
  <2> QED
    BY <1>4, <2>1, <2>2
<1>9. Told'
  BY <1>8 DEF Told
<1> QED
  BY <1>7, <1>9

(* A signal that is handled either is the last about its object, and the   *)
(* mirror now has what bluez has, or leaves the last one to come.          *)
LEMMA Received ==
  ASSUME InventoryTypeOK, InSync, Told, NEW kind \in {"added", "removed"}, NEW o \in Objects,
         Receive(kind, o),
         Mirror' = IF kind = "added" THEN Mirror \cup {o} ELSE Mirror \ {o}
  PROVE  InSync' /\ Told'
<1> DEFINE S == {"added", "removed"} \X Objects
           n == Len(signals)
           signal == <<kind, o>>
<1>1. /\ signals \in Seq(S) /\ signals # <<>> /\ signals' = Tail(signals)
      /\ Head(signals) = signal /\ signal[1] = kind /\ signal[2] = o
      /\ Bus' = Bus /\ current' = current
  BY DEF InventoryTypeOK, Receive, Bus, daemonVars
<1> HIDE DEF S, signal
<1>2. /\ n \in Nat /\ n > 0 /\ DOMAIN signals = 1..n /\ DOMAIN signals' = 1..(n - 1)
      /\ signals[1] = signal /\ \A i \in 1..(n - 1) : signals'[i] = signals[i + 1]
  BY <1>1, HeadTailProperties, LenProperties, EmptySeq
<1> HIDE DEF n
<1>3. /\ 1 \in DOMAIN signals
      /\ \A i \in DOMAIN signals : i = 1 \/ (i - 1 \in DOMAIN signals' /\ signals'[i - 1] = signals[i])
  BY <1>2
<1>4. \A x : Silent(x)' /\ x # o => Silent(x)
  BY <1>1, <1>2, <1>3 DEF Silent
<1>5. Silent(o)' => LastAbout(1)
  <2> SUFFICES ASSUME Silent(o)', NEW j \in DOMAIN signals, j > 1
               PROVE  signals[j][2] # signals[1][2]
    BY DEF LastAbout
  <2>1. j - 1 \in DOMAIN signals' /\ signals'[j - 1] = signals[j]
    BY <1>3
  <2> QED
    BY <1>1, <1>2, <2>1 DEF Silent
<1>6. Silent(o)' => /\ kind = "removed" => o \notin Bus
                    /\ kind = "added" /\ current = TRUE => o \in Bus
  BY <1>1, <1>2, <1>3, <1>5 DEF Told
<1>7. \A x : x # o => (x \in Mirror' <=> x \in Mirror)
  OBVIOUS
<1>8. /\ kind = "added" => o \in Mirror'
      /\ kind = "removed" => o \notin Mirror'
  OBVIOUS
<1>9. InSync'
  BY <1>1, <1>4, <1>6, <1>7, <1>8 DEF InSync
<1>10. ASSUME NEW i \in DOMAIN signals', LastAbout(i)'
       PROVE  i + 1 \in DOMAIN signals /\ signals'[i] = signals[i + 1] /\ LastAbout(i + 1)
  <2>1. i \in Int /\ i + 1 \in DOMAIN signals /\ signals'[i] = signals[i + 1]
    BY <1>2
  <2>2. ASSUME NEW j \in DOMAIN signals, j > i + 1
        PROVE  signals[j][2] # signals[i + 1][2]
    <3>1. j # 1 /\ j - 1 > i
      BY <1>2, <2>2
    <3>2. j - 1 \in DOMAIN signals' /\ signals'[j - 1] = signals[j]
      BY <1>3, <3>1
    <3> QED
      BY <1>10, <2>1, <3>1, <3>2 DEF LastAbout
  <2> QED
    BY <2>1, <2>2 DEF LastAbout
<1>11. Told'
  BY <1>1, <1>10 DEF Told
<1> QED
  BY <1>9, <1>11

(* A change of bluez that announces one object.                            *)
LEMMA ChangeStep ==
  ASSUME QuietStart = TRUE, InventoryTypeOK, TracksInv, MayChange,
         NEW o \in Objects, NEW kind \in {"added", "removed"}, Emit(<<kind, o>>),
         Bus' = IF kind = "added" THEN Bus \cup {o} ELSE Bus \ {o},
         UNCHANGED <<match, current, mirrorVars>>
  PROVE  TracksInv'
<1>1. match \notin {"answered", "installing"}
  BY DEF MayChange
<1>2. CASE match = "installed"
  <2>1. signals' = Append(signals, <<kind, o>>)
    BY <1>2 DEF Emit
  <2>2. InSync' /\ Told'
    BY <1>2, <2>1, Emitted DEF TracksInv
  <2> QED
    BY <1>1, <1>2, <2>2 DEF TracksInv
<1>3. CASE match # "installed"
  BY <1>1, <1>3 DEF Emit, TracksInv
<1> QED
  BY <1>2, <1>3

(* A handler that takes a signal about one object.                         *)
LEMMA SignalStep ==
  ASSUME InventoryTypeOK, TracksInv, NEW o \in Objects, NEW kind \in {"added", "removed"},
         Receive(kind, o), Mirror' = IF kind = "added" THEN Mirror \cup {o} ELSE Mirror \ {o}
  PROVE  TracksInv'
<1>1. match = "installed" /\ match' = match
  BY DEF Receive, TracksInv
<1>2. InSync' /\ Told'
  BY <1>1, Received DEF TracksInv
<1> QED
  BY <1>1, <1>2 DEF TracksInv

(* The steps of bluez, the bus daemon and the inventory.                   *)
LEMMA InventoryStep ==
  ASSUME QuietStart = TRUE, InventoryTypeOK, TracksInv, InventoryNext \/ DaemonRestarts
  PROVE  TracksInv'
<1>1. /\ devices \subseteq Paths /\ adapters \subseteq Controllers
      /\ m_remote_devices \subseteq Paths /\ m_controllers \subseteq Controllers
      /\ \A x : ~(x \in Controllers /\ x \in Paths)
  BY InventoryAssumption DEF InventoryTypeOK, Paths
<1>2. CASE \E c \in Controllers : AdapterAppears(c) \/ AdapterVanishes(c)
  <2> PICK c \in Controllers : AdapterAppears(c) \/ AdapterVanishes(c)
    BY <1>2
  <2>1. c \in Objects /\ MayChange /\ UNCHANGED <<match, current, mirrorVars>>
    BY DEF Objects, AdapterAppears, AdapterVanishes, daemonVars
  <2>2. CASE AdapterAppears(c)
    <3>1. Bus' = Bus \cup {c} /\ Emit(<<"added", c>>)
      BY <2>2 DEF AdapterAppears, Bus
    <3> QED
      BY <2>1, <3>1, ChangeStep
  <2>3. CASE AdapterVanishes(c)
    <3>1. Bus' = Bus \ {c} /\ Emit(<<"removed", c>>)
      BY <1>1, <2>3 DEF AdapterVanishes, Bus
    <3> QED
      BY <2>1, <3>1, ChangeStep
  <2> QED
    BY <2>2, <2>3
<1>3. CASE \E p \in Paths : DeviceAppears(p) \/ DeviceVanishes(p)
  <2> PICK p \in Paths : DeviceAppears(p) \/ DeviceVanishes(p)
    BY <1>3
  <2>1. p \in Objects /\ MayChange /\ UNCHANGED <<match, current, mirrorVars>>
    BY DEF Objects, DeviceAppears, DeviceVanishes, daemonVars
  <2>2. CASE DeviceAppears(p)
    <3>1. Bus' = Bus \cup {p} /\ Emit(<<"added", p>>)
      BY <2>2 DEF DeviceAppears, Bus
    <3> QED
      BY <2>1, <3>1, ChangeStep
  <2>3. CASE DeviceVanishes(p)
    <3>1. Bus' = Bus \ {p} /\ Emit(<<"removed", p>>)
      BY <1>1, <2>3 DEF DeviceVanishes, Bus
    <3> QED
      BY <2>1, <3>1, ChangeStep
  <2> QED
    BY <2>2, <2>3
<1>4. CASE AnswerGetManagedObjects
  BY <1>4 DEF AnswerGetManagedObjects, TracksInv
<1>5. CASE InstallMatch
  <2>1. match = "installing" /\ match' = "installed" /\ signals' = <<>> /\ DOMAIN signals' = {}
    BY <1>5 DEF InstallMatch, TracksInv
  <2>2. Mirror' = Bus'
    BY <1>5, <2>1 DEF InstallMatch, TracksInv, Mirror, Bus, mirrorVars
  <2> QED
    BY <2>1, <2>2 DEF TracksInv, InSync, Told
<1>6. CASE DaemonRestarts
  <2>1. /\ Bus' = {} /\ current' = FALSE /\ UNCHANGED <<match, signals>>
        /\ match \notin {"answered", "installing"}
    BY <1>6 DEF DaemonRestarts, Bus, MayChange
  <2>2. InSync' /\ Told'
    BY <2>1 DEF InSync, Told
  <2> QED
    BY <2>1, <2>2 DEF TracksInv
<1>7. CASE get_objects_complete
  BY <1>7 DEF get_objects_complete, TracksInv
<1>8. CASE \E c \in Controllers : AddController(c) \/ RemoveController(c)
  <2> PICK c \in Controllers : AddController(c) \/ RemoveController(c)
    BY <1>8
  <2>1. c \in Objects
    BY DEF Objects
  <2>2. CASE AddController(c)
    <3>1. Mirror' = Mirror \cup {c} /\ Receive("added", c)
      BY <2>2 DEF AddController, Mirror
    <3> QED
      BY <2>1, <3>1, SignalStep
  <2>3. CASE RemoveController(c)
    <3>1. Mirror' = Mirror \ {c} /\ Receive("removed", c)
      BY <1>1, <2>3 DEF RemoveController, Mirror
    <3> QED
      BY <2>1, <3>1, SignalStep
  <2> QED
    BY <2>2, <2>3
<1>9. CASE \E p \in Paths : AddDevice(p) \/ RemoveDevice(p)
  <2> PICK p \in Paths : AddDevice(p) \/ RemoveDevice(p)
    BY <1>9
  <2>1. p \in Objects
    BY DEF Objects
  <2>2. CASE AddDevice(p)
    <3>1. Mirror' = Mirror \cup {p} /\ Receive("added", p)
      BY <2>2 DEF AddDevice, Mirror
    <3> QED
      BY <2>1, <3>1, SignalStep
  <2>3. CASE RemoveDevice(p)
    <3>1. Mirror' = Mirror \ {p} /\ Receive("removed", p)
      BY <1>1, <2>3 DEF RemoveDevice, Mirror
    <3> QED
      BY <2>1, <3>1, SignalStep
  <2> QED
    BY <2>2, <2>3
<1> QED
  BY <1>2, <1>3, <1>4, <1>5, <1>6, <1>7, <1>8, <1>9
     DEF InventoryNext, Bluez, InventoryHandlers

(* Nothing else touches the inventory.                                     *)
LEMMA TracksStep ==
  ASSUME QuietStart = TRUE
  PROVE  IInv /\ TracksInv /\ [Next]_vars => TracksInv'
<1> SUFFICES ASSUME IInv, TracksInv, [Next]_vars PROVE TracksInv'
  OBVIOUS
<1>1. InventoryTypeOK
  BY DEF IInv, InventoryInv
<1>2. CASE UNCHANGED inventoryVars
  BY <1>2 DEF inventoryVars, bluezVars, daemonVars, mirrorVars, TracksInv, InSync, Told,
              Silent, LastAbout, Bus, Mirror
<1>3. CASE Inventory \/ BluezRestarts
  BY <1>1, <1>3, InventoryStep DEF Inventory, BluezRestarts
<1> QED
  BY <1>2, <1>3
     DEF Next, User, select_controller, connect, ConnectKnown, ConnectUnknown, ConnectAccepted,
         scan, disconnect, Probe, probe_finish, update_probe_progress, LastTick,
         stop_probe_finish, ProbeStep, finish_connection, bt_new_connection,
         bt_request_disconnection, Profile, LinkLost, finish_disconnect, vars

(* The inventory follows the bus, for any number of changes on their way,  *)
(* and keeps what is there after any number of crashes of the daemon.      *)
THEOREM InventoryFollows ==
  ASSUME QuietStart = TRUE
  PROVE  Spec => []InventoryTracksBus
<1>1. Init => TracksInv
  BY DEF Init, InventoryInit, TracksInv
<1>2. IInv /\ TracksInv /\ [Next]_vars => TracksInv'
  BY TracksStep
<1>3. ASSUME IInv, TracksInv PROVE InventoryTracksBus
  <2>1. SUFFICES ASSUME match = "installed", signals = <<>>
                 PROVE  /\ adapters \subseteq m_controllers /\ devices \subseteq m_remote_devices
                        /\ current => m_controllers = adapters
                                         /\ m_remote_devices = devices
    BY DEF InventoryTracksBus
  <2>2. \A o : Silent(o)
    BY <2>1 DEF Silent
  <2>3. Bus \subseteq Mirror /\ (current = TRUE => Mirror = Bus)
    BY <1>3, <2>1, <2>2 DEF TracksInv, InSync
  <2>4. /\ devices \subseteq Paths /\ adapters \subseteq Controllers
        /\ m_remote_devices \subseteq Paths /\ m_controllers \subseteq Controllers
        /\ \A x : ~(x \in Controllers /\ x \in Paths)
        /\ current \in BOOLEAN
    BY <1>3, InventoryAssumption DEF IInv, InventoryInv, InventoryTypeOK, Paths
  <2> QED
    BY <2>3, <2>4 DEF Bus, Mirror
<1> QED
  BY IInvInit, IInvStep, <1>1, <1>2, <1>3, PTL DEF Spec

-----------------------------------------------------------------------------
(* BluetoothSerialPort implements the safety part of BluetoothAttempt.     *)

(* While connect waits for a device a discovery runs, so that no scan can  *)
(* replace the stored callback.                                            *)
SeekInv == m_probe_callback \in Addresses => m_probe_in_progress

(* A discovery that ends has told the callback, which is dropped.          *)
LEMMA SeekStep == IInv /\ SeekInv /\ [Next]_vars => SeekInv'
<1> SUFFICES ASSUME IInv, SeekInv, [Next]_vars PROVE SeekInv'
  OBVIOUS
<1> USE NamesAssumption DEF SeekInv
<1>1. CASE \E address \in Addresses : connect(address)
  BY <1>1 DEF connect, ConnectKnown, ConnectUnknown
<1>2. CASE Probe
  <2>1. CASE \E percent : emit_probe_progress(percent)
    <3> PICK percent : emit_probe_progress(percent)
      BY <2>1
    <3>1. CASE m_probe_callback \in Addresses
      <4>1. pre_connection_scan_progress(percent, m_probe_callback)
        BY <3>1 DEF emit_probe_progress
      <4>2. m_probe_callback' = "none" \/ (percent # FINISHED /\ UNCHANGED m_probe_callback)
        BY <4>1 DEF pre_connection_scan_progress
      <4> QED
        BY <3>1, <4>2 DEF emit_probe_progress
    <3>2. CASE m_probe_callback \notin Addresses
      BY <3>2 DEF emit_probe_progress
    <3> QED
      BY <3>1, <3>2
  <2>2. CASE UNCHANGED <<m_probe_in_progress, m_probe_callback>>
    BY <2>2
  <2> QED
    BY <1>2, <2>1, <2>2
    DEF Probe, probe_finish, update_probe_progress, LastTick, stop_probe_finish
<1>3. CASE scan
  BY <1>3 DEF scan
<1>4. CASE UNCHANGED <<m_probe_in_progress, m_probe_callback>>
  BY <1>4
<1> QED
  BY <1>1, <1>2, <1>3, <1>4
  DEF Next, User, Inventory, BluezRestarts, select_controller, disconnect, finish_connection,
      finish_disconnect, LinkLost, bt_new_connection, bt_request_disconnection, Profile, vars,
      portVars, probeVars

(* Initially nothing is asked for.                                         *)
LEMMA AttemptInits == Init => Attempt!AttemptInit
<1> SUFFICES ASSUME Init PROVE Attempt!AttemptInit
  OBVIOUS
<1>1. m_complete_connection = 0 /\ m_probe_callback \notin Addresses /\ wanted \in Addresses
  BY NamesAssumption DEF Init
<1>2. Asked = {}
  BY DEF Init, Asked
<1> QED
  BY <1>1, <1>2 DEF Attempt!AttemptInit

(* A call of Connect asks for the address wanted, or is not sent.          *)
LEMMA InitiateAsks ==
  ASSUME InventoryInv, connectCalls = {}, NEW n, NEW a \in Addresses, Known(a),
         initiate_connection(n, a)
  PROVE  Asked' = {a} \/ (CallsMayFail /\ Asked' = {})
<1> DEFINE call == [attempt |-> n, path |-> m_dev_name_path_map[a]]
<1>1. call.path[2] = a
  BY KnownPath
<1>2. connectCalls' = {call} \/ (CallsMayFail /\ connectCalls' = {})
  BY PortAssumption DEF initiate_connection, CallSent
<1> HIDE DEF call
<1> QED
  BY <1>1, <1>2 DEF Asked

(* A step that changes none of the four is none of the promise.            *)
LEMMA AttemptStutters ==
  ASSUME UNCHANGED <<m_complete_connection, connectCalls, wanted, m_probe_callback>>
  PROVE  UNCHANGED Attempt!attemptVars
BY DEF Attempt!attemptVars, Asked

(* An accepted call of connect begins an attempt.                          *)
LEMMA ConnectBegins ==
  ASSUME InventoryInv, ReplyInv, NEW address \in Addresses, connect(address)
  PROVE  Attempt!Begin
<1>1. /\ m_complete_connection = 0 /\ attempt' # 0 /\ wanted' = address
      /\ MayAct /\ (Prepared => m_selected_controller # NoController)
  BY DEF connect, ConnectKnown, ConnectUnknown, ConnectAccepted, ReplyInv
<1>2. connectCalls = {} /\ m_probe_callback \notin Addresses /\ "none" \notin Addresses
  BY <1>1, NoAttemptNoCall, NamesAssumption DEF ReplyInv, WaitsForDevice
<1>3. CASE ConnectKnown(address)
  <2>1. /\ Known(address) /\ initiate_connection(attempt', address)
        /\ m_complete_connection' = attempt' /\ m_probe_callback' = m_probe_callback
    BY <1>3 DEF ConnectKnown
  <2>2. Asked' = {address} \/ (CallsMayFail /\ Asked' = {})
    BY <1>2, <2>1, InitiateAsks
  <2> QED
    BY <1>1, <1>2, <2>1, <2>2 DEF Attempt!Begin
<1>4. CASE ConnectUnknown(address)
  <2>1. connectCalls' = {}
    BY <1>2, <1>4 DEF ConnectUnknown
  <2>2. Asked' = {}
    BY <2>1 DEF Asked
  <2>3. \/ m_complete_connection' = attempt' /\ m_probe_callback' = address
        \/ /\ CallsMayFail \/ ~Prepared \/ ~Patient
           /\ m_complete_connection' \in {0, attempt'}
           /\ m_probe_callback' \in {"none", m_probe_callback}
    BY <1>1, <1>4, PortAssumption DEF ConnectUnknown, MayAct
  <2> QED
    BY <1>1, <1>2, <2>2, <2>3 DEF Attempt!Begin
<1> QED
  BY <1>3, <1>4 DEF connect

(* Progress that reaches the callback of connect asks bluez, or ends the   *)
(* attempt; other progress is none of its business.                        *)
LEMMA EmitServes ==
  ASSUME InventoryInv, ReplyInv, NEW percent, emit_probe_progress(percent), UNCHANGED wanted
  PROVE  Attempt!Ask \/ Attempt!NotFound \/ UNCHANGED Attempt!attemptVars
<1>1. CASE m_probe_callback \in Addresses
  <2>1. pre_connection_scan_progress(percent, m_probe_callback)
    BY <1>1, NamesAssumption DEF emit_probe_progress
  <2>2. m_complete_connection # 0 /\ wanted = m_probe_callback /\ connectCalls = {}
    BY <1>1 DEF ReplyInv, WaitsForDevice
  <2>3. "none" \notin Addresses
    BY NamesAssumption
  <2>4. CASE /\ Known(wanted)
             /\ initiate_connection(m_complete_connection, wanted)
             /\ m_probe_callback' = "none" /\ UNCHANGED m_complete_connection
    <3>1. Asked' = {wanted} \/ (CallsMayFail /\ Asked' = {})
      BY <1>1, <2>2, <2>4, InitiateAsks
    <3> QED
      BY <1>1, <2>2, <2>3, <2>4, <3>1 DEF Attempt!Ask
  <2>5. CASE /\ m_probe_callback' = "none" /\ m_complete_connection' = 0
             /\ UNCHANGED connectCalls
    BY <1>1, <2>2, <2>3, <2>5 DEF Attempt!NotFound, Asked
  <2>6. CASE UNCHANGED <<m_probe_callback, connectVars>>
    BY <2>6, AttemptStutters DEF connectVars
  <2> QED
    BY <2>1, <2>2, <2>4, <2>5, <2>6 DEF pre_connection_scan_progress
<1>2. CASE m_probe_callback \notin Addresses
  BY <1>2, AttemptStutters DEF emit_probe_progress, connectVars
<1> QED
  BY <1>1, <1>2

(* The reply to Connect is the answer.                                     *)
LEMMA ReplyAnswers ==
  ASSUME ReplyInv, NEW call \in connectCalls, finish_connection(call)
  PROVE  Attempt!Answer
<1>1. connectCalls = {call} /\ connectCalls' = {} /\ call.path[2] = wanted
  BY DEF finish_connection, ReplyInv, ReplyMatchesAttempt
<1>2. Asked = {wanted} /\ Asked' = {}
  BY <1>1 DEF Asked
<1>3. m_complete_connection # 0
  BY NoAttemptNoCall
<1>4. m_complete_connection' = 0 /\ UNCHANGED <<wanted, m_probe_callback>>
  BY DEF finish_connection, attemptVars, probeVars
<1> QED
  BY <1>2, <1>3, <1>4 DEF Attempt!Answer

(* Every step is one of the promise, or none.                              *)
LEMMA AttemptStep == IInv /\ SeekInv /\ [Next]_vars => [Attempt!AttemptNext]_Attempt!attemptVars
<1> SUFFICES ASSUME IInv, SeekInv, [Next]_vars
             PROVE  [Attempt!AttemptNext]_Attempt!attemptVars
  OBVIOUS
<1> USE DEF IInv
<1>1. CASE \E address \in Addresses : connect(address)
  BY <1>1, ConnectBegins DEF Attempt!AttemptNext
<1>2. CASE Probe
  <2>1. /\ UNCHANGED wanted
        /\ \/ \E percent : emit_probe_progress(percent)
           \/ UNCHANGED <<m_probe_callback, connectVars>>
    BY <1>2 DEF Probe, probe_finish, update_probe_progress, LastTick, stop_probe_finish,
                ProbeStep, attemptVars
  <2>2. CASE \E percent : emit_probe_progress(percent)
    BY <2>1, <2>2, EmitServes DEF Attempt!AttemptNext
  <2>3. CASE UNCHANGED <<m_probe_callback, connectVars>>
    BY <2>1, <2>3, AttemptStutters DEF connectVars
  <2> QED
    BY <2>1, <2>2, <2>3
<1>3. CASE \E call \in connectCalls : finish_connection(call)
  BY <1>3, ReplyAnswers DEF Attempt!AttemptNext
<1>4. CASE scan
  <2>1. UNCHANGED <<m_complete_connection, connectCalls, wanted>>
    BY <1>4 DEF scan, connectVars, attemptVars
  <2>2. m_probe_callback' = m_probe_callback \/ (m_probe_callback' = "scan"
                                                 /\ ~m_probe_in_progress)
    BY <1>4 DEF scan
  <2> QED
    BY <2>1, <2>2, NamesAssumption DEF Attempt!attemptVars, Asked, SeekInv
<1>5. CASE UNCHANGED <<m_complete_connection, connectCalls, wanted, m_probe_callback>>
  BY <1>5, AttemptStutters
<1> QED
  BY <1>1, <1>2, <1>3, <1>4, <1>5
  DEF Next, User, Inventory, BluezRestarts, select_controller, disconnect, finish_disconnect,
      LinkLost, bt_new_connection, bt_request_disconnection, Profile, vars, portVars,
      connectVars, attemptVars, probeVars

(* An attempt that found its device ends with bluez's answer to the one    *)
(* Connect called for it, one that did not find it with the discovery, and *)
(* where calls are sent and the user has a controller and waits, none gets *)
(* lost                                                                    *)
(* (initiate_connection, pre_connection_scan_progress, finish_connection). *)
THEOREM AttemptPromise == Spec => ImplementsAttemptSafety
<1>1. Init => SeekInv
  BY NamesAssumption DEF Init, SeekInv
<1> QED
  BY IInvInit, IInvStep, AttemptInits, SeekStep, AttemptStep, <1>1, PTL
  DEF Spec, ImplementsAttemptSafety, Attempt!SafeAttempt

-----------------------------------------------------------------------------
(* The messages in which bluez tells of its objects are understood: the    *)
(* snapshot and every signal on its way are read for exactly the objects   *)
(* bluez sent.                                                             *)
THEOREM MessagesRead == Spec => []MessagesUnderstood
<1>1. ASSUME TypeOK PROVE MessagesUnderstood
  <2>1. /\ snapshot.adapters \in SUBSET Controllers /\ snapshot.devices \in SUBSET Paths
        /\ signals \in Seq({"added", "removed"} \X Objects)
    BY <1>1 DEF TypeOK, InventoryTypeOK
  <2>2. ASSUME NEW n \in DOMAIN Extras
        PROVE  /\ ReplyUnderstood(snapshot.adapters, snapshot.devices, Extras[n])
               /\ \A i \in DOMAIN signals :
                    SignalUnderstood(signals[i][1], signals[i][2], Extras[n])
    <3>extra. PICK extra : extra = Extras[n]
      OBVIOUS
    <3>1. Readable(extra)
      BY <3>extra, ExtrasReadable
    <3>2. ReplyUnderstood(snapshot.adapters, snapshot.devices, extra)
      BY <2>1, <3>1, ReplyRead
    <3>3. ASSUME NEW i \in DOMAIN signals
          PROVE  SignalUnderstood(signals[i][1], signals[i][2], extra)
      <4>1. signals[i][2] \in Objects
        <5> DEFINE T == {"added", "removed"} \X Objects
        <5>1. signals[i] \in T
          <6> HIDE DEF T
          <6>1. signals \in Seq(T)
            BY <2>1 DEF T
          <6> QED
            BY <6>1
        <5> QED
          BY <5>1
      <4> QED
        BY <3>1, <4>1, SignalRead
    <3> QED
      BY <3>2, <3>3, <3>extra
  <2> QED
    BY <2>2, SamplesRead, ParamsRead DEF MessagesUnderstood
<1> QED
  BY TypeCorrect, <1>1, PTL
=============================================================================
