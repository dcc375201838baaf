-------------------------- MODULE ObjectInventory ---------------------------
(***************************************************************************)
(* The part of bluetooth-serial-port.cpp that mirrors bluez's objects: one *)
(* snapshot (GetManagedObjects), then the signals InterfacesAdded and      *)
(* InterfacesRemoved, which the bus forwards once a match is installed.    *)
(* Messages of bluez arrive in the order bluez sent them.  A device object *)
(* belongs to the adapter that sees the device: its path is the pair of    *)
(* the adapter and the device's address.                                   *)
(***************************************************************************)
EXTENDS Naturals, Sequences, FiniteSets

CONSTANTS Controllers, Addresses,
          MaxPending,        \* bound on the signals on their way
          MaxRestarts,       \* bound on the crashes of bluez's daemon
          QuietStart         \* bluez changes nothing between snapshot and match

Paths == Controllers \X Addresses
NoPath == <<>>               \* the empty string, and an absent entry of the path map
ASSUME InventoryAssumption == /\ {MaxPending, MaxRestarts} \subseteq Nat
                              /\ QuietStart \in BOOLEAN
                              /\ Controllers \cap Paths = {}

VARIABLES
  adapters, devices,         \* bluez: the objects that exist
  match,                     \* "called", "answered", "installing", "installed" or "failed"
  snapshot,                  \* the reply to GetManagedObjects on its way
  signals,                   \* signals on their way
  registered,                \* bluez knows the profile
  current,                   \* what bluez told comes from the daemon that runs now
  restarts,                  \* crashes of bluez's daemon so far
  m_controllers, m_remote_devices, m_dev_name_path_map

daemonVars == <<registered, current, restarts>>
bluezVars == <<adapters, devices, match, snapshot, signals, daemonVars>>
mirrorVars == <<m_controllers, m_remote_devices, m_dev_name_path_map>>
inventoryVars == <<bluezVars, mirrorVars>>

NoSnapshot == [adapters |-> {}, devices |-> {}]

InventoryInit ==
    /\ adapters \in SUBSET Controllers
    /\ devices \in SUBSET (adapters \X Addresses)
    /\ match = "called" /\ snapshot = NoSnapshot /\ signals = <<>>
    /\ registered = FALSE /\ current = FALSE /\ restarts = 0
    /\ m_controllers = {} /\ m_remote_devices = {}
    /\ m_dev_name_path_map = [a \in Addresses |-> NoPath]

-----------------------------------------------------------------------------
(* bluez and the bus daemon.                                               *)

Emit(signal) == signals' = IF match = "installed" THEN Append(signals, signal) ELSE signals

MayChange == /\ Len(signals) < MaxPending
             /\ match \in {"answered", "installing"} => ~QuietStart

AdapterAppears(c) ==
    /\ MayChange /\ c \notin adapters
    /\ adapters' = adapters \cup {c} /\ Emit(<<"added", c>>)
    /\ UNCHANGED <<devices, match, snapshot, daemonVars, mirrorVars>>

AdapterVanishes(c) ==
    /\ MayChange /\ c \in adapters /\ \A p \in devices : p[1] # c
    /\ adapters' = adapters \ {c} /\ Emit(<<"removed", c>>)
    /\ UNCHANGED <<devices, match, snapshot, daemonVars, mirrorVars>>

DeviceAppears(p) ==
    /\ MayChange /\ p[1] \in adapters /\ p \notin devices
    /\ devices' = devices \cup {p} /\ Emit(<<"added", p>>)
    /\ UNCHANGED <<adapters, match, snapshot, daemonVars, mirrorVars>>

DeviceVanishes(p) ==
    /\ MayChange /\ p \in devices
    /\ devices' = devices \ {p} /\ Emit(<<"removed", p>>)
    /\ UNCHANGED <<adapters, match, snapshot, daemonVars, mirrorVars>>

AnswerGetManagedObjects ==
    /\ match = "called"
    /\ \/ match' = "answered" /\ snapshot' = [adapters |-> adapters, devices |-> devices]
       \/ match' = "failed" /\ UNCHANGED snapshot        \* an error reply: 0 is returned
    /\ UNCHANGED <<adapters, devices, signals, daemonVars, mirrorVars>>

InstallMatch ==
    /\ match = "installing" /\ match' = "installed"
    /\ UNCHANGED <<adapters, devices, snapshot, signals, daemonVars, mirrorVars>>

(* The daemon crashes and is started again: its objects are gone, and no   *)
(* signal says so; the next ones are announced like any other.             *)
DaemonRestarts ==
    /\ MayChange /\ restarts < MaxRestarts /\ restarts' = restarts + 1
    /\ adapters' = {} /\ devices' = {}
    /\ registered' = FALSE /\ current' = FALSE
    /\ UNCHANGED <<match, snapshot, signals, mirrorVars>>

Bluez == \/ \E c \in Controllers : AdapterAppears(c) \/ AdapterVanishes(c)
         \/ \E p \in Paths : DeviceAppears(p) \/ DeviceVanishes(p)
         \/ AnswerGetManagedObjects \/ InstallMatch

-----------------------------------------------------------------------------
(* Handlers.                                                               *)

(* Objects of the snapshot are added in an order the code does not choose: *)
(* of two paths with the same address, either is the last.                 *)
PathMapsOf(paths) ==
    {f \in [Addresses -> paths \cup {NoPath}] :
       \A a \in Addresses : IF \E p \in paths : p[2] = a THEN f[a] \in paths /\ f[a][2] = a
                                                         ELSE f[a] = NoPath}

(* Nothing is registered without a profile manager among the objects, or   *)
(* if the call cannot be made; what bluez answers to it is only logged.    *)
register_profile == registered' \in BOOLEAN

(* The snapshot is taken over, and the profile registered.                 *)
get_objects_complete ==
    /\ match = "answered" /\ match' = "installing"
    /\ register_profile /\ current' = TRUE
    /\ m_controllers' = snapshot.adapters
    /\ m_remote_devices' = snapshot.devices
    /\ m_dev_name_path_map' \in PathMapsOf(snapshot.devices)
    /\ snapshot' = NoSnapshot
    /\ UNCHANGED <<adapters, devices, signals, restarts>>

Receive(kind, object) == /\ signals # <<>> /\ Head(signals) = <<kind, object>>
                         /\ signals' = Tail(signals)
                         /\ UNCHANGED <<adapters, devices, match, snapshot, daemonVars>>

AddController(c) == /\ Receive("added", c)
                    /\ m_controllers' = m_controllers \cup {c}
                    /\ UNCHANGED <<m_remote_devices, m_dev_name_path_map>>

AddDevice(p) == /\ Receive("added", p)
                /\ m_remote_devices' = m_remote_devices \cup {p}
                /\ m_dev_name_path_map' = [m_dev_name_path_map EXCEPT ![p[2]] = p]
                /\ UNCHANGED m_controllers

(* Mutant: a removed adapter stays in the inventory.                       *)
RemoveControllerIgnored(c) == Receive("removed", c) /\ UNCHANGED mirrorVars

RemoveController(c) == /\ Receive("removed", c)
                       /\ m_controllers' = m_controllers \ {c}
                       /\ UNCHANGED <<m_remote_devices, m_dev_name_path_map>>

(* Mutant: the path map is not corrected.                                  *)
RemoveDeviceKeepPath(p) ==
    /\ Receive("removed", p)
    /\ m_remote_devices' = m_remote_devices \ {p}
    /\ UNCHANGED <<m_controllers, m_dev_name_path_map>>

(* The path map is only corrected for a device the inventory knows.        *)
RemoveDevice(p) ==
    /\ Receive("removed", p)
    /\ m_remote_devices' = m_remote_devices \ {p}
    /\ m_dev_name_path_map' = IF p \in m_remote_devices
                              THEN [m_dev_name_path_map EXCEPT ![p[2]] = NoPath]
                              ELSE m_dev_name_path_map
    /\ UNCHANGED m_controllers

InventoryHandlers == \/ get_objects_complete
                     \/ \E c \in Controllers : AddController(c) \/ RemoveController(c)
                     \/ \E p \in Paths : AddDevice(p) \/ RemoveDevice(p)

InventoryNext == Bluez \/ InventoryHandlers

-----------------------------------------------------------------------------
Objects == Controllers \cup Paths

(* The values each variable can take.                                      *)
InventoryTypeOK ==
    /\ adapters \subseteq Controllers /\ devices \subseteq adapters \X Addresses
    /\ match \in {"called", "answered", "installing", "installed", "failed"}
    /\ snapshot.adapters \subseteq Controllers /\ snapshot.devices \subseteq Paths
    /\ {registered, current} \subseteq BOOLEAN /\ restarts \in 0..MaxRestarts
    /\ signals \in Seq({"added", "removed"} \X Objects) /\ Len(signals) <= MaxPending
    /\ m_controllers \subseteq Controllers /\ m_remote_devices \subseteq Paths
    /\ m_dev_name_path_map \in [Addresses -> Paths \cup {NoPath}]

(* Once the match is installed and no signal is on its way, the inventory  *)
(* is exactly what bluez has: the controllers and devices the user is      *)
(* offered (get_controller_names, get_device_names_addresses).  After a    *)
(* crash of the daemon it still has all of that, but what the crash took   *)
(* away may be left.                                                       *)
InventoryTracksBus ==
    match = "installed" /\ signals = <<>> =>
        /\ adapters \subseteq m_controllers /\ devices \subseteq m_remote_devices
        /\ current => m_controllers = adapters /\ m_remote_devices = devices

(* A path the map gives for an address is the path of a known device with  *)
(* that address: initiate_connection never calls Connect on a removed one. *)
PathMapSound ==
    \A a \in Addresses : m_dev_name_path_map[a] # NoPath =>
        m_dev_name_path_map[a] \in m_remote_devices /\ m_dev_name_path_map[a][2] = a
=============================================================================
