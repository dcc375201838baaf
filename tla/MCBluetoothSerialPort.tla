----------------------- MODULE MCBluetoothSerialPort ------------------------
EXTENDS BluetoothSerialPort, ObjectMessages

CONSTANTS hci0, hci1, a1, a2

(* Used where no liveness property is checked.                             *)
Symmetry == Permutations(Controllers) \cup Permutations(Addresses)

(* A state without what bluez runs for the program: discovering and        *)
(* unstopped decide no other variable, and no property of a run that has   *)
(* this view reads them.                                                   *)
WithoutDiscoveries ==
    <<inventoryVars, m_selected_controller, connectVars, attemptVars, probeVars, probeWork,
      profileVars>>
=============================================================================
