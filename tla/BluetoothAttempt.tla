-------------------------- MODULE BluetoothAttempt --------------------------
(***************************************************************************)
(* What a caller of BluetoothSerialPort::connect relies on.  An accepted   *)
(* call looks for the device first if it is not known; either it is not    *)
(* found, or bluez is asked once to connect to it, and then only bluez's   *)
(* answer ends the attempt.  Where calls can fail to be sent, or the user  *)
(* has not selected a controller or does not wait, an attempt may get      *)
(* lost: nobody looks for the device or asks bluez, and the call is never  *)
(* answered.                                                               *)
(***************************************************************************)
CONSTANTS Addresses, MayLose

VARIABLES due,             \* a callback is owed
          wanted,          \* the address of the last call accepted
          seeking,         \* a discovery looks for it
          asked            \* addresses bluez was asked for and has not answered

attemptVars == <<due, wanted, seeking, asked>>

AttemptInit == due = FALSE /\ wanted \in Addresses /\ seeking = FALSE /\ asked = {}

(* A call is refused while another is not answered.                        *)
Begin == /\ ~due /\ wanted' \in Addresses
         /\ \/ due' = TRUE /\ seeking' = TRUE /\ asked' = {}
            \/ due' = TRUE /\ seeking' = FALSE /\ asked' = {wanted'}
            \/ MayLose /\ due' \in BOOLEAN /\ seeking' = FALSE /\ asked' = {}

Ask == /\ due /\ seeking /\ seeking' = FALSE
       /\ asked' = {wanted} \/ (MayLose /\ asked' = {})
       /\ UNCHANGED <<due, wanted>>

NotFound == /\ due /\ seeking /\ due' = FALSE /\ seeking' = FALSE
            /\ UNCHANGED <<wanted, asked>>

Answer == /\ due /\ asked = {wanted} /\ due' = FALSE /\ asked' = {}
          /\ UNCHANGED <<wanted, seeking>>

AttemptNext == Begin \/ Ask \/ NotFound \/ Answer

SafeAttempt == AttemptInit /\ [][AttemptNext]_attemptVars

AttemptSpec == SafeAttempt /\ WF_attemptVars(Ask \/ NotFound) /\ WF_attemptVars(Answer)
=============================================================================
