------------------------- MODULE ConnectionAttempt -------------------------
(***************************************************************************)
(* What a caller of HardwareInterface::connect relies on, whatever the     *)
(* interface: an accepted call is answered exactly once and eventually,    *)
(* and the answer says whether a device is held from then on.              *)
(***************************************************************************)
VARIABLES due,             \* a callback is owed
          held,            \* a device is held
          result           \* what the last callback said

attemptVars == <<due, held, result>>

AttemptInit == due = FALSE /\ held = FALSE /\ result = "none"

(* A call is refused while an attempt is in progress or a device is held.  *)
Begin == /\ ~due /\ ~held
         /\ due' = TRUE /\ UNCHANGED <<held, result>>

Work == due /\ held' = ~held /\ UNCHANGED <<due, result>>

Complete == /\ due /\ due' = FALSE
            /\ result' = IF held THEN "success" ELSE "failure"
            /\ UNCHANGED held

AttemptSpec == /\ AttemptInit /\ [][Begin \/ Work \/ Complete]_attemptVars
               /\ WF_attemptVars(Complete)
=============================================================================
