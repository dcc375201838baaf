--------------------------- MODULE CommandService ---------------------------
(***************************************************************************)
(* What an OBD device driver (obd-device.hpp, implemented by Elm327)       *)
(* promises its user: once it is open, accepted commands are answered one  *)
(* by one in the order they were accepted, each at most once; after the    *)
(* driver is closed nothing is answered.                                   *)
(***************************************************************************)
EXTENDS Naturals, Sequences

CONSTANT Requests

VARIABLES phase,                \* "down", "open", "closing" or "closed"
          accepted, completed   \* requests, in the order of the calls / callbacks

serviceVars == <<phase, accepted, completed>>

ServiceInit == phase = "down" /\ accepted = <<>> /\ completed = <<>>

Open == phase = "down" /\ phase' = "open" /\ UNCHANGED <<accepted, completed>>

Accept(r) == /\ phase = "open"
             /\ accepted' = Append(accepted, r)
             /\ UNCHANGED <<phase, completed>>

Answer == /\ phase \in {"open", "closing"}
          /\ Len(completed) < Len(accepted)
          /\ completed' = Append(completed, accepted[Len(completed) + 1])
          /\ UNCHANGED <<phase, accepted>>

Close == phase = "open" /\ phase' = "closing" /\ UNCHANGED <<accepted, completed>>

Closed == phase = "closing" /\ phase' = "closed" /\ UNCHANGED <<accepted, completed>>

ServiceNext == Open \/ (\E r \in Requests : Accept(r)) \/ Answer \/ Close \/ Closed

ServiceSafety == ServiceInit /\ [][ServiceNext]_serviceVars

ServiceSpec == ServiceSafety /\ WF_serviceVars(Answer) /\ WF_serviceVars(Closed)
=============================================================================
