--------------------------- MODULE MCEventHandler ---------------------------
EXTENDS EventHandler, TLC

CONSTANTS a, b

(* With BufSize = 4, a and b leave room in the buffer, and b with its Nul  *)
(* fills what process_events asks for.                                     *)
MCSize == (a :> 1 @@ b :> 2)
=============================================================================
