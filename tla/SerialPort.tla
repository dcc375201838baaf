----------------------------- MODULE SerialPort -----------------------------
(***************************************************************************)
(* serial-port.cpp: connecting to a serial device.  connect, on the main   *)
(* thread, starts a thread that opens and configures the device; the       *)
(* thread signals ConnectComplete before it returns, and the handler of    *)
(* the event waits for what it returns.  The thread holds m_sock_fd_mutex  *)
(* while it opens; the readers it excludes do not exist during an attempt  *)
(* (ButtonsFollowAttempt of module UserInterface), so the lock is left     *)
(* out.                                                                    *)
(***************************************************************************)
EXTENDS Naturals

VARIABLES
  m_sock_file, m_sock_fd,      \* a file is open; the descriptor is not -1
  m_is_connected,              \* the future: "invalid", "pending", or the result
  m_connect_callback,          \* a callback is stored
  connectThread,               \* where the thread is
  connectEvents,               \* events ConnectComplete on their way
  reported                     \* history: what the last callback was told

openVars == <<m_sock_file, m_sock_fd>>
serialVars == <<openVars, m_is_connected, m_connect_callback, connectThread, connectEvents,
                reported>>

SerialInit == /\ m_sock_file = FALSE /\ m_sock_fd = FALSE
              /\ m_is_connected = "invalid" /\ m_connect_callback = FALSE
              /\ connectThread = "none" /\ connectEvents = 0 /\ reported = "none"

(* connect: refused while a file is open or a future is waited for.        *)
SerialAccepts == ~m_sock_file /\ m_is_connected = "invalid"

SerialConnect == IF SerialAccepts
                 THEN /\ m_connect_callback' = TRUE
                      /\ m_is_connected' = "pending" /\ connectThread' = "open"
                      /\ UNCHANGED <<openVars, connectEvents, reported>>
                 ELSE UNCHANGED serialVars

-----------------------------------------------------------------------------
(* initiate_connection, on its thread.                                     *)

ThreadStep == UNCHANGED <<m_is_connected, m_connect_callback, reported>>

(* Opening the device: a failure leaves nothing to clean up.               *)
OpenDevice ==
    /\ connectThread = "open" /\ ThreadStep /\ UNCHANGED connectEvents
    /\ \/ m_sock_file' = TRUE /\ m_sock_fd' = TRUE /\ connectThread' = "configure"
       \/ m_sock_file' = FALSE /\ UNCHANGED m_sock_fd /\ connectThread' = "signal failure"

ConfigureDevice ==
    /\ connectThread = "configure" /\ ThreadStep /\ UNCHANGED <<openVars, connectEvents>>
    /\ connectThread' \in {"signal success", "close"}

(* Mutant: a device that could not be configured stays open.               *)
KeepDevice ==
    /\ connectThread = "close" /\ connectThread' = "signal failure"
    /\ UNCHANGED <<openVars, connectEvents>> /\ ThreadStep

(* The catch block closes the file, then forgets the descriptor.           *)
CloseDevice ==
    /\ ThreadStep /\ UNCHANGED connectEvents
    /\ \/ /\ connectThread = "close" /\ connectThread' = "forget"
          /\ m_sock_file' = FALSE /\ UNCHANGED m_sock_fd
       \/ /\ connectThread = "forget" /\ connectThread' = "signal failure"
          /\ m_sock_fd' = FALSE /\ UNCHANGED m_sock_file

(* Mutant: a failure is not signalled.                                     *)
SignalSuccess ==
    /\ \/ /\ connectThread = "signal success" /\ connectThread' = "return success"
          /\ connectEvents' = connectEvents + 1
       \/ /\ connectThread = "signal failure" /\ connectThread' = "return failure"
          /\ UNCHANGED connectEvents
    /\ UNCHANGED openVars /\ ThreadStep

SignalConnectComplete ==
    /\ \/ connectThread = "signal success" /\ connectThread' = "return success"
       \/ connectThread = "signal failure" /\ connectThread' = "return failure"
    /\ connectEvents' = connectEvents + 1
    /\ UNCHANGED openVars /\ ThreadStep

(* The thread returns: the future becomes ready.                           *)
ReturnResult ==
    /\ \/ connectThread = "return success" /\ m_is_connected' = "success"
       \/ connectThread = "return failure" /\ m_is_connected' = "failure"
    /\ connectThread' = "none"
    /\ UNCHANGED <<openVars, connectEvents, m_connect_callback, reported>>

SerialThread == \/ OpenDevice \/ ConfigureDevice \/ CloseDevice
                \/ SignalConnectComplete \/ ReturnResult

-----------------------------------------------------------------------------
(* connect_complete, the handler of the event: get waits for the thread,   *)
(* and the callback is called with the result, then forgotten.             *)
SerialComplete(success) ==
    /\ connectEvents > 0 /\ connectEvents' = connectEvents - 1
    /\ m_connect_callback /\ m_is_connected = success
    /\ success \in {"success", "failure"}
    /\ m_is_connected' = "invalid" /\ m_connect_callback' = FALSE /\ reported' = success
    /\ UNCHANGED <<openVars, connectThread>>

(* One event is on its way from the signal until the result is taken, and  *)
(* none otherwise.                                                         *)
EventForResult ==
    connectEvents = IF \/ connectThread \in {"return success", "return failure"}
                       \/ m_is_connected \in {"success", "failure"} THEN 1 ELSE 0

SerialTypeOK ==
    /\ {m_sock_file, m_sock_fd, m_connect_callback} \subseteq BOOLEAN
    /\ m_is_connected \in {"invalid", "pending", "success", "failure"}
    /\ connectThread \in {"none", "open", "configure", "close", "forget", "signal success",
                          "signal failure", "return success", "return failure"}
    /\ EventForResult /\ reported \in {"none", "success", "failure"}
=============================================================================
