------------------------- MODULE HardwareInterface --------------------------
(***************************************************************************)
(* hardware-interface.cpp: the socket of the bluetooth interface and the   *)
(* lock it is used under.  The main thread stores and closes the socket at *)
(* bluez's requests (NewConnection, RequestDisconnection) and writes what  *)
(* the user enters; the reader of the terminal reads meanwhile.  Each new  *)
(* socket has a number of its own, NoSocket stands for -1.                 *)
(***************************************************************************)
EXTENDS Naturals

CONSTANT MaxSockets        \* bound on the connections of bluez
ASSUME SocketAssumption == MaxSockets \in Nat

NoSocket == 0
Sockets == 1..MaxSockets

VARIABLES
  m_sock_fd,
  open, timed,             \* sockets this program has open, and with a timeout
  ready,                   \* what the device lets happen at once: "read", "write"
  used,                    \* sockets so far
  sharing, exclusive,      \* m_sock_fd_mutex: the threads that share it; whether the main
                           \* thread has it alone: "no", "waits" or "has"
  mainPc, readerPc,        \* where the threads are
  reading,                 \* the descriptor the reader has passed to ::read
  m_stop_reader

socketVars == <<m_sock_fd, open, timed, used>>
lockVars == <<sharing, exclusive>>
readerVars == <<readerPc, reading, m_stop_reader>>
vars == <<socketVars, ready, lockVars, mainPc, readerVars>>

Init == /\ m_sock_fd = NoSocket /\ open = {} /\ timed = {} /\ used = 0
        /\ ready = {} /\ sharing = {} /\ exclusive = "no"
        /\ mainPc = "idle" /\ readerPc = "none" /\ reading = NoSocket
        /\ m_stop_reader = FALSE

-----------------------------------------------------------------------------
(* std::shared_mutex.  Threads may go on sharing it while another waits to *)
(* have it alone; the last to leave hands it over to the one that waits.   *)

LockShared(thread) == /\ exclusive # "has"
                      /\ sharing' = sharing \cup {thread} /\ UNCHANGED exclusive

UnlockShared(thread) ==
    /\ sharing' = sharing \ {thread}
    /\ exclusive' = IF exclusive = "waits" /\ sharing = {thread} THEN "has" ELSE exclusive

LockAlone == /\ exclusive' = IF sharing = {} THEN "has" ELSE "waits"
             /\ UNCHANGED sharing

-----------------------------------------------------------------------------
(* bluez's requests, on the main thread.  The test of m_sock_fd comes      *)
(* before the lock.                                                        *)

MainStep == UNCHANGED <<ready, readerVars>>

bt_new_connection == /\ mainPc = "idle" /\ m_sock_fd = NoSocket /\ used < MaxSockets
                     /\ mainPc' = "dup" /\ LockAlone
                     /\ UNCHANGED socketVars /\ MainStep

StoreSocket == /\ mainPc = "dup" /\ exclusive = "has"
               /\ used' = used + 1 /\ m_sock_fd' = used' /\ open' = open \cup {used'}
               /\ exclusive' = "no" /\ mainPc' = "idle"
               /\ UNCHANGED <<timed, sharing>> /\ MainStep

(* Mutant: the socket is closed under a shared lock.                       *)
DisconnectShared == /\ mainPc = "idle" /\ m_sock_fd # NoSocket
                    /\ mainPc' = "close" /\ exclusive' = "has"
                    /\ UNCHANGED <<sharing, socketVars>> /\ MainStep

bt_request_disconnection == /\ mainPc = "idle" /\ m_sock_fd # NoSocket
                            /\ mainPc' = "close" /\ LockAlone
                            /\ UNCHANGED socketVars /\ MainStep

CloseSocket == /\ mainPc = "close" /\ exclusive = "has"
               /\ open' = open \ {m_sock_fd} /\ mainPc' = "forget"
               /\ UNCHANGED <<m_sock_fd, timed, used, lockVars>> /\ MainStep

ForgetSocket == /\ mainPc = "forget" /\ m_sock_fd' = NoSocket
                /\ exclusive' = "no" /\ mainPc' = "idle"
                /\ UNCHANGED <<open, timed, used, sharing>> /\ MainStep

-----------------------------------------------------------------------------
(* write, on the main thread, for a line the user enters.                  *)

write == /\ mainPc = "idle" /\ LockShared("main")
         /\ mainPc' = "write" /\ UNCHANGED socketVars /\ MainStep

(* ::write returns at once, or when there is room, or when it times out.   *)
WriteReturns == /\ mainPc = "write"
                /\ m_sock_fd \in timed \cup {NoSocket} \/ "write" \in ready
                /\ mainPc' = "idle" /\ UnlockShared("main")
                /\ ready' \in {ready, ready \ {"write"}}
                /\ UNCHANGED <<socketVars, readerVars>>

-----------------------------------------------------------------------------
(* The reader thread (read_data of Terminal), started and stopped with the *)
(* view.                                                                   *)

ReaderStep == UNCHANGED <<m_sock_fd, open, used, mainPc>>

(* on_show: a reader is started unless one is running.                     *)
ShowTerminal ==
    /\ mainPc = "idle" /\ m_stop_reader' = FALSE
    /\ readerPc' = IF readerPc \in {"none", "ended"} THEN "set_timeout" ELSE readerPc
    /\ UNCHANGED <<socketVars, ready, lockVars, mainPc, reading>>

LeaveTerminal == /\ mainPc = "idle" /\ m_stop_reader' = TRUE
                 /\ UNCHANGED <<socketVars, ready, lockVars, mainPc, readerPc, reading>>

(* set_timeout, once, for the socket that is there.                        *)
set_timeout ==
    /\ readerPc = "set_timeout" /\ readerPc' = "test"
    /\ exclusive # "has"
    /\ timed' = timed \cup ({m_sock_fd} \ {NoSocket})
    /\ UNCHANGED <<ready, lockVars, reading, m_stop_reader>> /\ ReaderStep

ReaderTest == /\ readerPc = "test"
              /\ readerPc' = IF m_stop_reader THEN "ended" ELSE "lock"
              /\ UNCHANGED <<socketVars, ready, lockVars, mainPc, reading, m_stop_reader>>

(* read: the descriptor is passed on under the shared lock.                *)
read == /\ readerPc = "lock" /\ readerPc' = "read" /\ LockShared("reader")
        /\ reading' = m_sock_fd
        /\ UNCHANGED <<timed, ready, m_stop_reader>> /\ ReaderStep

(* Mutant: the lock is kept for the next read.                             *)
ReadKeepsLock ==
    /\ readerPc = "read" /\ readerPc' = "lock"
    /\ reading \in timed \cup {NoSocket} \/ "read" \in ready
    /\ reading' = NoSocket /\ UNCHANGED lockVars
    /\ ready' \in {ready, ready \ {"read"}}
    /\ UNCHANGED <<timed, m_stop_reader>> /\ ReaderStep

(* ::read returns at once, or with data, or at the end, or by timeout.     *)
ReadReturns ==
    /\ readerPc = "read" /\ readerPc' = "test"
    /\ reading \in timed \cup {NoSocket} \/ "read" \in ready
    /\ reading' = NoSocket /\ UnlockShared("reader")
    /\ ready' \in {ready, ready \ {"read"}}
    /\ UNCHANGED <<timed, m_stop_reader>> /\ ReaderStep

(* Data arrives, the device takes data, or the link is lost.               *)
Device == /\ ready' \in {ready \cup {"read"}, ready \cup {"write"}} /\ ready' # ready
          /\ UNCHANGED <<socketVars, lockVars, mainPc, readerVars>>

-----------------------------------------------------------------------------
Main == StoreSocket \/ CloseSocket \/ ForgetSocket \/ WriteReturns
Reader == set_timeout \/ ReaderTest \/ read \/ ReadReturns
Next == \/ bt_new_connection \/ bt_request_disconnection \/ write
        \/ ShowTerminal \/ LeaveTerminal \/ Main \/ Reader \/ Device

(* Both threads run; the device may be silent for ever.                    *)
Spec == Init /\ [][Next]_vars /\ WF_vars(Main) /\ WF_vars(Reader)

-----------------------------------------------------------------------------
TypeOK ==
    /\ used \in 0..MaxSockets /\ m_sock_fd \in 0..used
    /\ open \subseteq 1..used /\ timed \subseteq 1..used
    /\ ready \subseteq {"read", "write"}
    /\ sharing \subseteq {"main", "reader"} /\ exclusive \in {"no", "waits", "has"}
    /\ mainPc \in {"idle", "dup", "close", "forget", "write"}
    /\ readerPc \in {"none", "set_timeout", "test", "lock", "read", "ended"}
    /\ reading \in 0..used /\ m_stop_reader \in BOOLEAN

(* The lock is shared exactly by the threads that use the socket, and had  *)
(* or awaited alone only by the main thread when it exchanges the socket.  *)
LockFollowsUse ==
    /\ "reader" \in sharing <=> readerPc = "read"
    /\ "main" \in sharing <=> mainPc = "write"
    /\ exclusive # "no" <=> mainPc \in {"dup", "close", "forget"}
    /\ mainPc = "forget" => exclusive = "has"
    /\ exclusive = "has" => sharing = {}

(* The socket passed to ::read is the one held, and it is not closed while *)
(* the read goes on; whatever is stored is open, except to the main thread *)
(* between its two steps, and no other socket is left open.                *)
SocketStaysOpen ==
    /\ TypeOK /\ LockFollowsUse
    /\ readerPc = "read" => reading = m_sock_fd
    /\ open = {m_sock_fd} \ (IF mainPc = "forget" THEN {m_sock_fd} ELSE {NoSocket})

(* The main thread is never kept by the reader or the device for good,     *)
(* except by a socket whose timeout has not been set.                      *)
MainServed == mainPc # "idle" ~> mainPc = "idle" \/ m_sock_fd \in Sockets \ timed
=============================================================================
