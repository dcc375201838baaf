---------------------- MODULE HardwareInterface_proofs ----------------------
(***************************************************************************)
(* The socket that is being read is never closed, for any number of        *)
(* connections (m_sock_fd_mutex of hardware-interface.hpp).                *)
(***************************************************************************)
EXTENDS HardwareInterface, TLAPS

(* Between the test of m_sock_fd in bt_new_connection and the store nobody *)
(* else stores a socket.                                                   *)
Fresh == mainPc = "dup" => m_sock_fd = NoSocket /\ used < MaxSockets

IInv == SocketStaysOpen /\ Fresh

(* A step of the main thread that takes the lock alone.                    *)
LEMMA MainLocks ==
  ASSUME IInv, bt_new_connection \/ bt_request_disconnection
  PROVE  IInv'
<1> USE DEF IInv, Fresh, SocketStaysOpen, TypeOK, LockFollowsUse, NoSocket, socketVars,
            readerVars, MainStep, LockAlone
<1>1. CASE bt_new_connection
  <2>1. CASE sharing = {}
    BY <1>1, <2>1 DEF bt_new_connection
  <2>2. CASE sharing # {}
    BY <1>1, <2>2 DEF bt_new_connection
  <2> QED BY <2>1, <2>2
<1>2. CASE bt_request_disconnection
  <2>1. CASE sharing = {}
    BY <1>2, <2>1 DEF bt_request_disconnection
  <2>2. CASE sharing # {}
    BY <1>2, <2>2 DEF bt_request_disconnection
  <2> QED BY <2>1, <2>2
<1> QED BY <1>1, <1>2

(* A step of the main thread under the lock: the socket is exchanged when  *)
(* no thread shares the lock.                                              *)
LEMMA MainExchanges ==
  ASSUME IInv, StoreSocket \/ CloseSocket \/ ForgetSocket
  PROVE  IInv'
<1> USE SocketAssumption DEF IInv, Fresh, SocketStaysOpen, TypeOK, LockFollowsUse, NoSocket,
            socketVars, lockVars, readerVars, MainStep
<1>1. CASE StoreSocket
  BY <1>1 DEF StoreSocket
<1>2. CASE CloseSocket
  BY <1>2 DEF CloseSocket
<1>3. CASE ForgetSocket
  BY <1>3 DEF ForgetSocket
<1> QED BY <1>1, <1>2, <1>3

(* The steps of write: the lock is shared, or left and handed over.        *)
LEMMA MainWrites ==
  ASSUME IInv, write \/ WriteReturns
  PROVE  IInv'
<1> USE DEF IInv, Fresh, SocketStaysOpen, TypeOK, LockFollowsUse, NoSocket, socketVars,
            readerVars, MainStep
<1>1. CASE write
  BY <1>1 DEF write, LockShared
<1>2. CASE WriteReturns
  BY <1>2 DEF WriteReturns, UnlockShared
<1> QED BY <1>1, <1>2

(* The steps of the reader.                                                *)
LEMMA ReaderReads ==
  ASSUME IInv, Reader
  PROVE  IInv'
<1> USE DEF IInv, Fresh, SocketStaysOpen, TypeOK, LockFollowsUse, NoSocket, socketVars,
            lockVars, readerVars, ReaderStep
<1>1. CASE set_timeout
  BY <1>1 DEF set_timeout
<1>2. CASE ReaderTest
  BY <1>2 DEF ReaderTest
<1>3. CASE read
  BY <1>3 DEF read, LockShared
<1>4. CASE ReadReturns
  <2>1. CASE exclusive = "waits" /\ sharing = {"reader"}
    BY <1>4, <2>1 DEF ReadReturns, UnlockShared
  <2>2. CASE ~(exclusive = "waits" /\ sharing = {"reader"})
    BY <1>4, <2>2 DEF ReadReturns, UnlockShared
  <2> QED BY <2>1, <2>2
<1> QED BY <1>1, <1>2, <1>3, <1>4 DEF Reader

(* Every step preserves the invariant.                                     *)
LEMMA StepKeepsInvariant ==
  ASSUME IInv, [Next]_vars
  PROVE  IInv'
<1> USE DEF IInv, Fresh, SocketStaysOpen, TypeOK, LockFollowsUse, NoSocket, socketVars,
            lockVars, readerVars
<1>1. CASE ShowTerminal
  BY <1>1 DEF ShowTerminal
<1>2. CASE LeaveTerminal
  BY <1>2 DEF LeaveTerminal
<1>3. CASE Device
  BY <1>3 DEF Device
<1>4. CASE UNCHANGED vars
  BY <1>4 DEF vars
<1> HIDE DEF IInv
<1> QED BY MainLocks, MainExchanges, MainWrites, ReaderReads, <1>1, <1>2, <1>3, <1>4
           DEF Next, Main

(* The socket the reader uses is the one held, and stays open while it is  *)
(* read, whatever bluez asks for meanwhile; no socket is leaked.           *)
THEOREM NeverClosedUnderReader == Spec => []SocketStaysOpen
<1>1. Init => IInv
  <2> SUFFICES ASSUME Init PROVE IInv
    OBVIOUS
  <2> USE SocketAssumption DEF Init, NoSocket
  <2>1. TypeOK
    <3>1. /\ used \in 0..MaxSockets /\ m_sock_fd \in 0..used /\ reading \in 0..used
          /\ open \subseteq 1..used /\ timed \subseteq 1..used
      OBVIOUS
    <3>2. /\ m_stop_reader \in BOOLEAN /\ sharing \subseteq {"main", "reader"}
          /\ ready \subseteq {"read", "write"} /\ exclusive \in {"no", "waits", "has"}
          /\ mainPc \in {"idle", "dup", "close", "forget", "write"}
          /\ readerPc \in {"none", "set_timeout", "test", "lock", "read", "ended"}
      BY Zenon
    <3> QED BY <3>1, <3>2, Zenon DEF TypeOK
  <2>2. LockFollowsUse
    BY DEF LockFollowsUse
  <2>3. Fresh
    BY DEF Fresh
  <2> QED BY <2>1, <2>2, <2>3 DEF IInv, SocketStaysOpen
<1>2. IInv /\ [Next]_vars => IInv'
  BY StepKeepsInvariant
<1>3. IInv => SocketStaysOpen
  BY DEF IInv
<1> QED BY <1>1, <1>2, <1>3, PTL DEF Spec
=============================================================================
