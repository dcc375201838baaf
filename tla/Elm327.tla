------------------------------- MODULE Elm327 -------------------------------
(***************************************************************************)
(* elm327.cpp: the driver of an ELM327 OBD adapter.  Three threads share   *)
(* one object: the main thread (the driver's user, and the handlers of the *)
(* events), the thread std::async runs init_thread on, and the command     *)
(* thread.  The event pipe is the FIFO of module EventChannel.  A command  *)
(* stands for its own callback; the adapter answers on a serial line that  *)
(* may answer late or not at all.                                          *)
(***************************************************************************)
EXTENDS Naturals, Sequences, FiniteSets

CONSTANTS Commands,       \* the calls of send_command the user makes
          Address,          \* Address[c]: the OBD address c is sent to
          PipeSlots,        \* events the pipe holds before signal_event blocks
          DeviceTimely,     \* every reply arrives before the read times out
          ProtocolParses,   \* the second character of every ATDPN reply is a digit
          EarlyUser         \* the user acts on is_connected() without awaiting init's callback

ASSUME CommandsAssumption == /\ IsFiniteSet(Commands)
                             /\ Address \in [Commands -> Nat \ {0}]
                             /\ PipeSlots \in Nat \ {0}
ASSUME ModesAssumption == {DeviceTimely, ProtocolParses, EarlyUser} \subseteq BOOLEAN

NoReply == "no reply"      \* what a read that timed out returns
HeaderReply == "OK"        \* the adapter's reply to ATSH
ASSUME RepliesAssumption == Commands \cap {NoReply, HeaderReply} = {}
Replies == Commands \cup {HeaderReply}

VARIABLES
  m_init_complete, m_disconnect_in_progress,
  m_init_result,           \* the future of init_thread is valid
  m_init_callback, m_disconnect_callback,   \* a callback is stored
  m_cmd_queue, m_cmd_semaphore, m_completion_queue,
  m_command_thread,        \* the unique_ptr is set
  m_current_obd_address,
  events,                  \* signalled and not yet processed
  initPc, cmdPc, mainPc,   \* where each thread is
  command,                 \* the command thread's local: the command it is executing
  line,                    \* replies of the adapter not yet read
  deviceHeader,            \* the address the adapter sends to
  accepted, answered, told, closed   \* history: what the user asked for and was told

queueVars == <<m_cmd_queue, m_cmd_semaphore, m_completion_queue>>
stateVars == <<m_init_complete, m_disconnect_in_progress, m_init_result,
               m_init_callback, m_disconnect_callback, m_command_thread>>
deviceVars == <<m_current_obd_address, command, line, deviceHeader>>
userVars == <<accepted, answered, told, closed>>
vars == <<queueVars, stateVars, deviceVars, userVars, events, initPc, cmdPc, mainPc>>

InitCommands == {"reset", "echo", "headers", "protocol"}

Init == /\ m_init_complete = FALSE /\ m_disconnect_in_progress = FALSE
        /\ m_init_result = FALSE /\ m_init_callback = FALSE
        /\ m_disconnect_callback = FALSE /\ m_command_thread = FALSE
        /\ m_cmd_queue = <<>> /\ m_cmd_semaphore = 0 /\ m_completion_queue = <<>>
        /\ m_current_obd_address = 0 /\ deviceHeader = 0
        /\ command \in Commands /\ line = <<>> /\ events = <<>>
        /\ initPc = "idle" /\ cmdPc = "none" /\ mainPc = "ready"
        /\ accepted = <<>> /\ answered = <<>> /\ told = "nothing" /\ closed = FALSE

(* signal_event, on a worker thread: blocks while the pipe is full.        *)
signal_event(e) == Len(events) < PipeSlots /\ events' = Append(events, e)

-----------------------------------------------------------------------------
(* init_thread.  The configuration commands are sent one after the other;  *)
(* the first that gets no OK, or no prompt, ends the initialization.       *)

AfterInitCommand == [reset |-> "echo", echo |-> "headers",
                     headers |-> "protocol", protocol |-> "complete"]

InitCommand ==
    /\ initPc \in InitCommands
    /\ \/ initPc' = AfterInitCommand[initPc]
       \/ initPc' = "report"           \* runtime_error: m_error_string is set
       \* std::stoi throws invalid_argument, which the handler does not catch
       \/ initPc = "protocol" /\ ~ProtocolParses /\ initPc' = "thrown"
    /\ UNCHANGED <<queueVars, stateVars, deviceVars, userVars, events, cmdPc, mainPc>>

InitComplete ==
    /\ initPc = "complete" /\ initPc' = "spawn"
    /\ m_init_complete' = TRUE
    /\ UNCHANGED <<queueVars, m_disconnect_in_progress, m_init_result, m_init_callback,
                   m_disconnect_callback, m_command_thread, deviceVars, userVars,
                   events, cmdPc, mainPc>>

(* make_unique<std::thread>: the thread runs before its pointer is stored. *)
InitSpawn ==
    /\ initPc = "spawn" /\ initPc' = "store"
    /\ cmdPc' = "outer"
    /\ UNCHANGED <<queueVars, stateVars, deviceVars, userVars, events, mainPc>>

InitStore ==
    /\ initPc = "store" /\ initPc' = "report"
    /\ m_command_thread' = TRUE
    /\ UNCHANGED <<queueVars, m_init_complete, m_disconnect_in_progress, m_init_result,
                   m_init_callback, m_disconnect_callback, deviceVars, userVars,
                   events, cmdPc, mainPc>>

(* Mutant: only a successful initialization is signalled.                  *)
InitReportSuccess ==
    /\ initPc = "report" /\ m_init_complete /\ initPc' = "done"
    /\ signal_event("InitDone")
    /\ UNCHANGED <<queueVars, stateVars, deviceVars, userVars, cmdPc, mainPc>>

InitReport ==
    /\ initPc = "report" /\ initPc' = "done"
    /\ signal_event("InitDone")
    /\ UNCHANGED <<queueVars, stateVars, deviceVars, userVars, cmdPc, mainPc>>

init_thread == InitCommand \/ InitComplete \/ InitSpawn \/ InitStore \/ InitReport

-----------------------------------------------------------------------------
(* command_thread.                                                         *)

(* while(!m_disconnect_in_progress)                                        *)
ThreadOuter ==
    /\ cmdPc = "outer"
    /\ cmdPc' = IF m_disconnect_in_progress THEN "exit" ELSE "acquire"
    /\ UNCHANGED <<queueVars, stateVars, deviceVars, userVars, events, initPc, mainPc>>

(* Mutant: the semaphore is taken without waiting for it.                  *)
ThreadAcquireNoWait ==
    /\ cmdPc = "acquire" /\ cmdPc' = "inner"
    /\ m_cmd_semaphore' = m_cmd_semaphore - 1
    /\ UNCHANGED <<m_cmd_queue, m_completion_queue, stateVars, deviceVars, userVars,
                   events, initPc, mainPc>>

ThreadAcquire ==
    /\ cmdPc = "acquire" /\ cmdPc' = "inner"
    /\ m_cmd_semaphore > 0 /\ m_cmd_semaphore' = m_cmd_semaphore - 1
    /\ UNCHANGED <<m_cmd_queue, m_completion_queue, stateVars, deviceVars, userVars,
                   events, initPc, mainPc>>

(* What m_cmd_queue.empty(), read without the lock, can return: while the  *)
(* main thread is inside emplace, the element it adds may not be seen.     *)
EmptyReads == {m_cmd_queue = <<>>} \cup
              IF mainPc = "emplaced" /\ Len(m_cmd_queue) = 1 THEN {TRUE} ELSE {}

(* while(!m_cmd_queue.empty() && !m_disconnect_in_progress)                *)
ThreadInner ==
    /\ cmdPc = "inner"
    /\ \E empty \in EmptyReads :
         cmdPc' = IF ~empty /\ ~m_disconnect_in_progress THEN "take" ELSE "outer"
    /\ UNCHANGED <<queueVars, stateVars, deviceVars, userVars, events, initPc, mainPc>>

(* Mutant: the header is sent once, for the first command only.            *)
HeaderSentOnce(c) == m_current_obd_address = 0
NeedsHeader(c) == m_current_obd_address # Address[c]

(* get_next_cmd, which waits for the lock send_command holds.              *)
ThreadTake ==
    /\ cmdPc = "take" /\ mainPc # "emplaced"
    /\ command' = Head(m_cmd_queue) /\ m_cmd_queue' = Tail(m_cmd_queue)
    /\ cmdPc' = IF NeedsHeader(command') THEN "header" ELSE "send"
    /\ UNCHANGED <<m_cmd_semaphore, m_completion_queue, stateVars, m_current_obd_address,
                   line, deviceHeader, userVars, events, initPc, mainPc>>

(* send_command(string): write, then read until a prompt or a timeout.     *)
(* The first prompt ends the read, and what was buffered behind it is      *)
(* discarded.  The write, or the adapter's reply, may be lost on the way.  *)
Arrived(reply) == {Append(line, reply)} \cup IF DeviceTimely THEN {} ELSE {line}

Exchange(reply, response) ==
    \E arrived \in Arrived(reply) :
      \/ /\ arrived # <<>> /\ response = Head(arrived)
         /\ \E n \in 1..Len(arrived) : line' = SubSeq(arrived, n + 1, Len(arrived))
      \/ ~DeviceTimely /\ response = NoReply /\ line' = arrived

(* Mutant: the adapter's reply to ATSH is not read.                        *)
ThreadHeaderNoRead ==
    /\ cmdPc = "header" /\ cmdPc' = "send"
    /\ line' = Append(line, HeaderReply)
    /\ m_current_obd_address' = Address[command] /\ deviceHeader' = Address[command]
    /\ UNCHANGED <<queueVars, stateVars, command, userVars, events, initPc, mainPc>>

(* set_header: its result is not used.  The adapter takes the header over  *)
(* if the command reaches it.                                              *)
ThreadHeader ==
    /\ cmdPc = "header" /\ cmdPc' = "send"
    /\ \E response \in Replies \cup {NoReply} : Exchange(HeaderReply, response)
    /\ m_current_obd_address' = Address[command]
    /\ deviceHeader' \in {Address[command]} \cup IF DeviceTimely THEN {} ELSE {deviceHeader}
    /\ UNCHANGED <<queueVars, stateVars, command, userVars, events, initPc, mainPc>>

(* Mutant: a command without reply gets no completion, but is signalled.   *)
ThreadSendReplyOnly ==
    /\ cmdPc = "send" /\ cmdPc' = "signal"
    /\ \E response \in Replies \cup {NoReply} :
         /\ Exchange(command, response)
         /\ m_completion_queue' = IF response = NoReply THEN m_completion_queue
                                  ELSE Append(m_completion_queue, [callback |-> command,
                                                                   obd_data |-> response])
    /\ UNCHANGED <<m_cmd_queue, m_cmd_semaphore, stateVars, m_current_obd_address, command,
                   deviceHeader, userVars, events, initPc, mainPc>>

(* send_command, string_to_completion and send_completion.                 *)
ThreadSend ==
    /\ cmdPc = "send" /\ cmdPc' = "signal"
    /\ \E response \in Replies \cup {NoReply} :
         /\ Exchange(command, response)
         /\ m_completion_queue' = Append(m_completion_queue, [callback |-> command,
                                                              obd_data |-> response])
    /\ UNCHANGED <<m_cmd_queue, m_cmd_semaphore, stateVars, m_current_obd_address, command,
                   deviceHeader, userVars, events, initPc, mainPc>>

ThreadSignal ==
    /\ cmdPc = "signal" /\ cmdPc' = "inner"
    /\ signal_event("CommandComplete")
    /\ UNCHANGED <<queueVars, stateVars, deviceVars, userVars, initPc, mainPc>>

ThreadExit ==
    /\ cmdPc = "exit" /\ cmdPc' = "finished"
    /\ signal_event("CommandThreadExit")
    /\ UNCHANGED <<queueVars, stateVars, deviceVars, userVars, initPc, mainPc>>

command_thread == \/ ThreadOuter \/ ThreadAcquire \/ ThreadInner \/ ThreadTake
                  \/ ThreadHeader \/ ThreadSend \/ ThreadSignal \/ ThreadExit

-----------------------------------------------------------------------------
(* The main thread: calls of the user, and process_event.                  *)

init == /\ mainPc = "ready"
        /\ ~m_init_result /\ ~m_init_complete /\ ~m_init_callback
        /\ m_init_callback' = TRUE /\ m_init_result' = TRUE
        /\ initPc' = "reset"
        /\ UNCHANGED <<queueVars, m_init_complete, m_disconnect_in_progress,
                       m_disconnect_callback, m_command_thread, deviceVars, userVars,
                       events, cmdPc, mainPc>>

(* The user calls nothing before init's callback said that init succeeded, *)
(* or, if it is early, relies on is_connected() and may call sooner.       *)
UserMayCall == mainPc = "ready" /\ (told = "connected" \/ EarlyUser)

(* Mutant: commands are queued before the driver is initialized.           *)
SendCommandAnytime(c) ==
    /\ UserMayCall /\ \A i \in DOMAIN accepted : accepted[i] # c
    /\ ~m_disconnect_in_progress
    /\ m_cmd_queue' = Append(m_cmd_queue, c)
    /\ accepted' = Append(accepted, c)
    /\ mainPc' = "emplaced"
    /\ UNCHANGED <<m_cmd_semaphore, m_completion_queue, stateVars, deviceVars, answered,
                   told, closed, events, initPc, cmdPc>>

(* send_command(address, ...), up to the release of the semaphore, under   *)
(* the lock of the command queue.                                          *)
SendCommand(c) ==
    /\ UserMayCall /\ \A i \in DOMAIN accepted : accepted[i] # c
    /\ m_init_complete /\ ~m_disconnect_in_progress
    /\ m_cmd_queue' = Append(m_cmd_queue, c)
    /\ accepted' = Append(accepted, c)
    /\ mainPc' = "emplaced"
    /\ UNCHANGED <<m_cmd_semaphore, m_completion_queue, stateVars, deviceVars, answered,
                   told, closed, events, initPc, cmdPc>>

(* Mutant: the semaphore is not released.                                  *)
SendNoRelease ==
    /\ mainPc = "emplaced" /\ mainPc' = "ready"
    /\ UNCHANGED <<queueVars, stateVars, deviceVars, userVars, events, initPc, cmdPc>>

SendRelease ==
    /\ mainPc = "emplaced" /\ mainPc' = "ready"
    /\ m_cmd_semaphore' = m_cmd_semaphore + 1
    /\ UNCHANGED <<m_cmd_queue, m_completion_queue, stateVars, deviceVars, userVars,
                   events, initPc, cmdPc>>

(* Mutant: the command thread is not woken.                                *)
DisconnectNoRelease ==
    /\ UserMayCall
    /\ ~m_disconnect_in_progress /\ m_init_complete /\ ~m_disconnect_callback
    /\ m_disconnect_in_progress' = TRUE /\ m_init_complete' = FALSE
    /\ m_disconnect_callback' = TRUE
    /\ UNCHANGED <<queueVars, m_init_result, m_init_callback, m_command_thread,
                   deviceVars, userVars, events, initPc, cmdPc, mainPc>>

disconnect ==
    /\ UserMayCall
    /\ ~m_disconnect_in_progress /\ m_init_complete /\ ~m_disconnect_callback
    /\ m_disconnect_in_progress' = TRUE /\ m_init_complete' = FALSE
    /\ m_disconnect_callback' = TRUE
    /\ m_cmd_semaphore' = m_cmd_semaphore + 1
    /\ UNCHANGED <<m_cmd_queue, m_completion_queue, m_init_result, m_init_callback,
                   m_command_thread, deviceVars, userVars, events, initPc, cmdPc, mainPc>>

Process(e) == /\ mainPc = "ready" /\ events # <<>> /\ Head(events) = e
              /\ events' = Tail(events)

init_done == /\ Process("InitDone") /\ m_init_callback
             /\ told' = IF m_init_complete THEN "connected" ELSE "failed"
             /\ m_init_callback' = FALSE
             /\ UNCHANGED <<queueVars, m_init_complete, m_disconnect_in_progress,
                            m_init_result, m_disconnect_callback, m_command_thread,
                            deviceVars, accepted, answered, closed, initPc, cmdPc, mainPc>>

command_complete ==
    /\ Process("CommandComplete") /\ m_completion_queue # <<>>
    /\ answered' = Append(answered, Head(m_completion_queue))
    /\ m_completion_queue' = Tail(m_completion_queue)
    /\ UNCHANGED <<m_cmd_queue, m_cmd_semaphore, stateVars, deviceVars, accepted, told,
                   closed, initPc, cmdPc, mainPc>>

(* The join waits for the thread, which has nothing left to do.            *)
command_thread_exit ==
    /\ Process("CommandThreadExit") /\ m_command_thread /\ cmdPc = "finished"
    /\ m_command_thread' = FALSE
    /\ m_init_complete' = FALSE /\ m_disconnect_in_progress' = FALSE
    /\ m_cmd_queue' = <<>> /\ m_completion_queue' = <<>>
    /\ closed' = TRUE
    /\ UNCHANGED <<m_cmd_semaphore, m_init_result, m_init_callback, m_disconnect_callback,
                   deviceVars, accepted, answered, told, initPc, cmdPc, mainPc>>

(* command_thread_exit before init_thread has stored the pointer: join on  *)
(* a null unique_ptr ends the program.                                     *)
JoinNull ==
    /\ Process("CommandThreadExit") /\ ~m_command_thread
    /\ mainPc' = "crashed"
    /\ UNCHANGED <<queueVars, stateVars, deviceVars, userVars, initPc, cmdPc>>

process_event == init_done \/ command_complete \/ command_thread_exit \/ JoinNull

User == init \/ disconnect \/ \E c \in Commands : SendCommand(c)

Next == init_thread \/ command_thread \/ User \/ SendRelease \/ process_event

(* The scheduler runs every thread, the main loop processes events, and a  *)
(* read of the serial line returns; the user need not call anything.       *)
Spec == /\ Init /\ [][Next]_vars
        /\ WF_vars(init_thread) /\ WF_vars(command_thread)
        /\ WF_vars(SendRelease) /\ WF_vars(process_event)
-----------------------------------------------------------------------------
InitPcs == InitCommands \cup {"idle", "complete", "spawn", "store", "report", "done", "thrown"}
CmdPcs == {"none", "outer", "acquire", "inner", "take", "header", "send", "signal",
           "exit", "finished"}
Completions == [callback : Commands, obd_data : Replies \cup {NoReply}]
EventNames == {"InitDone", "CommandComplete", "CommandThreadExit"}

FlagsTypeOK ==
    /\ m_init_complete \in BOOLEAN /\ m_disconnect_in_progress \in BOOLEAN
    /\ m_init_result \in BOOLEAN /\ m_init_callback \in BOOLEAN
    /\ m_disconnect_callback \in BOOLEAN /\ m_command_thread \in BOOLEAN
    /\ closed \in BOOLEAN

DataTypeOK ==
    /\ m_cmd_queue \in Seq(Commands) /\ m_cmd_semaphore \in Nat
    /\ m_completion_queue \in Seq(Completions)
    /\ m_current_obd_address \in Nat /\ deviceHeader \in Nat
    /\ events \in Seq(EventNames)
    /\ initPc \in InitPcs /\ cmdPc \in CmdPcs
    /\ mainPc \in {"ready", "emplaced", "crashed"}
    /\ command \in Commands /\ line \in Seq(Replies)
    /\ accepted \in Seq(Commands) /\ answered \in Seq(Completions)
    /\ told \in {"nothing", "connected", "failed"}

(* The values each variable can take.                                      *)
TypeOK == FlagsTypeOK /\ DataTypeOK

(* The handler of the next event finds what it uses: init_done a callback, *)
(* command_complete a completion to pop, command_thread_exit a callback    *)
(* and no completion whose callback it would throw away by clearing the    *)
(* queue.                                                                  *)
HandlersFindState ==
    events # <<>> =>
        CASE Head(events) = "InitDone" -> m_init_callback
          [] Head(events) = "CommandComplete" -> m_completion_queue # <<>>
          [] OTHER -> m_disconnect_callback /\ m_completion_queue = <<>>

(* No lost wakeup: a command thread about to sleep on the semaphore while  *)
(* a command is queued, or while disconnect is in progress, is woken.      *)
WakeupPending ==
    /\ /\ cmdPc \in {"outer", "acquire"} /\ m_cmd_queue # <<>>
       /\ ~m_disconnect_in_progress
       => m_cmd_semaphore > 0 \/ mainPc = "emplaced"
    /\ cmdPc = "acquire" /\ m_disconnect_in_progress => m_cmd_semaphore > 0

(* A command's callback is given the adapter's reply to that command, or   *)
(* nothing when the adapter did not answer, never a reply to another.      *)
ResponseMatches ==
    \A i \in DOMAIN answered : answered[i].obd_data \in {answered[i].callback, NoReply}

(* When a command goes out, the adapter's header is the address the user   *)
(* asked for: the cached m_current_obd_address agrees with the device.     *)
SentToItsAddress == cmdPc = "send" => deviceHeader = Address[command]

(* init: the callback given to init is called, with success or failure.    *)
InitReported == m_init_callback ~> told # "nothing"

(* The driver seen as a CommandService: a command is completed when its    *)
(* callback is called.                                                     *)
Phase == CASE closed -> "closed"
           [] ~closed /\ m_disconnect_in_progress -> "closing"
           [] ~closed /\ ~m_disconnect_in_progress /\ m_init_complete -> "open"
           [] OTHER -> "down"

Service == INSTANCE CommandService
             WITH Requests <- Commands, phase <- Phase,
                  completed <- [i \in DOMAIN answered |-> answered[i].callback]

(* Accepted commands are completed in order, at most once, never after the *)
(* disconnection is reported ...                                           *)
ImplementsServiceSafety == Service!ServiceSafety

(* ... and every accepted command is completed unless a disconnection is   *)
(* reported first, which it is once it has been asked for.                 *)
ImplementsService == Service!ServiceSpec
=============================================================================
