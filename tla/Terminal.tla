------------------------------ MODULE Terminal ------------------------------
(***************************************************************************)
(* terminal.cpp: the view in which the user talks to the device.  The main *)
(* thread runs the slots and the keys; a reader thread reads the hardware  *)
(* interface and announces data by a queued signal.  The text is a         *)
(* sequence of cells, and what one read returns is one cell, its number.   *)
(* Positions are those of QTextCursor: p has p cells before it.            *)
(***************************************************************************)
EXTENDS Naturals, Sequences

CONSTANTS Keys,            \* characters the user types
          Prompt, Newline, \* the cells the program writes itself
          MaxData,         \* bound on the reads that return data
          MaxShows,        \* bound on the times the view is shown
          MaxText          \* bound on the text when a key is typed

Data == 1..MaxData
Cells == Keys \cup Data \cup {Prompt, Newline}

ASSUME TerminalAssumption == MaxData \in Nat /\ MaxShows \in Nat /\ MaxText \in Nat

VARIABLES
  view,                    \* "terminal" or another view, "home"
  m_stop_reader, m_reader_stopped,
  m_reader_thread,         \* "null", "joinable" or "joined"
  m_read_buffer,
  notifications,           \* signals read_data_available not handled yet
  readerPc, tempBuffer,    \* the reader thread: where it is, what it read last
  mainPc,                  \* "idle", or where a slot is
  m_input_begin,
  text, cursor,            \* the text view
  shows, typed, shown,     \* history: calls of on_show for this view, the input as the user
                           \* edited it, the data shown since the view was last shown
  erased                   \* history: the user erased text in front of this input

readerVars == <<m_stop_reader, m_reader_stopped, m_reader_thread, readerPc, tempBuffer>>
bufferVars == <<m_read_buffer, notifications>>
textVars == <<text, cursor, m_input_begin, typed, shown, erased>>
vars == <<view, readerVars, bufferVars, mainPc, textVars, shows>>

Init == /\ view = "home" /\ shows = 0
        /\ m_stop_reader = FALSE /\ m_reader_stopped = TRUE /\ m_reader_thread = "null"
        /\ m_read_buffer = <<>> /\ notifications = 0
        /\ readerPc = "none" /\ tempBuffer = 0 /\ mainPc = "idle"
        /\ text = <<>> /\ cursor = 0 /\ m_input_begin = 0 /\ typed = <<>> /\ shown = <<>>
        /\ erased = FALSE

-----------------------------------------------------------------------------
(* read_data, on the reader thread.                                        *)

ReaderTest == /\ readerPc = "test"
              /\ readerPc' = IF m_stop_reader THEN "stop" ELSE "read"
              /\ UNCHANGED <<view, m_stop_reader, m_reader_stopped, m_reader_thread, tempBuffer,
                             bufferVars, mainPc, textVars, shows>>

(* Mutant: a read that returns nothing is announced too.                   *)
ReaderReadAnnounced ==
    /\ readerPc = "read"
    /\ \/ /\ tempBuffer < MaxData
          /\ tempBuffer' = tempBuffer + 1 /\ readerPc' = "append" /\ UNCHANGED notifications
       \/ readerPc' = "test" /\ notifications' = notifications + 1 /\ UNCHANGED tempBuffer
    /\ UNCHANGED <<view, m_stop_reader, m_reader_stopped, m_reader_thread, m_read_buffer, mainPc,
                   textVars, shows>>

(* The read returns data, or nothing when it times out.                    *)
ReaderRead ==
    /\ readerPc = "read"
    /\ \/ /\ tempBuffer < MaxData
          /\ tempBuffer' = tempBuffer + 1 /\ readerPc' = "append"
       \/ readerPc' = "test" /\ UNCHANGED tempBuffer
    /\ UNCHANGED <<view, m_stop_reader, m_reader_stopped, m_reader_thread, bufferVars, mainPc,
                   textVars, shows>>

(* Mutant: the data is not announced.                                      *)
ReaderAppendSilently ==
    /\ readerPc = "append" /\ readerPc' = "test"
    /\ m_read_buffer' = Append(m_read_buffer, tempBuffer)
    /\ UNCHANGED <<view, m_stop_reader, m_reader_stopped, m_reader_thread, tempBuffer,
                   notifications, mainPc, textVars, shows>>

ReaderAppend ==
    /\ readerPc = "append" /\ readerPc' = "test"
    /\ m_read_buffer' = Append(m_read_buffer, tempBuffer)
    /\ notifications' = notifications + 1
    /\ UNCHANGED <<view, m_stop_reader, m_reader_stopped, m_reader_thread, tempBuffer, mainPc,
                   textVars, shows>>

ReaderStop == /\ readerPc = "stop" /\ readerPc' = "ended"
              /\ m_reader_stopped' = TRUE
              /\ UNCHANGED <<view, m_stop_reader, m_reader_thread, tempBuffer, bufferVars, mainPc,
                             textVars, shows>>

read_data == ReaderTest \/ ReaderRead \/ ReaderAppend \/ ReaderStop

-----------------------------------------------------------------------------
(* The slots, on the main thread.                                          *)

(* start_reader_thread, which waits in join for a thread not joined yet.   *)
start_reader_thread ==
    /\ mainPc = "start" /\ mainPc' = "idle"
    /\ m_reader_thread = "joinable" => readerPc = "ended"
    /\ m_reader_stopped' = FALSE /\ m_read_buffer' = <<>>
    /\ m_reader_thread' = "joinable" /\ readerPc' = "test"
    /\ UNCHANGED <<view, m_stop_reader, tempBuffer, notifications, textVars, shows>>

Insert(s, p, c) == SubSeq(s, 1, p) \o <<c>> \o SubSeq(s, p + 1, Len(s))

(* Moving the cursor to a position behind the text does nothing.           *)
InputAt == IF m_input_begin <= Len(text) THEN m_input_begin ELSE cursor

(* Mutant: the start of the input stays where it was.                      *)
ShowDataBeforeInput ==
    /\ text' = SubSeq(text, 1, InputAt) \o m_read_buffer \o SubSeq(text, InputAt + 1, Len(text))
    /\ cursor' = Len(text') /\ UNCHANGED m_input_begin

(* The data goes in front of the input the user is typing.                 *)
ShowData ==
    /\ text' = SubSeq(text, 1, InputAt) \o m_read_buffer \o SubSeq(text, InputAt + 1, Len(text))
    /\ cursor' = Len(text') /\ m_input_begin' = InputAt + Len(m_read_buffer)

(* Mutant: the buffer is shown and kept.                                   *)
NotifiedKeepingBuffer ==
    /\ mainPc = "idle" /\ notifications > 0 /\ ~m_reader_stopped
    /\ notifications' = notifications - 1
    /\ ShowData /\ shown' = shown \o m_read_buffer
    /\ UNCHANGED <<view, readerVars, m_read_buffer, mainPc, typed, erased, shows>>

(* reader_notification while the reader runs.                              *)
NotifiedOfData ==
    /\ mainPc = "idle" /\ notifications > 0 /\ ~m_reader_stopped
    /\ notifications' = notifications - 1
    /\ ShowData /\ shown' = shown \o m_read_buffer /\ m_read_buffer' = <<>>
    /\ UNCHANGED <<view, readerVars, mainPc, typed, erased, shows>>

(* reader_notification after the reader stopped: join throws for a thread  *)
(* joined already, which ends the program, and otherwise waits.  A reader  *)
(* stopped by a view left and shown again meanwhile is started anew.       *)
NotifiedAfterStop ==
    /\ mainPc = "idle" /\ notifications > 0 /\ m_reader_stopped
    /\ notifications' = notifications - 1
    /\ \/ /\ m_reader_thread = "joinable" /\ readerPc = "ended"
          /\ m_reader_thread' = "joined"
          /\ mainPc' = IF m_stop_reader THEN "idle" ELSE "start"
       \/ /\ m_reader_thread # "joinable"
          /\ mainPc' = "terminated" /\ UNCHANGED m_reader_thread
    /\ UNCHANGED <<view, m_stop_reader, m_reader_stopped, readerPc, tempBuffer, m_read_buffer,
                   textVars, shows>>

reader_notification == NotifiedOfData \/ NotifiedAfterStop

(* on_show, up to the test of m_reader_stopped.                            *)
on_show ==
    /\ mainPc = "idle" /\ view = "home" /\ shows < MaxShows
    /\ view' = "terminal" /\ shows' = shows + 1
    /\ text' = <<Prompt>> /\ cursor' = 1 /\ m_input_begin' = 1
    /\ typed' = <<>> /\ shown' = <<>> /\ erased' = FALSE
    /\ m_stop_reader' = FALSE /\ mainPc' = "shown"
    /\ UNCHANGED <<m_reader_stopped, m_reader_thread, readerPc, tempBuffer, bufferVars>>

(* Mutant: a reader is started whether or not one runs.                    *)
OnShowStartAlways ==
    /\ mainPc = "shown" /\ mainPc' = "start"
    /\ UNCHANGED <<view, readerVars, bufferVars, textVars, shows>>

OnShowStart ==
    /\ mainPc = "shown"
    /\ mainPc' = IF m_reader_stopped THEN "start" ELSE "idle"
    /\ UNCHANGED <<view, readerVars, bufferVars, textVars, shows>>

(* Mutant: the reader is not told to stop.                                 *)
LeaveReaderRunning ==
    /\ mainPc = "idle" /\ view = "terminal" /\ view' = "home"
    /\ UNCHANGED <<readerVars, bufferVars, mainPc, textVars, shows>>

home_clicked ==
    /\ mainPc = "idle" /\ view = "terminal" /\ view' = "home"
    /\ m_stop_reader' = TRUE
    /\ UNCHANGED <<m_reader_stopped, m_reader_thread, readerPc, tempBuffer, bufferVars, mainPc,
                   textVars, shows>>

(* The destructor, which waits for the reader.                             *)
Destroy == /\ mainPc = "idle" /\ mainPc' = "joining" /\ m_stop_reader' = TRUE
           /\ UNCHANGED <<view, m_reader_stopped, m_reader_thread, readerPc, tempBuffer,
                          bufferVars, textVars, shows>>

Destroyed == /\ mainPc = "joining" /\ mainPc' = "destroyed"
             /\ \/ /\ m_reader_thread = "joinable" /\ readerPc = "ended"
                   /\ m_reader_thread' = "joined"
                \/ m_reader_thread # "joinable" /\ UNCHANGED m_reader_thread
             /\ UNCHANGED <<view, m_stop_reader, m_reader_stopped, readerPc, tempBuffer,
                            bufferVars, textVars, shows>>

-----------------------------------------------------------------------------
(* The keys (eventFilter, then the text view), and the mouse.              *)

Typing == /\ mainPc = "idle" /\ view = "terminal"
          /\ UNCHANGED <<view, readerVars, bufferVars, mainPc, shown, shows>>

reset_cursor == IF cursor < m_input_begin THEN Len(text) ELSE cursor

Type(k) == /\ Typing /\ Len(text) < MaxText
           /\ text' = Insert(text, reset_cursor, k)
           /\ cursor' = reset_cursor + 1
           /\ typed' = IF erased THEN <<>> ELSE Insert(typed, reset_cursor - m_input_begin, k)
           /\ UNCHANGED <<m_input_begin, erased>>

Without(s, p) == SubSeq(s, 1, p - 1) \o SubSeq(s, p + 1, Len(s))

(* Backspace is not stopped at m_input_begin.                              *)
Backspace == /\ Typing /\ reset_cursor > 0
             /\ text' = Without(text, reset_cursor)
             /\ cursor' = reset_cursor - 1
             /\ erased' = (erased \/ reset_cursor <= m_input_begin)
             /\ typed' = IF erased' THEN <<>> ELSE Without(typed, reset_cursor - m_input_begin)
             /\ UNCHANGED m_input_begin

Left == /\ Typing /\ cursor # m_input_begin /\ reset_cursor > 0
        /\ cursor' = reset_cursor - 1
        /\ UNCHANGED <<text, typed, erased, m_input_begin>>

Click(p) == Typing /\ cursor' = p /\ UNCHANGED <<text, typed, erased, m_input_begin>>

(* text_entered writes the text behind m_input_begin to the device.        *)
Enter == /\ Typing /\ Len(text) < MaxText
         /\ text' = Append(text, Newline)
         /\ cursor' = Len(text') /\ m_input_begin' = Len(text')
         /\ typed' = <<>> /\ erased' = FALSE

User == \/ on_show \/ home_clicked \/ Destroy
        \/ \E k \in Keys : Type(k)
        \/ Backspace \/ Left \/ Enter
        \/ \E p \in 0..Len(text) : Click(p)

Slots == start_reader_thread \/ reader_notification \/ OnShowStart \/ Destroyed

Next == read_data \/ Slots \/ User

(* Both threads run, and the main loop delivers queued signals.            *)
Spec == Init /\ [][Next]_vars /\ WF_vars(read_data) /\ WF_vars(Slots)
-----------------------------------------------------------------------------
(* The values each variable can take.                                      *)
TypeOK ==
    /\ view \in {"home", "terminal"} /\ shows \in 0..MaxShows
    /\ {m_stop_reader, m_reader_stopped} \subseteq BOOLEAN
    /\ m_reader_thread \in {"null", "joinable", "joined"}
    /\ m_read_buffer \in Seq(Data) /\ notifications \in 0..MaxData
    /\ readerPc \in {"none", "test", "read", "append", "stop", "ended"}
    /\ tempBuffer \in 0..MaxData
    /\ mainPc \in {"idle", "shown", "start", "joining", "destroyed", "terminated"}
    /\ text \in Seq(Cells) /\ typed \in Seq(Keys) /\ shown \in Seq(Data)
    /\ cursor \in 0..Len(text) /\ m_input_begin \in Nat
    /\ erased \in BOOLEAN
    /\ ~erased => m_input_begin <= Len(text)

(* The user interface is never blocked in join: when the main thread joins *)
(* the reader, the reader has nothing left to do.                          *)
JoinDoesNotWait == mainPc = "start" => readerPc \in {"none", "ended"}

(* Data in the buffer of a running reader is announced: a notification     *)
(* that will show it is on its way.                                        *)
DataAnnounced == m_read_buffer # <<>> /\ ~m_reader_stopped => notifications > 0

(* What is shown and what waits to be shown is in the order of the reads,  *)
(* and nothing twice.                                                      *)
InOrder(s) == \A i, j \in DOMAIN s : i < j => s[i] < s[j]

ShownInOrder == InOrder(shown \o m_read_buffer)

(* The text behind m_input_begin, which Enter sends to the device, is the  *)
(* input the user edited, whatever arrives while it is typed and wherever  *)
(* the mouse is clicked; as long as the user erases none of the text in    *)
(* front of it, which makes the next character typed part of that text.    *)
InputIntact == view = "terminal" /\ ~erased => SubSeq(text, m_input_begin + 1, Len(text)) = typed

(* The reader thread is joined at most once: join does not throw.          *)
JoinedOnce == mainPc # "terminated"

(* Data read is shown, unless its reader stops.                            *)
DataShown == m_read_buffer # <<>> ~> m_read_buffer = <<>> \/ m_reader_stopped

(* Leaving the view, or ending the program, stops the reader.              *)
ReaderStops == view = "home" \/ mainPc = "joining"
                 ~> \/ m_reader_stopped
                    \/ view = "terminal" /\ mainPc # "joining"

=============================================================================
