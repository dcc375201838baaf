# neonobd in TLA+

neonobd is a Qt program that connects a computer to a vehicle through an OBD
adapter, over bluetooth or a serial port. This directory holds TLA+ models of
it, configurations that check them with TLC, and theorems whose proofs TLAPS
checks. File names below are those of `src/src/` without the directory.

Contents: 1 the system, 2 the modules, 3 what the runs check, 4 what is proved,
5 disagreements between code and intent, 6 what is not modelled, 7 the plan.

## 1. The system

Everything but three kinds of worker threads runs on the main thread: Qt's
main loop calls slots, and calls `process_events` of a handler when its
descriptor is readable.

| component | state | operations | threads |
|---|---|---|---|
| EventHandler (`event-handler`) | a pipe in packet mode | `signal_event`, `process_events`, the virtual `process_event` | any / main |
| HardwareInterface (`hardware-interface`) | `m_sock_fd` under a shared mutex, the user input handler | `connect`, `read`, `write`, `connect_user_input` | main, reader, ELM threads |
| SerialPort (`serial-port`) | file, descriptor, a future, a callback | `connect`, `initiate_connection`, `connect_complete` | main, one `std::async` thread |
| BluetoothSerialPort (`bluetooth-serial-port`) | inventory of bluez objects, registration, selected controller, the callbacks of an attempt, a discovery and a disconnection, the connected device's socket | `connect`, `disconnect`, `probe_remote_devices`, `select_controller`, handlers of replies and signals, the methods of the profile and of the pairing agent | main |
| Elm327 (`elm327`, interface `obd-device`; not yet in the build) | command and completion queues, a semaphore, a command thread, an init future, the adapter's current header | `init`, `send_command`, `disconnect`, handlers of three events | main, `init_thread`, `command_thread` |
| Terminal (`terminal`) | text, start of the input, a read buffer, a reader thread with two flags | slots `on_show`, `reader_notification`, `home_clicked`, key filter | main, reader |
| ConnectButton, Home, MainWindow | enabled buttons, current view | clicks, `connect_complete`, prompts | main |
| Settings (`settings`) | the selected interface, four drop-down lists, the values QSettings holds | `on_show`, choices, scans, `get_selected_device` | main |
| DBusType (`dbus-type`) | none | reading a value from a D-Bus message | main |
| Obd (`obd`) | unfinished: not in the build | | |
| Logger, types, exceptions | none | output | |

How they interact:

* A worker thread tells the main thread something by `signal_event`, a write to
  the pipe of its EventHandler; SerialPort uses it for `ConnectComplete`, Elm327
  for `InitDone`, `CommandComplete` and `CommandThreadExit`. The terminal's
  reader emits a Qt signal, which Qt queues.
* BluetoothSerialPort talks to bluez over sd-bus: calls it sends are answered
  later, signals and method calls arrive at any time, and a timer drives the
  discovery. All of it is handled in `process_events`, in the order of arrival.
* ConnectButton disables the window, installs a user input handler, calls
  `connect` of the selected interface, and undoes the first two when it is
  called back. During an attempt bluez may ask the pairing agent a question,
  which opens a modal dialog whose event loop runs inside the sd-bus handler.
* Terminal and Elm327 read and write the selected interface from their threads,
  under a lock that the main thread takes alone to exchange the socket.
* Settings stores what the lists show, also while they are being filled, and
  ConnectButton asks it for the device and has the controller selected.

What is hard about it: threads that hand over data through flags, queues and a
pipe without a common lock (Elm327, Terminal, SerialPort); chains of
asynchronous calls each of which must end the one before (discovery,
connection); an inventory that is built from a snapshot and a stream of changes, by a daemon
that may crash; a socket exchanged under its reader; lists whose slots run while
they are filled; a modal dialog inside a handler; replies that come late or
never, and replies and messages that are read by position. The hazards
are listed one by one, with line and property, in `PROJECT.json`.

What makes each component correct:

* EventHandler: every signalled string is handled once, whole, in order, eventually.
* Elm327: accepted commands are answered one by one, in order, each with its own
  response, unless a disconnection is reported first; init is always reported; a
  callback is given the bytes the adapter's text says.
* BluetoothSerialPort: an attempt ends, is completed by its own reply only, and is
  always served by something; a discovery ends, and does not go on in an adapter
  without an error; the inventory is what bluez has; a socket has a known owner; the
  messages that tell of all this
  are read for what they mean.
* HardwareInterface: a socket is not closed under a read, none is leaked, and the
  main thread is not kept from it.
* Settings: a choice is kept until the user makes another; an attempt is made with
  what is displayed; a scan that can be started has a controller.
* SerialPort: an accepted attempt is answered once, and truthfully.
* Window and pairing agent: the window is unusable exactly during an attempt; a
  prompt belongs to an attempt, and every request is answered.
* Terminal: what is read is shown, once and in order; what the user types stays
  apart from it; the main thread does not wait for the reader; a view that is
  left stops it.

## 2. The modules

| module | models | composes / refines |
|---|---|---|
| `EventChannel` | the promise of EventHandler | |
| `EventHandler` | `event-handler.cpp`, read by read | implements `EventChannel` |
| `CommandService` | the promise of `obd-device.hpp` | |
| `Elm327` | `elm327.cpp`: three threads, the adapter's line | uses a FIFO for the pipe, implements `CommandService` |
| `ElmText` | the parsing of responses in `elm327.cpp` | extends `Elm327` |
| `ObjectInventory` | the part of `bluetooth-serial-port.cpp` that mirrors bluez's objects | |
| `BluetoothAttempt` | the promise of `BluetoothSerialPort::connect` | |
| `BluetoothSerialPort` | connection, discovery, profile | extends `ObjectInventory`, implements `BluetoothAttempt` |
| `DBusMessage` | `dbus-type.hpp`, `dbus_message_append_dict`: reading and writing a message | |
| `ObjectMessages` | the messages of the inventory, as they are read | extends `ObjectInventory` and `DBusMessage` |
| `HardwareInterface` | `hardware-interface.cpp`: the socket and its lock, the profile that exchanges it, the reader that uses it | |
| `ConnectionAttempt` | the promise of `HardwareInterface::connect` | |
| `SerialPort` | `serial-port.cpp`: an attempt and its thread | implements `ConnectionAttempt` |
| `PairingAgent` | the agent's methods and their dialogs | |
| `UserInterface` | `connect-button.cpp`, `home.cpp`, `mainwindow.cpp` | extends `SerialPort` and `PairingAgent` |
| `Settings` | `settings.cpp`, the stored values, what a connection asks for | |
| `Terminal` | `terminal.cpp` | |
| `MC*` | instances for TLC | |
| `*_proofs` | theorems; `Elm327_proofs` holds those about `ElmText` too, `ObjectMessages_proofs` those about `DBusMessage` | |

Definitions have the names of the code where there is one: a variable with the
name of a member is that member, an action with the name of a function is that
function. A function in which other threads may run between two of its steps is
several actions; everything else is one action per call. `...Pc` variables say
where a thread is. Variables marked "history" are not in the code: they record
what was asked and told, so that properties can speak of it. An operator that
follows "Mutant:" is the code with a plausible bug; it is used by no
specification, and `PROJECT.json` names the property it breaks.

**EventHandler.** A string is a sequence of cells and a Nul, a packet is what one
write puts into the pipe. `Read` takes one packet, as much as the buffer holds
less one byte, and the rest of the packet is lost, as it is for a pipe in packet
mode. `ScanString` is one turn of the inner loop. `SizesAssumption` says that
every string with its Nul leaves one byte of the buffer free, the byte
`process_events` keeps for a Nul of its own.

**Elm327.** `InitCommand` stands for the configuration commands, whose text is
abstracted to three outcomes: as expected, a `runtime_error`, and another
exception. `Exchange` is `send_command(string)`: the reply may be lost, may be
late and stay on the `line`, and the first prompt ends the read. `EmptyReads` is
the unlocked `empty()`, which may not see an `emplace` that is under way.
A command is identified with its callback. `DeviceTimely`, `ProtocolParses` and
`EarlyUser` choose the environment.

**ElmText.** A text is a sequence of what the stream reads at once: a number, a
space, a carriage return, the prompt, or a character that is none of these.
`Extracted` and `peek` are the stringstream's, with its two flags. The reference,
`Said`, is what the lines of the reply say, not the code's loops. `ResponsesRead` is
an invariant over the replies that stand in the completion queue, so that TLC
evaluates it for the commands the driver really exchanged, in both protocols.
A loop of the code is a recursive function of the number of its turns: a turn
(`header_turn`, `data_turn`, `line_turn`) leaves what is over as it is, and one
more turn than the text has cells is enough. The width of a header is left out: the
numbers of a header are bytes, or one CAN identifier, and fit its 32 bits.

**ObjectInventory, BluetoothSerialPort.** bluez is modelled by its objects
(`adapters`, `devices`), the `snapshot` and `signals` on their way, the calls
not answered yet, and what it runs for the program (`discovering`, `linked`). An
adapter that vanishes ends its discovery. The code only logs an error reply to, or a
timeout of, `StartDiscovery` and `StopDiscovery`, and such a reply does not say whether
the adapter discovers: both outcomes are modelled, and so is a call that was not sent.
`unstopped`, a history variable, holds the adapters that go on discovering
after one of these (`GoesOn`, `StartRefused`, `StopAnswered`). A
device path is the pair of an adapter and an address. The call that subscribes
to signals is asynchronous: `match` follows it. `DaemonRestarts` is a crash of
bluetoothd, which systemd starts again: its objects, discoveries and connections
are gone without a signal, and the profile is unknown to the new daemon, because
neither snapshot nor registration is repeated; `current` says whether what the
program knows comes from the daemon that runs. The registration may fail, in
which case bluez never calls the profile (`registered`). Progress runs to `FINISHED`,
100 in the code. `probeWork` is what will advance the discovery. `CallsMayFail`
lets a call fail to be sent, `Prepared` says that the user selects a controller
before he connects or scans, `Patient` that he leaves a discovery alone until it has
finished, `QuietStart` that nothing changes while the program subscribes.

`BluetoothAttempt` is what the caller of `connect` relies on: an accepted call looks
for the device or asks bluez for it, once; it ends with bluez's answer, or with the
discovery that did not find the device. `due` is mapped to the stored callback,
`seeking` to the probe callback that looks for the device, `asked` to the addresses
of the `Connect` calls not answered. With `CallsMayFail`, without a selected
controller, or with a user who does not wait, an attempt may get lost (`MayLose`), which
section 5 describes; otherwise it
must not, and must end. It is weaker than `ConnectionAttempt`, which says whether the port is
open: bluez answers `Connect` whether or not a socket was handed over.

**DBusMessage, ObjectMessages.** A message is a sequence of marks, a basic value or
the start or end of a container; the read position is the number of a mark, and
what is read is a value together with the position behind it. The sd-bus functions
are external: entering a container, leaving it, which fails (the position stays)
unless it was read to its end, and the type of what comes next.
The constructor calls itself for what a container holds. `ReadAt` is one call, given
what the calls inside it read at each position (`nested`), and `Readings` nests it as
deep as the message has marks, which is deep enough. A loop is a function of the
number of its turns in the same way (`Turn`, `Parts`). So everything is a function that
the prover can expand, and none of it is limited to the messages of the runs.
`BasicValue`, `Variant`, `List` and `Dict` are the reference: a value's marks beside
what it means, and `ReadsBack` compares the two.
`MessagesUnderstood` writes the objects of the inventory as bluez does, with
properties of every kind and empty containers, reads the message as the code
does, and compares; it also compares what the program writes with the dictionary
meant.

**HardwareInterface.** Sockets are numbered, and `-1` is `NoSocket`. The lock is
`std::shared_mutex` as glibc implements it by default: threads may go on sharing
it while another waits to have it alone, and the last that leaves hands it to the
one that waits. `ready` is what the device lets happen at once.

**SerialPort, PairingAgent, UserInterface.** The thread of an attempt takes the
steps of `initiate_connection`. bluez's messages stand in `inbox`, also the end of
a bluetooth attempt, because handlers run in the order of arrival and not
inside one another: in a modal dialog the main loop calls `process_events`,
where `sd_event_run` of a loop that is running already returns an error and the
loop in `process_events` ends. Slots that do not go through sd-bus, the serial
port's events, do run inside a dialog. Bluetooth's own side of an attempt is
reduced to two outcomes: something ends it, or it gets lost (`connecting = "lost"`) and
nothing does. `ImplementsAttempt` shows that the second needs a call that was not
sent, a user without a controller or one who does not wait.

**Settings.** A list has its items, its current index and the value QSettings holds
for it. Changing the current index runs the slot that stores the value, whether
the user or the filling of the list changed it: `Filled` inserts the items one by
one, and the first is stored as soon as it is shown, which is why the code reads
the stored value before it fills the list. QSettings keeps what was stored
over `Restart`, and is written nowhere else. The inventory changes at any time
(`ControllersChange`); a scan ends in any view, and lists a device once for each
adapter that sees it, as the code goes through paths (`scan_complete`). `request` is the device
`ConnectButton` asks for.

**Terminal.** The text is a sequence of cells, and what one read returns is one
cell, the number of the read, so that the order of what is shown can be told.
`Destroy` is the destructor. `InputAt` is where data goes: Qt ignores a cursor
position behind the text. `typed` is the input as the user edited it.

## 3. The runs

| run | question | bounds | distinct states |
|---|---|---|---|
| `events` | does the pipe deliver every string once, whole, in order, eventually? | 2 strings, 4 signals, pipe of 2 packets, buffer of 4 bytes | 393 |
| `elm_service` | is the driver a `CommandService` if the adapter answers in time: every accepted command answered in order, with its own response, from its own address, and with the bytes the response says? | 3 commands, 2 addresses, pipe of 2 events, responses of up to 2 lines | 3,779 |
| `elm_early` | with late and lost replies, a failing init and a user who acts early: do handlers find their state, is no wakeup lost, is the order of answers kept? | 2 commands | 111,034 |
| `bt_patient` | are attempts kept as promised and ended, do scans end, does no discovery go on without an error of bluez, does the inventory follow the bus, also over a crash of bluetoothd, are the messages read for what they mean? | 1 adapter, 2 addresses, 2 attempts, 1 crash | 141,952 |
| `bt_impatient` | whatever user, bus and bluez do: is an attempt completed by its own reply only, has a discovery exactly one thing that advances it, has a socket a known owner, is the path map sound? | 2 adapters, 1 address, 2 attempts | 1,240,744 (with the view) |
| `bt_probe_busy` | does an attempt end when the user connects during a scan? | 1 adapter, 1 address, 2 attempts | fails |
| `socket` | is no socket closed under the reader or leaked, and does the main thread get the lock? | 3 sockets | 3,420 |
| `settings` | are choices kept over restarts, scans and the filling of lists, is an attempt made with what is displayed, has a scan a controller? | 2 controllers, 2 devices, 2 serial devices, 3 baud rates | 331,225 |
| `terminal` | is what is read shown once and in order, does input stay apart, does the main thread never wait, does the reader stop? | 2 keys, 2 reads, 2 shows, typing into texts of up to 2 cells | 634,673 |
| `terminal_join` | is the reader joined at most once? | as above | fails |
| `user_interface` | is the window unusable exactly during an attempt and usable again after one that does not get lost, do prompts belong to an attempt, is every request answered, is the serial port truthful? | 3 requests | 31,721 |
| `empty_answer` | is every request answered when empty texts are confirmed? | 3 requests | fails |

The runs marked "fails" show a disagreement (section 5).

Why the bounds are enough. `events`: two strings, one that leaves room and one
that takes all the room of the buffer; a pipe of two packets is full after two
writes; four signals pass through full and empty twice. `elm_*`: three commands
to two addresses send, reuse and change the header; a pipe of two events blocks
the worker threads; replies late by one command are enough to shift every
response; two lines of two modules interleave and repeat a header. `bt_patient`
has two addresses, so that the device wanted and the one that
appears can differ; `bt_impatient` has two adapters that can see the same
device. Two attempts show how the first can disturb the second; two ticks give
a discovery a tick before its last; one signal on its way at a time delays each
change against every other step (the theorems have no such bound). One crash can
fall into any step of an attempt, a discovery or the start. `socket`: the third
socket is stored after the reader had to do with two. `settings`: two of
everything let the displayed, the stored and the selected differ; the third
baud rate is the port's own at the start. `terminal`: two reads and two shows let
data arrive before and during typing, stay in the buffer when the view is left,
and let a reader outlive the showing that started it; two characters of input are
enough to have the cursor before, inside and behind it. `user_interface`: three
requests give one in a dialog, one that waits and one after a Cancel. Adapters,
addresses, devices and serial devices are interchangeable in `bt_impatient` and
`settings`, which declare it as symmetry and have no liveness property.
`bt_impatient` also has a view, `WithoutDiscoveries`: states that differ only in which
adapters bluez has discovering (`discovering`, `unstopped`) count as one. No guard reads
these two variables, no other variable is computed from them, and none of the
run's four invariants speaks of them, so nothing is lost; `bt_patient`, which checks `DiscoveryStopped`, has no view.

`bt_probe_busy` differs from `bt_patient` in one assumption, `Patient`, and has one
address and no crash: a controller is selected and every call is sent, so that only the branch for
a busy discovery can lose an attempt. In its trace a scan runs, the user connects
to an unknown device, and the callback `connect` stored is never called.

Environments. `elm_service` and `bt_patient` ask for everything in an
environment that behaves: replies arrive in time, the user waits for the
callback of init, calls can be sent, the user has selected a controller and lets a
discovery finish, and bluez changes nothing between snapshot and subscription. `elm_early` and
`bt_impatient` drop these assumptions and keep the properties that hold anyway.
Section 5 says what goes wrong without each of them.

Fairness. Weak fairness of each thread (the operating system runs it), of the
handlers (Qt's loop delivers queued signals and readable descriptors), of
bluez's answers (sd-bus turns a missing answer into an error after its timeout)
and timer ticks, of reads (the terminal's reader sets a read timeout; the
driver sets none, but no liveness of the driver is claimed for an adapter that
does not answer; in `HardwareInterface` a read or write returns when it is ready
or timed, and neither is fair otherwise), and, in `UserInterface`, of closing a modal dialog (the
window cannot be used otherwise) and of the end of a bluetooth attempt
that did not get lost. No user
action, no appearance of a device, no link loss is fair.

Deadlock is checked where the program never stops. It is off for `EventHandler`
(the number of signals is bounded), `Elm327` (after a disconnection the driver
cannot be initialized again, so everything stops), `Terminal` (the
program is destroyed) and `UserInterface` (a bluetooth attempt that got lost leaves
the window without an enabled button, section 5).

## 4. What is proved

For every value of the constants (any number of commands, addresses, adapters,
attempts, signals on their way, crashes, sockets, reads, requests and shows, any
pipe size):

| theorem | module | says | assuming |
|---|---|---|---|
| `HandledInOrder` | `EventHandler_proofs` | the safety part of `ImplementsChannel` | |
| `TypeCorrect` | `EventHandler_proofs` | types; the pipe holds no more packets than it has room for, and what is read fits the buffer with the Nul behind it | |
| `TypeCorrect` | `Elm327_proofs` | types; the command thread takes from a queue only when it holds a command | |
| `NoLostWakeup` | `Elm327_proofs` | `WakeupPending` | |
| `EventsFindState` | `Elm327_proofs` | `HandlersFindState` | |
| `ExitFindsThread` | `Elm327_proofs` | `command_thread_exit` never joins through a null pointer | not `EarlyUser` |
| `ServesInOrder` | `Elm327_proofs` | `ImplementsServiceSafety` | |
| `ResponsesMatch` | `Elm327_proofs` | `ResponseMatches` | `DeviceTimely` |
| `HeadersAgree` | `Elm327_proofs` | `SentToItsAddress` | `DeviceTimely` |
| `ReadsAnyReply` | `Elm327_proofs` | `ReadAsSaid` for any sequence of lines, with any bytes and any headers that are not 0 | |
| `RepliesRead` | `Elm327_proofs` | `ResponsesRead` | |
| `TypeCorrect` | `BluetoothSerialPort_proofs` | types | |
| `OneReplyPerAttempt` | `BluetoothSerialPort_proofs` | `ReplyMatchesAttempt` | |
| `OneDiscovery` | `BluetoothSerialPort_proofs` | `ProbeHasWork` | |
| `SocketOwned` | `BluetoothSerialPort_proofs` | `SocketHasOwner` | |
| `NoStalePath` | `BluetoothSerialPort_proofs` | `PathMapSound` | |
| `AttemptPromise` | `BluetoothSerialPort_proofs` | `ImplementsAttemptSafety`, the safety part of `ImplementsAttempt` | |
| `NothingDiscovers` | `BluetoothSerialPort_proofs` | `DiscoveryStopped` | `Patient` |
| `InventoryFollows` | `BluetoothSerialPort_proofs` | `InventoryTracksBus` | `QuietStart` |
| `ValuesReadBack` | `ObjectMessages_proofs` | `ReadsBack` for any value, however deep it is nested, in any message | |
| `OptionsReadBack` | `ObjectMessages_proofs` | what `dbus_message_append_dict` writes of any number of options is read back | |
| `MessagesRead` | `BluetoothSerialPort_proofs` | `MessagesUnderstood` | |
| `NeverClosedUnderReader` | `HardwareInterface_proofs` | `SocketStaysOpen`, types included | |
| `NoClickInAttempt` | `UserInterface_proofs` | `ButtonsFollowAttempt` | |
| `HandlerInAttempt` | `UserInterface_proofs` | `HandlersFollowAttempt` | |
| `PromptInAttempt` | `UserInterface_proofs` | `PromptHasAttempt` | |
| `RequestsAnswered` | `UserInterface_proofs` | `EveryRequestAnswered` | not `EmptyTexts` |
| `SerialTruthful` | `UserInterface_proofs` | `SerialPort` implements the safety part of `ConnectionAttempt` | |
| `TypeCorrect` | `UserInterface_proofs` | types; an event of the port is on its way only while its result waits to be taken (`EventForResult`); no request has two answers | |
| `NeverWaitsForReader` | `Terminal_proofs` | `JoinDoesNotWait` | |
| `DataInOrder` | `Terminal_proofs` | `DataAnnounced` and `ShownInOrder` | |
| `InputKept` | `Terminal_proofs` | `InputIntact` | |
| `TypeCorrect` | `Terminal_proofs` | types; no more notifications wait than `MaxData` allows reads | |
| `ChoicesSurvive` | `Settings_proofs` | `ChoicesKept` | |
| `RequestAsShown` | `Settings_proofs` | `RequestMatchesShown` | |
| `ScanIsHeard` | `Settings_proofs` | `ScanHasController` | |
| `TypeCorrect` | `Settings_proofs` | types; the item a list shows is the one stored | |

The last column names the environments of section 3, as hypotheses of the
theorem. Besides these, the proofs use only the assumptions the modules make of
their constants (`SizesAssumption`, `CommandsAssumption`, `ModesAssumption`,
`RepliesAssumption`, `RoundsAssumption`, `InventoryAssumption`, `MessagesAssumption`, `PortAssumption`, `NamesAssumption`,
`SocketAssumption`, `AgentAssumption`, `TerminalAssumption`, `SettingsAssumption`); TLC evaluates them in
the runs.

*EventHandler.* `PipeInv`: what was signalled is what was handled, followed by the
string in the buffer (`Buffered`, at most one) and by the packets of the pipe,
position by position. It is inductive because every packet is one whole string
that fits the read (`SizesAssumption`): a scan always finds its Nul and leaves the
buffer empty before the next read. A read leaves one byte of the buffer free, which
bounds what the buffer holds.

*Elm327.* `TypeOK` is not inductive: `ThreadTake` applies `Head` to the queue, so
the queue must not be empty at "take", and only this thread and the handler of
`CommandThreadExit`, which finds the thread finished, shorten it.
`WakeupPending` follows from where the semaphore's releases come from: a command
is emplaced before its release, the flag is set with its release, and the thread
re-tests both after each acquire. `HandlersFindState` needs that the events on
their way and the completions correspond one to one, also between
`send_completion` and `signal_event` (`CountInv`), that `InitDone` is signalled once
and before init's callback is dropped, and that behind `CommandThreadExit` only
`InitDone` can be on its way (`EventsInv`). `ExitFindsThread` adds where the user is: one
who waits for the callback of init can disconnect only after `InitDone`, which
`init_thread` signals behind the store of the pointer (`JoinInv`).

What the driver promises: `PositionInv` gives every accepted command its place: answered,
completed, in the thread's hands, or queued, in this order. `PhaseInv` ties the
phases of `CommandService` to where the threads are; it makes the end of the
command thread the answer to a `disconnect` that waits. With it each
step is a step of the service or none. `TimelyInv` says that an adapter that answers
in time leaves the line empty after each exchange, so that the next reply is the
command's own, and that cache and adapter agree on the header.

*ElmText.* `ReadsAnyReply` is about what `string_to_completion` computes, in no state
in particular. Its three nested loops are recursive functions of the number of
turns, each followed turn by turn: the value after n turns is written down and
shown to satisfy the loop's equation (`IsDataLoop`, `IsTextLoop`), and two functions
that satisfy it are equal (`SameLoop`). For the loop of the bytes it is the
first n bytes of the line and the stream behind them (`ByteRead`); for the loop of the
lines, what the first n lines say (`Collects`) and the text behind them (`Behinds`).
Where lines end in a space, `>>` skips the return and the loop of the bytes goes on
into the next line. Then the invariant is that the bytes read begin with the line's
and that the stream either failed or stands at a space further on (`GoesOn`): every
number of such a text has a space behind it (`Airy`), so the loop, which tests for a
return, never sees one, and ends when the text does.
`RepliesRead` applies this to the replies of the model.

*BluetoothSerialPort.* `IInv` has one part for each concern. `ReplyInv`: a stored
callback of `connect` either waits for the discovery to find its device, and
then no `Connect` is on its way, or has called `Connect`, once. This is why a
discovery that goes on after its device was found cannot complete a later attempt.
`WorkInv`: what advances a discovery is on its way exactly while it runs, and
while it is, a controller is selected, which `stop_probe` needs. `InventoryInv`
is `PathMapSound` with the types, `SocketInv` is `SocketHasOwner` with the types.
`DiscoveryInv` adds that an adapter that discovers is the selected one or one of
`unstopped`, and that before `StartDiscovery` is answered only the latter do.
`TracksInv` describes the signals on their way: an object about which none is on
its way is in the inventory if and only if bluez has it (after a crash: if),
and the last signal about any other says whether bluez has it; so the inventory is right
once all are handled. For `AttemptPromise`, `SeekInv` adds that a discovery runs while
`connect` waits for its device, so that no scan, which is refused then, takes
the callback's place; with `ReplyInv` and `WorkInv` each step is a step of
`BluetoothAttempt` or none.

*DBusMessage, ObjectMessages.* `MessagesUnderstood` says of every state that the
snapshot and the signals, written as messages, are read for what they mean. It follows from
`TypeOK`, because a message can be understood whatever it tells of; the work is in
the parser. A value is `Readable` if, wherever its marks stand in whatever message,
each reading that is nested at least as deep as they are long gives its meaning and the position
behind them. Whatever surrounds the value being arbitrary is what carries the
proof from the outside of a container to its inside. Basic values are readable
(`BasicReadable`), and so are variants, lists and dictionaries of readable values
(`VariantReadable`, `ListReadable`, `DictReadable`): what a container holds is two marks
shorter than the container, so one level of nesting less is enough
(`RoomInside`). The loop inside is followed turn by turn (`PartsAre`): with r parts left, r turns
and one for the end read them all, by induction on r. For a
dictionary `emplace` is followed as well: the first value of a key stays
(`EmplaceMaps`, `IsMap`). An empty container opens and closes at once, so that only its
signature can tell (`DictBegins`), which is where the mutant
`ReadContainerByElement` fails. `ValuesReadBack` puts the steps together: values are built one after
the other, each of earlier ones (`Built`). `ReplyRead` and `SignalRead` apply them to the
messages of the inventory; that a reply tells of finitely many objects, so that its
entries can be written in some order, is `MessagesAssumption`. Of
`SetToSeq` only that it lists each object once, in some order, is used.

*HardwareInterface.* `IInv`: the lock is shared exactly by the threads that use
the socket and held alone only for the exchange (`LockFollowsUse`), and between the
test of `m_sock_fd`, which is made without the lock, and the store nobody else
stores a socket (`Fresh`).

*UserInterface.* The three properties of the window need one another and what
`AttemptInv` adds: during an attempt the home view is shown and there is no
connection yet, and a
stored callback is the selected interface's. Then no button is enabled, so that
neither the view nor the interface changes under the attempt, its end finds the
handler where the beginning put it, and a request finds a handler only during
an attempt through bluetooth. `SerialInv` follows the file (`FileInv`) and the future
(`FutureInv`) along the steps of the thread; the refinement maps `due` to the
stored callback and `held` to the open file. `AgentInv`: a request is answered, or
in the dialog, or in the inbox, and in one place only, so that an answer that
comes after a Cancel goes to its own request, once.

*Terminal.* `ReaderInv` ties `m_reader_stopped` to the thread: true means there is
no reader, or one that has nothing left to do; a slot that is about to start a
reader has seen it true, and only that slot resets it. `DataInv` says that what is
shown and what waits is ordered and was all read before what the reader holds
(`ReadBefore`): a new element is larger than all the rest, and each handler
moves the whole buffer or drops it. `InputInv` says in every view what `InputIntact`
says in the terminal's, and that the start of the input is inside the text; the
lemmas `BehindInsert`, `BehindWithout` and `BehindShown` say what an insertion,
an erasure and the display of data do to the text behind a position.
`NotifiedInv` bounds the notifications by the reads made so far, which `TypeOK` bounds by
`MaxData`.

*Settings.* `ListsInv` says of each list that its index shows one of its items, and that
the value shown is the one stored (`IsList`); an item may stand in it twice.
It rests on what `Filled` computes (`FilledIs`): the items in their order, the
first of them current and stored, whatever was stored before. `Filled` is a
recursive function, and this is proved by
induction on the number of items inserted; the induction is about a set of numbers
(`UpTo`: a set that holds 0, and with each number below the bound its successor,
holds all up to the bound), because a theorem about a predicate cannot be
instantiated here. `InterfaceInv` ties the checked radio button and the interface in
use to the stored choice, and `ControllerInv` says that bluetooth is chosen only
where it is offered, and then a controller is selected.

Each proof was preceded by checking the invariant with TLC on the run's instance.

Only model-checked:

* Liveness under fairness (`ImplementsChannel` and `ImplementsService` in full,
  `SerialKeepsPromise` and `ImplementsAttempt` in full, `InitReported`, `ScanEnds`,
  `MainServed`, `UsableAgain`, `DataShown`, `ReaderStops`), which is out of the prover's reach.

## 5. Disagreements between code and intent

With a run that shows them:

* `bt_probe_busy`: `connect` to an unknown device while a discovery runs never ends,
  and refuses every later `connect` (`bluetooth-serial-port.cpp:502`).
* `terminal_join`: two notifications handled after the reader stopped join it twice,
  which throws (`terminal.cpp:92`).
* `empty_answer`: a confirmed empty text is never sent (`connect-button.cpp:106`).

Met while modelling, without a run, because nothing in the repository says
otherwise or because it takes an assumption of section 3 away.

The driver:

* Without `DeviceTimely`, a reply that arrives after its read timed out is given to
  the next command's callback (`elm327.cpp:271`): `ResponseMatches` is false. After a lost
  `ATSH` the cached header and the adapter's differ (`:222`): `SentToItsAddress` is false.
* Without `ProtocolParses`, `std::stoi` throws `invalid_argument`, which `init_thread`
  does not catch (`:335`): `InitReported` is false, and the exception
  stays in a future nobody reads.
* An early user (`EarlyUser`) can disconnect before `init_thread` has stored the
  pointer to the command thread, and `command_thread_exit` joins through a null pointer
  (`:251`; action `JoinNull`).
* `m_cmd_semaphore` is a `binary_semaphore`; two quick commands release it above its
  maximum, which the standard leaves undefined (`elm327.hpp:85`). The model
  counts on, as libstdc++ does.
* Parsing (`:172` to `:211`), as `ReadAsSaid` states it: a space before the carriage return
  lets `>>` skip the return, so that the next line's header is taken for data and
  a zero byte is appended; a text that is cut off gives a zero byte too. Not in the
  model: a message that begins with a hexadecimal digit ("DATA ERROR", "BUFFER
  FULL", "CAN ERROR", "BUS INIT") is read as a header, a 29-bit header gives its
  first byte only, and "SEARCHING..." in front of a reply hides the reply.
* `command_to_string` streams the data as characters, not as hexadecimal numbers (`:165`).

Bluetooth:

* `CallsMayFail`: `initiate_connection` ignores that `Connect` was not sent, and the
  attempt hangs (`bluetooth-serial-port.cpp:177`).
* On a first run no controller is selected until the settings are opened, and
  `connect` to an unknown device never ends: `probe_remote_devices` calls
  the old callback, not the one it was given (`:519`). `Prepared` excludes it.
* A `StopDiscovery` or `StartDiscovery` that bluez refuses or does not answer is only
  logged: the discovery is reported as finished while the adapter may go on (`:426`).
  `DiscoveryStopped` excludes such adapters by name (`unstopped`).
* Without `QuietStart` an object that changes between the snapshot and the
  installation of the matches is missed for good (`:297`).
* Without `Patient`, selecting another controller during a discovery sends
  `StopDiscovery` to it, and the first goes on (`:437`).
* After bluetoothd was restarted the profile is not registered again, what
  vanished with it stays in the inventory, and a held socket keeps its owner
  until the program ends (`:282`).
* Two adapters that see the same device share one entry of the path map: `connect`
  may go through an adapter that is not selected, and when one of the two objects
  vanishes, the other is looked for by a discovery although it is known (`:363`). A scan
  lists the device's address twice (`:526`, `settings.cpp:251`).
* A socket stored after the reader has set its timeout has none: a silent device
  then keeps the reader, and the main thread that wants to close the socket, in
  the lock. `MainServed` excludes it by name (`:625`).

The window:

* A bluetooth attempt that got lost (above) leaves it disabled until the program ends;
  `UsableAgain` excludes it by name.
* A scan started while the discovery of a finished attempt still runs is not told
  its end (`scan`, the branch that drops the callback): the list of devices stays hidden.
* When the settings are shown before the inventory has arrived, or after the last
  adapter has gone, the stored interface becomes the serial port; `ChoicesKept` excludes
  it by name (`settings.cpp:308`).
* A device name that contains `|` is taken apart wrongly, and the index of a part
  that is not there is out of range (`settings.cpp:209`).
* `set_connected(false)` is never called: after a lost link Connect stays disabled
  (`home.cpp:65`).
* A reader that has made its last test of `m_stop_reader` when its view is shown
  again stops; a new one starts only when a notification is still queued
  (`terminal.cpp:123`), so the view can be without a reader.
* Backspace erases text in front of the input (`terminal.cpp:166`); `m_input_begin`
  stays, and the next character typed is not part of what Enter sends. Hence the
  premise `~erased` of `InputIntact`.
* A string that does not fit the buffer of `process_events` together with its Nul and
  one byte is cut by the read of a packet (`event-handler.cpp:57`); no such event exists.

## 6. What is not modelled

* Obd: it is not built, and does not compile against `obd-device.hpp`. `elm327.cpp` is
  not among the executable's sources either (`src/src/CMakeLists.txt:48`); it is modelled,
  because it is complete.
* Logger, types, exceptions, `main`: output and declarations.
* Destructors other than the terminal's, and the end of the program.
* The text of commands (`command_to_string`), and messages of the adapter that begin
  with a digit (section 5).
* The managers' object: of `register_profile` and `register_agent` only what comes
  of them is kept. An agent that could not be registered is never asked, which
  adds no behaviour.
* The listing of serial devices, an arbitrary set in `Settings`, and the conversion
  of timeouts to tenths of a second.
* A `dup` that fails in `bt_new_connection` (`bluetooth-serial-port.cpp:602`): the path of
  the connected device is set then, and there is no socket.
* Selecting text, Delete and pasting in the terminal's input.
* Names in the lists of Settings: a device is its address.
* The lock around a serial port, which is opened by another thread than the one that reads:
  `ButtonsFollowAttempt` shows that no view with a reader is entered during an attempt.

## 7. The plan

Order: what the rest relies on first (`EventHandler`), then the components with
threads or with chains of calls, then what composes them, then the pure parts.

Done: all modules of section 2, the runs of section 3, the theorems of section 4.

To model:

1. `Settings` composed with `BluetoothSerialPort`, so that a scan that is dropped
   meets the list it hides.
2. `HardwareInterface` composed with `Terminal`: the reader in a read while the view
   is left and shown again.
3. `Elm327`'s destructor, with a command in progress.
4. Messages of the adapter that begin with a digit, and 29-bit headers, in `ElmText`.

To prove: every safety invariant and every refinement's safety part that a run
checks is a theorem. What is left is liveness, which the prover cannot reach, and
what the modules above will add.
