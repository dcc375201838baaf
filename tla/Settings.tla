------------------------------ MODULE Settings ------------------------------
(***************************************************************************)
(* settings.cpp: the choices of the user (the interface, the host adapter, *)
(* the remote device, the serial device and the baud rate), how they are   *)
(* kept over restarts and while the drop-down lists are filled again, and  *)
(* what ConnectButton asks of the interfaces for them.                     *)
(* A list emits currentIndexChanged whenever its current item changes, so  *)
(* filling a list runs the same slot as a choice of the user.              *)
(***************************************************************************)
EXTENDS Naturals, FiniteSets, SequencesExt

CONSTANTS Controllers, Devices, SerialDevices,
          BaudRates,          \* a sequence
          DefaultBaudRate, InitialBaudRate,     \* 9600, and B38400 of SerialPort
          None                \* a value QSettings does not hold, a text nobody shows
ASSUME SettingsAssumption ==
    /\ IsFiniteSet(Controllers) /\ IsFiniteSet(Devices) /\ IsFiniteSet(SerialDevices)
    /\ BaudRates \in Seq(Range(BaudRates))
    /\ {DefaultBaudRate, InitialBaudRate} \subseteq Range(BaudRates)
    /\ None \notin Controllers \cup Devices \cup SerialDevices \cup Range(BaudRates)
    /\ None \notin {"bluetooth", "serial"}

Lists == {"controller", "device", "serial", "baud"}

VARIABLES
  interface_type,             \* QSettings: "bluetooth", "serial" or None
  list,                       \* each list: [items, index, stored]; index 0: no current item,
                              \* stored: the value QSettings holds for it
  checked,                    \* the radio button that is on
  m_bluetooth_rb,             \* the radio button of bluetooth is enabled
  m_hardware_interface,
  view,                       \* "home" or "settings"
  scanning,                   \* the list of devices is hidden
  m_controllers, m_selected_controller,         \* of BluetoothSerialPort
  m_baudrate,                 \* of SerialPort
  request                     \* <<device>> while ConnectButton's attempt runs, else <<>>

interfaceVars == <<interface_type, checked, m_hardware_interface>>
viewVars == <<view, m_bluetooth_rb>>
portVars == <<m_selected_controller, m_baudrate>>
vars == <<interfaceVars, list, viewVars, scanning, m_controllers, portVars, request>>

-----------------------------------------------------------------------------
(* A drop-down list.  Every slot stores the current text unless there is   *)
(* no current item (valid_dropdown_index).                                 *)

Empty(stored) == [items |-> <<>>, index |-> 0, stored |-> stored]

Shown(l) == IF l.index = 0 THEN None ELSE l.items[l.index]

setCurrentIndex(l, i) ==
    IF i = l.index THEN l ELSE [l EXCEPT !.index = i, !.stored = l.items[i]]

(* The first item of an empty list becomes the current one.                *)
addItem(l, text) ==
    LET longer == [l EXCEPT !.items = Append(l.items, text)]
    IN IF l.items = <<>> THEN setCurrentIndex(longer, 1) ELSE longer

(* A text the list does not have changes nothing.                          *)
setCurrentText(l, text) ==
    IF Contains(l.items, text)
    THEN setCurrentIndex(l, CHOOSE i \in DOMAIN l.items : l.items[i] = text)
    ELSE l

(* Mutant: clearing a list stores the empty text.                          *)
FilledStoringClear(l, values) ==
    LET filled[n \in 0..Len(values)] ==
          IF n = 0 THEN Empty("") ELSE addItem(filled[n - 1], values[n])
    IN filled[Len(values)]

(* The list is cleared, then the values are added one by one.              *)
Filled(l, values) ==
    LET filled[n \in 0..Len(values)] ==
          IF n = 0 THEN Empty(l.stored) ELSE addItem(filled[n - 1], values[n])
    IN filled[Len(values)]

(* Mutant: the default is read once the list is filled.                    *)
PopulateThenRead(l, values, default_value) ==
    LET filled == Filled(l, values) IN setCurrentText(filled, filled.stored)

populate_dropdown(l, values, default_value) ==
    setCurrentText(Filled(l, values), default_value)

-----------------------------------------------------------------------------
(* The program starts, with the values QSettings holds; bluez's objects    *)
(* are not known yet, so that selecting the controller fails.              *)

Started(l, stored) ==
    [c \in Lists |->
       IF c = "baud"
       THEN populate_dropdown(l[c], BaudRates,
                              IF stored[c] = None THEN DefaultBaudRate ELSE stored[c])
       ELSE IF c = "serial" \/ stored[c] = None THEN Empty(stored[c])
       ELSE addItem(Empty(stored[c]), stored[c])]

(* interface-type, 0 (bluetooth) when it is absent.                        *)
Interface(stored) == IF stored = None THEN "bluetooth" ELSE stored

Init ==
    /\ interface_type = None
    /\ list = Started([c \in Lists |-> Empty(None)], [c \in Lists |-> None])
    /\ checked = "bluetooth" /\ m_hardware_interface = "bluetooth"
    /\ m_bluetooth_rb = TRUE /\ view = "home" /\ scanning = FALSE
    /\ m_controllers = {} /\ m_selected_controller = None
    /\ m_baudrate = InitialBaudRate /\ request = <<>>

Restart ==
    /\ list' = Started(list, [c \in Lists |-> list[c].stored])
    /\ checked' = Interface(interface_type)
    /\ m_hardware_interface' = Interface(interface_type)
    /\ m_bluetooth_rb' = TRUE /\ view' = "home" /\ scanning' = FALSE
    /\ m_controllers' = {} /\ m_selected_controller' = None
    /\ m_baudrate' = InitialBaudRate /\ request' = <<>>
    /\ UNCHANGED interface_type

(* What bluez's messages do to the inventory meanwhile.                    *)
ControllersChange ==
    /\ \E c \in Controllers : m_controllers' \in {m_controllers \cup {c}, m_controllers \ {c}}
    /\ UNCHANGED <<interfaceVars, list, viewVars, scanning, portVars, request>>

-----------------------------------------------------------------------------
(* The view of the settings.                                               *)

Use(interface) ==
    /\ checked' = interface /\ m_hardware_interface' = interface
    /\ interface_type' = IF interface = Interface(interface_type) THEN interface_type
                                                                  ELSE interface

(* BluetoothSerialPort: an unknown controller is not selected.             *)
select_controller(c) ==
    m_selected_controller' = IF c \in m_controllers THEN c ELSE m_selected_controller

(* The lists of controllers, in the order of a hash table, and of serial   *)
(* devices, in the order of the directory, are filled again.               *)
FillLists ==
    /\ \E controllers \in SetToSeqs(m_controllers), files \in SUBSET SerialDevices :
          \E devices \in SetToSeqs(files) :
             list' = [list EXCEPT
               !["controller"] = populate_dropdown(@, controllers, @.stored),
               !["serial"] = populate_dropdown(@, devices, @.stored)]
    /\ select_controller(list'["controller"].stored)
    /\ UNCHANGED <<scanning, m_controllers, m_baudrate, request>>

(* Mutant: without a controller bluetooth can still be chosen.             *)
ShowEnabled ==
    /\ view = "home" /\ request = <<>> /\ view' = "settings" /\ m_bluetooth_rb' = TRUE
    /\ IF m_controllers = {} THEN Use("serial") ELSE UNCHANGED interfaceVars
    /\ FillLists

(* settings_clicked of Home, then on_show.                                 *)
on_show ==
    /\ view = "home" /\ request = <<>> /\ view' = "settings"
    /\ m_bluetooth_rb' = (m_controllers # {})
    /\ IF m_controllers = {} THEN Use("serial") ELSE UNCHANGED interfaceVars
    /\ FillLists

home_clicked ==
    /\ view = "settings" /\ view' = "home"
    /\ UNCHANGED <<interfaceVars, list, m_bluetooth_rb, scanning, m_controllers, portVars,
                   request>>

Choose(interface) ==
    /\ view = "settings" /\ Use(interface)
    /\ UNCHANGED <<list, viewVars, scanning, m_controllers, portVars, request>>

select_bluetooth == m_bluetooth_rb /\ Choose("bluetooth")
select_serial == Choose("serial")

(* The lists of the checked interface that the user can open; a single     *)
(* controller is not offered.                                              *)
Open == IF checked = "serial" THEN {"serial", "baud"}
        ELSE (IF scanning THEN {} ELSE {"device"})
             \cup (IF Len(list["controller"].items) = 1 THEN {} ELSE {"controller"})

(* select_serial_device, select_serial_baudrate, select_bluetooth_device   *)
(* and select_bluetooth_controller.                                        *)
Pick(c, i) ==
    /\ view = "settings" /\ c \in Open /\ i # list[c].index
    /\ list' = [list EXCEPT ![c] = setCurrentIndex(@, i)]
    /\ IF c = "controller" THEN select_controller(list'[c].stored)
                           ELSE UNCHANGED m_selected_controller
    /\ UNCHANGED <<interfaceVars, viewVars, scanning, m_controllers, m_baudrate, request>>

UserPicks == \E c \in Lists : \E i \in DOMAIN list[c].items : Pick(c, i)

scan_bluetooth ==
    /\ view = "settings" /\ checked = "bluetooth" /\ ~scanning /\ scanning' = TRUE
    /\ UNCHANGED <<interfaceVars, list, viewVars, m_controllers, portVars, request>>

(* The discovery has finished, whatever is shown by then: the device that  *)
(* is stored comes first, then the others of the inventory, in the order   *)
(* of a hash table of paths.  A device that two adapters see has two paths *)
(* and is listed twice.                                                    *)
scan_complete ==
    /\ scanning /\ scanning' = FALSE
    /\ \E found \in SUBSET (Controllers \X Devices) :
         \E paths \in SetToSeqs({p \in found : p[2] # list["device"].stored}) :
           LET others == [i \in DOMAIN paths |-> paths[i][2]]
           IN list' = [list EXCEPT !["device"] =
                Filled(@, (IF @.stored = None THEN <<>> ELSE << @.stored >>) \o others)]
    /\ UNCHANGED <<interfaceVars, viewVars, m_controllers, portVars, request>>

-----------------------------------------------------------------------------
(* ConnectButton.                                                          *)

(* Mutant: the port keeps the baud rate of the last request.               *)
RequestKeepsRate ==
    /\ IF Interface(interface_type) = "bluetooth"
       THEN /\ request' = <<list["device"].stored>>
            /\ select_controller(list["controller"].stored)
       ELSE /\ request' = <<list["serial"].stored>> /\ UNCHANGED m_selected_controller
    /\ UNCHANGED m_baudrate

(* SerialPort: a rate it does not know changes nothing.                    *)
set_baudrate(rate) == m_baudrate' = IF Contains(BaudRates, rate) THEN rate ELSE m_baudrate

(* The result of select_controller is not looked at.                       *)
get_selected_device ==
    IF Interface(interface_type) = "bluetooth"
    THEN /\ request' = <<list["device"].stored>>
         /\ select_controller(list["controller"].stored) /\ UNCHANGED m_baudrate
    ELSE /\ request' = <<list["serial"].stored>>
         /\ set_baudrate(list["baud"].stored) /\ UNCHANGED m_selected_controller

Connect ==
    /\ view = "home" /\ request = <<>> /\ get_selected_device
    /\ UNCHANGED <<interfaceVars, list, viewVars, scanning, m_controllers>>

AttemptEnds ==
    /\ request # <<>> /\ request' = <<>>
    /\ UNCHANGED <<interfaceVars, list, viewVars, scanning, m_controllers, portVars>>

Next == \/ Restart \/ ControllersChange
        \/ on_show \/ home_clicked \/ select_bluetooth \/ select_serial
        \/ UserPicks \/ scan_bluetooth \/ scan_complete
        \/ Connect \/ AttemptEnds

Spec == Init /\ [][Next]_vars

-----------------------------------------------------------------------------
Values(c) == CASE c = "controller" -> Controllers [] c = "device" -> Devices
               [] c = "serial" -> SerialDevices [] c = "baud" -> Range(BaudRates)

(* The values each variable can take; what a list shows is what is stored  *)
(* for it.                                                                 *)
TypeOK ==
    /\ interface_type \in {"bluetooth", "serial", None}
    /\ {checked, m_hardware_interface} \subseteq {"bluetooth", "serial"}
    /\ \A c \in Lists : /\ list[c].items \in Seq(Values(c))
                        /\ list[c].index \in DOMAIN list[c].items \cup {0}
                        /\ list[c].stored \in Values(c) \cup {None}
                        /\ list[c].index # 0 => Shown(list[c]) = list[c].stored
    /\ {m_bluetooth_rb, scanning} \subseteq BOOLEAN /\ view \in {"home", "settings"}
    /\ m_controllers \subseteq Controllers
    /\ m_selected_controller \in Controllers \cup {None}
    /\ m_baudrate \in Range(BaudRates)
    /\ request = <<>> \/ \E d \in Devices \cup SerialDevices \cup {None} : request = <<d>>

(* A stored choice survives restarts, scans and every filling of its list: *)
(* it changes only when the user picks another, when there was none, or    *)
(* when the list that is shown no longer offers it.  The interface changes *)
(* without the user only when the settings are shown and no controller is  *)
(* known.                                                                  *)
ChoicesKept ==
    [][/\ UserPicks \/ \A c \in Lists : \/ list'[c].stored = list[c].stored
                                        \/ list[c].stored = None
                                        \/ ~Contains(list'[c].items, list[c].stored)
       /\ \/ select_bluetooth \/ select_serial
          \/ interface_type' = interface_type
          \/ view' = "settings" /\ m_controllers = {}]_vars

(* A request is made of what the settings display: through the checked     *)
(* interface, to the device shown for it, from the host adapter shown (if  *)
(* the inventory has it by then) or at the baud rate shown.                *)
RequestMatchesShown ==
    [][request = <<>> /\ request' # <<>> =>
         LET shown(c) == Shown(list[c])
             device == request'[1]
         IN /\ m_hardware_interface = checked
            /\ checked = "bluetooth" =>
                 /\ shown("device") \in {None, device}
                 /\ shown("controller") \in {None, m_selected_controller'}
                                            \cup (Controllers \ m_controllers)
            /\ checked = "serial" => /\ shown("serial") \in {None, device}
                                     /\ shown("baud") = m_baudrate']_vars

(* While the Scan button can be clicked a controller is selected, so that  *)
(* a scan is not lost (probe_remote_devices without a controller).         *)
ScanHasController ==
    view = "settings" /\ checked = "bluetooth" /\ ~scanning => m_selected_controller # None
=============================================================================
