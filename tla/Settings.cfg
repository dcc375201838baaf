CONSTANTS
  hci0 = hci0
  hci1 = hci1
  d1 = d1
  d2 = d2
  tty0 = tty0
  tty1 = tty1
  b9600 = b9600
  b19200 = b19200
  b38400 = b38400
  None = None
  Controllers = {hci0, hci1}
  Devices = {d1, d2}
  SerialDevices = {tty0, tty1}
  BaudRates <- MCBaudRates
  DefaultBaudRate = b9600
  InitialBaudRate = b38400
SPECIFICATION Spec
INVARIANTS TypeOK ScanHasController
PROPERTIES ChoicesKept RequestMatchesShown
SYMMETRY Symmetry
