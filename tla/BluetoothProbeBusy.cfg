CONSTANTS
  hci0 = hci0
  hci1 = hci1
  a1 = a1
  a2 = a2
  Controllers = {hci0}
  Addresses = {a1}
  MaxPending = 1
  MaxRestarts = 0
  QuietStart = TRUE
  FINISHED = 2
  MaxAttempts = 2
  CallsMayFail = FALSE
  Prepared = TRUE
  Patient = FALSE
SPECIFICATION Spec
PROPERTY AttemptEnds
