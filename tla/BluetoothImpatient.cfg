CONSTANTS
  hci0 = hci0
  hci1 = hci1
  a1 = a1
  a2 = a2
  Controllers = {hci0, hci1}
  Addresses = {a1}
  MaxPending = 1
  MaxRestarts = 0
  QuietStart = FALSE
  FINISHED = 2
  MaxAttempts = 2
  CallsMayFail = TRUE
  Prepared = FALSE
  Patient = FALSE
SPECIFICATION Spec
INVARIANTS ReplyMatchesAttempt ProbeHasWork SocketHasOwner PathMapSound
SYMMETRY Symmetry
VIEW WithoutDiscoveries
