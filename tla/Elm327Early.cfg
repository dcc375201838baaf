CONSTANTS
  c1 = c1
  c2 = c2
  c3 = c3
  Commands = {c1, c3}
  Address <- MCAddress
  PipeSlots = 2
  Rounds = 2
  DeviceTimely = FALSE
  ProtocolParses = FALSE
  EarlyUser = TRUE
SPECIFICATION Spec
INVARIANTS HandlersFindState WakeupPending
PROPERTY ImplementsServiceSafety
CHECK_DEADLOCK FALSE
