CONSTANTS
  c1 = c1
  c2 = c2
  c3 = c3
  Commands = {c1, c2, c3}
  Address <- MCAddress
  PipeSlots = 2
  Rounds = 2
  DeviceTimely = TRUE
  ProtocolParses = TRUE
  EarlyUser = FALSE
SPECIFICATION Spec
INVARIANTS TypeOK ResponsesRead ResponseMatches SentToItsAddress
PROPERTIES ImplementsService InitReported
CHECK_DEADLOCK FALSE
