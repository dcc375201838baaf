CONSTANTS
  a = a
  b = b
  Events = {a, b}
  Size <- MCSize
  BufSize = 4
  PipeSlots = 2
  MaxSignals = 4
SPECIFICATION Spec
INVARIANT TypeOK
PROPERTY ImplementsChannel
CHECK_DEADLOCK FALSE
