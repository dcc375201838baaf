CONSTANTS
  MaxRequests = 3
  EmptyTexts = TRUE
SPECIFICATION Spec
CHECK_DEADLOCK FALSE
INVARIANT EveryRequestAnswered
