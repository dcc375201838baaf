CONSTANTS
  MaxRequests = 3
  EmptyTexts = FALSE
SPECIFICATION Spec
CHECK_DEADLOCK FALSE
INVARIANTS TypeOK ButtonsFollowAttempt HandlersFollowAttempt PromptHasAttempt EveryRequestAnswered
PROPERTIES UsableAgain SerialKeepsPromise
