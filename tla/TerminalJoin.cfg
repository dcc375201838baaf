CONSTANTS
  x = x
  y = y
  Prompt = Prompt
  Newline = Newline
  Keys = {x, y}
  MaxData = 2
  MaxShows = 2
  MaxText = 3
SPECIFICATION Spec
INVARIANT JoinedOnce
CHECK_DEADLOCK FALSE
