SPECIFICATION Spec
CONSTANTS
  r1 = r1  r2 = r2
  h1 = h1  h2 = h2
  None = None
  Run = {r1, r2}
  Handler = {h1}
  Worker = {1, 2, 3}
  Files = 1
  MaxCalls = 5
  MaxPanics = 0
PROPERTIES CancelReachesIndex
CHECK_DEADLOCK FALSE
