SPECIFICATION Spec
CONSTANTS
  r1 = r1  r2 = r2
  h1 = h1  h2 = h2
  None = None
  Run = {r1, r2}
  Handler = {h1, h2}
  Worker = {1, 2}
  Files = 1
  MaxCalls = 4
  MaxPanics = 1
INVARIANTS ProgressInRange  WorkerAsClaimed NoLostWakeup
SYMMETRY Symmetry
CHECK_DEADLOCK FALSE
