SPECIFICATION Spec
CONSTANTS
  Path = {p}  Symbols <- TwoVersions
  Model = {m, none}  NoModel = none  Nobody = Nobody
  MaxEdits = 1  MaxRuns = 2  MaxBreaks = 0
INVARIANTS VectorOfItsText
CHECK_DEADLOCK FALSE
