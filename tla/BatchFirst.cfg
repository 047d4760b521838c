SPECIFICATION Spec
CONSTANTS
  Window = 4  Keep = 1  Main = main  Agent = {main, sub}  Call = {1, 2}
  MaxRows = 4  MaxPrompts = 0  MaxSummaries = 0  None = None
INVARIANTS ApprovedBatchRuns
CHECK_DEADLOCK FALSE
